---------------------------- MODULE MCToolchain ----------------------------
(***************************************************************************)
(* Instances of Toolchain for TLC: images of two blocks of two words that  *)
(* are equal, zero or different, and one that ends inside a block.         *)
(***************************************************************************)
EXTENDS Toolchain

Data(v) == <<"data", v>>

MCSrcs == {<<"path", name>> : name \in {"raw", "sp", "ext", "p0", "p1"}} \cup {Data(v) : v \in {"a", "b", Hole}}

Mixed == <<Data("a"), Data("b")>>
Equal == <<Data("a"), Data("a")>>
Zeros == <<Data(Hole), Data(Hole)>>

MCTouched == {<<Data("b"), Data("b")>>, <<Data("b"), Data("a")>>}

MCImages == {Mixed \o Zeros, Equal \o Mixed, Zeros \o Equal, Equal \o Equal, Mixed \o Mixed}

MCExtras == {Mixed, <<Data("a")>>}

MCPlain == {<<Data("b"), Data("b"), Data("a"), Data("b")>>, <<Data("a"), Data("b"), Data("a")>>}
=============================================================================

--------------------------- MODULE MCSparseWriter ---------------------------
(***************************************************************************)
(* Instances of SparseWriter for TLC: images of a few blocks of four       *)
(* bytes, made of up to three extents.                                     *)
(***************************************************************************)
EXTENDS SparseWriter

Shape(types, lens) == [type : types, gap : {0, 1}, len : lens]

\* The extents that follow list, one of every shape.
After(list, shapes) ==
  {Append(list, [id    |-> Len(list) + 1, type |-> h.type, src |-> "A",
                 off   |-> IF h.type = "fill" THEN 0 ELSE 8 * Len(list),
                 len   |-> h.len, block |-> LastBlock(list, Len(list) + 1) + h.gap]) : h \in shapes}

\* Data may end inside a block, a fill never does: no caller adds such a one.
Whole == Shape({"fill"}, {4, 8}) \cup Shape({"data", "fd"}, {3, 4, 8})

UpTo3(shapes) ==
  LET one == After(<<>>, shapes)
      two == UNION {After(list, shapes) : list \in one}
  IN {<<>>} \cup one \cup two \cup UNION {After(list, shapes) : list \in two}

InImage(list, len) == \A i \in DOMAIN list : list[i].block * BlockSize + list[i].len =< len

Written(lists, lens) == {[list |-> list, len |-> len] : list \in lists, len \in lens}

MCCookies == {w \in Written(UpTo3(Whole), {Blocks * BlockSize}) : InImage(w.list, w.len)}
=============================================================================

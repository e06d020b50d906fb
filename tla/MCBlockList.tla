---------------------------- MODULE MCBlockList ----------------------------
(***************************************************************************)
(* Instances of BlockList for TLC.                                         *)
(***************************************************************************)
EXTENDS BlockListProofs

\* Four blocks of two bytes; extents with and without a partial last block.
\* One file at offsets that continue each other or do not, one fill value,
\* and a few extents that must not be merged with those.
MCInputs ==
  {x \in [type : {"file", "fill"}, src : {"A"}, off : {0, 2}, len : {2, 3, 4}, block : 0 .. 3] :
     /\ x.type = "fill" => x.off = 0
     /\ WellPlaced(x)}
  \cup
  [type : {"data", "fd"}, src : {"A"}, off : {0}, len : {2}, block : 0 .. 3]
  \cup
  [type : {"fill"}, src : {"B"}, off : {0}, len : {2}, block : 0 .. 3]

Symmetry == Permutations(Addr)
=============================================================================

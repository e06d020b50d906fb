------------------------------ MODULE BlockMap ------------------------------
(***************************************************************************)
(* What a sparse file cookie promises its user, with no list in sight: it  *)
(* is a map from image blocks to contents.  Adding a region to it fills    *)
(* blocks that nothing held before and touches no other block.             *)
(***************************************************************************)
EXTENDS Extents

VARIABLE img                 \* img[b] : content of block b, or Hole

Init == img = [b \in 0 .. Blocks-1 |-> Hole]

Put(x) ==
  /\ \A b \in Covered(x) : img[b] = Hole
  /\ img' = [b \in 0 .. Blocks-1 |-> IF b \in Covered(x) THEN CellOf(x, b) ELSE img[b]]

Next == \E x \in Inputs : Put(x)

Spec == Init /\ [][Next]_img
=============================================================================

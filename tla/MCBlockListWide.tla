-------------------------- MODULE MCBlockListWide --------------------------
(***************************************************************************)
(* An image longer than an unsigned int can count bytes: nine blocks of    *)
(* two bytes, lengths modulo 16.  Every single call is within range.       *)
(***************************************************************************)
EXTENDS BlockList

MCInputs ==
  {x \in [type : {"fill"}, src : {"A"}, off : {0}, len : {2, 14}, block : 0 .. 8] : WellPlaced(x)}
=============================================================================

-------------------------------- MODULE Sums --------------------------------
(***************************************************************************)
(* The sum of a sequence of numbers, added up in one loop.  (It is a       *)
(* recursive function and not a fold, so that a proof can unfold it.)       *)
(***************************************************************************)
EXTENDS Integers, Sequences

Total(h) ==
  LET sum[i \in 0 .. Len(h)] == IF i = 0 THEN 0 ELSE sum[i-1] + h[i]
  IN sum[Len(h)]
=============================================================================

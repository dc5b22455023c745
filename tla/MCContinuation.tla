--------------------------- MODULE MCContinuation ---------------------------
(***************************************************************************)
(* Continuation on a small instance: three results of two rows, two places *)
(* in each store (three where nothing is to be evicted).                   *)
(***************************************************************************)
EXTENDS Continuation, TLC

IdSymmetry == Permutations(Ids)
==============================================================================

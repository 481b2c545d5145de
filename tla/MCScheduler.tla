----------------------------- MODULE MCScheduler -----------------------------
(***************************************************************************)
(* Instances of Scheduler for TLC: its threads and its operations are      *)
(* symmetric.                                                              *)
(***************************************************************************)
EXTENDS Scheduler, TLC

Symmetry == Permutations(Threads) \cup Permutations(Ops)
=============================================================================

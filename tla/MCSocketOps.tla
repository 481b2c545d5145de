----------------------------- MODULE MCSocketOps -----------------------------
(***************************************************************************)
(* Instances of SocketOps for TLC.                                         *)
(***************************************************************************)
EXTENDS SocketOps, TLC

Symmetry == Permutations(Threads)
=============================================================================

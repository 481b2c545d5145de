--------------------------- MODULE MCSystemContext ---------------------------
(***************************************************************************)
(* Instances of SystemContext for TLC.                                     *)
(***************************************************************************)
EXTENDS SystemContext
=============================================================================

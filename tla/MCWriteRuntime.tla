--------------------------- MODULE MCWriteRuntime ---------------------------
(***************************************************************************)
(* Instances of WriteRuntime for TLC.                                      *)
(***************************************************************************)
EXTENDS WriteRuntime
=============================================================================

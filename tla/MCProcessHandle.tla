-------------------------- MODULE MCProcessHandle --------------------------
(***************************************************************************)
(* ProcessHandle on small instances.                                       *)
(***************************************************************************)
EXTENDS ProcessHandle
=============================================================================

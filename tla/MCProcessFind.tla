--------------------------- MODULE MCProcessFind ---------------------------
(***************************************************************************)
(* ProcessFind on small instances.                                         *)
(***************************************************************************)
EXTENDS ProcessFind
=============================================================================

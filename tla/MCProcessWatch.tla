-------------------------- MODULE MCProcessWatch --------------------------
(***************************************************************************)
(* ProcessWatch on small instances.                                        *)
(***************************************************************************)
EXTENDS ProcessWatch
=============================================================================

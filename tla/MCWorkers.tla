----------------------------- MODULE MCWorkers -----------------------------
(***************************************************************************)
(* Workers on small instances.                                             *)
(***************************************************************************)
EXTENDS Workers, TLC

\* The addresses are only ever compared.
Symmetry == Permutations(Addr)
=============================================================================

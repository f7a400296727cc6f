---------------------------- MODULE MCDumpFiles ----------------------------
(***************************************************************************)
(* DumpFiles on small instances.                                           *)
(***************************************************************************)
EXTENDS DumpFiles, TLC

\* One descriptor is like another, and one dump like another.
Symmetry == Permutations(Fd) \cup Permutations(Dump)
=============================================================================

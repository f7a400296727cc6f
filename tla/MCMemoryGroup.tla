--------------------------- MODULE MCMemoryGroup ---------------------------
(***************************************************************************)
(* MemoryGroup on small instances.                                         *)
(***************************************************************************)
EXTENDS MemoryGroup, TLC

\* Less than nothing, a few, and as many as an int can say.
SomeNumbers == {-1, 0, 1, 2, 3, MaxInt}

\* The addresses are only ever compared.
Symmetry == Permutations(Addr)
=============================================================================

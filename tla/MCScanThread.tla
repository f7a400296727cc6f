---------------------------- MODULE MCScanThread ----------------------------
(***************************************************************************)
(* ScanThread on small instances.                                          *)
(***************************************************************************)
EXTENDS ScanThread

\* Nothing to dump, a mapping larger than a buffer, and one that is not after
\* another.
SmallLists == {<<>>, <<3>>, <<2, 1>>, <<3, 1>>}
=============================================================================

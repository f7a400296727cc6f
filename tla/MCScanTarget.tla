---------------------------- MODULE MCScanTarget ----------------------------
(***************************************************************************)
(* ScanTarget on small instances.                                          *)
(***************************************************************************)
EXTENDS ScanTarget

\* A mapping larger than a buffer, and one after another.
ShortLists == {<<3>>, <<1, 1>>}
=============================================================================

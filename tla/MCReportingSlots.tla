--------------------------- MODULE MCReportingSlots ---------------------------
(***************************************************************************)
(* More requests than permits of each kind.                                *)
(***************************************************************************)
EXTENDS ReportingSlots, TLC

RequestSymmetry == Permutations(Reports) \cup Permutations(Exports)
=============================================================================

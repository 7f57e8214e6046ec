--------------------------- MODULE MCMonthlyOrder ---------------------------
(* Instances of MonthlyOrder for TLC.                                      *)
EXTENDS MonthlyOrder

Everyone == Procs
Automatic == {"worker", "reconciler"}
=============================================================================

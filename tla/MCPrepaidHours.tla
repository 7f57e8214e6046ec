--------------------------- MODULE MCPrepaidHours ---------------------------
(* Instances of PrepaidHours for TLC. *)
EXTENDS PrepaidHours

CONSTANTS p1, p2
=============================================================================

--------------------------- MODULE MCHourlyServer ---------------------------
(* Instances of HourlyServer for TLC. *)
EXTENDS HourlyServer

CONSTANTS s1, k1, k2
=============================================================================

---------------------------- MODULE MCHourlyCreate ----------------------------
(* Instances of HourlyCreate for TLC. *)
EXTENDS HourlyCreate

CONSTANTS a1, a2, c1, c2, w1, w2
=============================================================================

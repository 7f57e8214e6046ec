---------------------------- MODULE MCUsageBilling ----------------------------
(* Instances of UsageBilling for TLC. *)
EXTENDS UsageBilling

CONSTANTS s1, s2
=============================================================================

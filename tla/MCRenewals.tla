----------------------------- MODULE MCRenewals -----------------------------
(* Instances of Renewals for TLC. *)
EXTENDS Renewals

CONSTANTS daily, manual, click
=============================================================================

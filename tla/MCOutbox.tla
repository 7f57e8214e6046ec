------------------------------ MODULE MCOutbox ------------------------------
(* Instances of Outbox for TLC. *)
EXTENDS Outbox, TLC

CONSTANTS d1, d2

Symmetry == Permutations(Passes)
=============================================================================

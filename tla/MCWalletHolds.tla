--------------------------- MODULE MCWalletHolds ---------------------------
(* Instances of WalletHolds for TLC. *)
EXTENDS WalletHolds, TLC

CONSTANTS p1, p2

(* Two holds that fit the wallet one at a time, but not together. *)
MCAmount == <<2, 3>>

(* A deposit, a refund that overflows a full wallet, and two debits. *)
MCDelta == <<4, 2, -1, -2>>
MCMoveType == <<"deposit", "refund", "charge", "adjustment">>

Symmetry == Permutations(Procs)
=============================================================================

------------------------------- MODULE Totals -------------------------------
(***************************************************************************)
(* Sums of integers indexed by 1..n: what the repositories ask the         *)
(* database for with SUM(...) over the rows of one wallet.  The sum is a   *)
(* recursive function, not a RECURSIVE operator and not a fold of a        *)
(* library, so that WalletHoldsProofs can prove what it does.              *)
(***************************************************************************)
EXTENDS Integers

(***************************************************************************)
(* w[1] + ... + w[n], for a function w from 1..n to the integers.          *)
(***************************************************************************)
Total(w, n) ==
    LET upTo[i \in 0..n] == IF i = 0 THEN 0 ELSE upTo[i - 1] + w[i]
    IN  upTo[n]

(* The weights of the members of S, and zero elsewhere. *)
Weigh(S, weight, n) == [i \in 1..n |-> IF i \in S THEN weight[i] ELSE 0]
=============================================================================

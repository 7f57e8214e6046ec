------------------------------- MODULE Escrow -------------------------------
(***************************************************************************)
(* What a wallet with holds promises, without saying how: money movements  *)
(* are applied at most once, an amount is reserved only while free cash    *)
(* covers it, and a reservation is settled (paid) or returned, once and    *)
(* for good.  There is no stored balance: the cash is what the applied     *)
(* movements and the settled reservations add up to.                       *)
(***************************************************************************)
EXTENDS Totals

CONSTANTS NumHolds, Amount, NumMoves, Delta, MaxBalance

VARIABLES
    reserved,  \* holds whose amount is set aside
    settled,   \* holds that were paid out
    returned,  \* holds that were given back
    applied    \* movements that were made

escrowVars == <<reserved, settled, returned, applied>>

Cash == Total(Weigh(applied, Delta, NumMoves), NumMoves)
          - Total(Weigh(settled, Amount, NumHolds), NumHolds)

Free == Cash - Total(Weigh(reserved, Amount, NumHolds), NumHolds)

EscrowInit ==
    reserved = {} /\ settled = {} /\ returned = {} /\ applied = {}

Apply(m) ==
    /\ m \notin applied
    /\ Cash + Delta[m] \in 0..MaxBalance
    /\ applied' = applied \union {m}
    /\ UNCHANGED <<reserved, settled, returned>>

Reserve(h) ==
    /\ h \notin reserved \union settled \union returned
    /\ Amount[h] <= Free
    /\ reserved' = reserved \union {h}
    /\ UNCHANGED <<settled, returned, applied>>

Settle(h) ==
    /\ h \in reserved
    /\ Amount[h] <= Cash
    /\ reserved' = reserved \ {h}
    /\ settled' = settled \union {h}
    /\ UNCHANGED <<returned, applied>>

Return(h) ==
    /\ h \in reserved
    /\ reserved' = reserved \ {h}
    /\ returned' = returned \union {h}
    /\ UNCHANGED <<settled, applied>>

EscrowNext ==
    \/ \E m \in 1..NumMoves : Apply(m)
    \/ \E h \in 1..NumHolds : Reserve(h) \/ Settle(h) \/ Return(h)

EscrowSpec == EscrowInit /\ [][EscrowNext]_escrowVars
=============================================================================

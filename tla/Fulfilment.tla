----------------------------- MODULE Fulfilment -----------------------------
(***************************************************************************)
(* What the account pool promises about one purchase, whoever works on it  *)
(* and however often: accounts are asked one after the other, each once,   *)
(* and only while the customer's money is set aside; a machine is made at  *)
(* most once, on the account that was asked last; and the money goes back  *)
(* only when no account can hold a machine.                                *)
(***************************************************************************)
EXTENDS Integers

CONSTANTS Accounts, None

VARIABLES
    reserving,  \* the money of this contract is set aside before anything else
    money,      \* "none", "reserved", "paid" or "returned"
    owner,      \* the account that may hold the machine, or None
    refused,    \* accounts that said no
    bought,     \* machines made per account
    attached    \* the machine the customer's server names, or None

fulfilmentVars == <<reserving, money, owner, refused, bought, attached>>

FulfilmentInit ==
    /\ reserving \in BOOLEAN
    /\ money = "none" /\ owner = None /\ refused = {} /\ attached = None
    /\ bought = [a \in Accounts |-> 0]

Reserve ==
    /\ money = "none" /\ money' = "reserved"
    /\ UNCHANGED <<reserving, owner, refused, bought, attached>>

Ask(a) ==
    /\ owner = None /\ a \notin refused
    /\ reserving => money = "reserved"
    /\ owner' = a
    /\ UNCHANGED <<reserving, money, refused, bought, attached>>

Make(a) ==
    /\ owner = a /\ \A b \in Accounts : bought[b] = 0
    /\ bought' = [bought EXCEPT ![a] = 1]
    /\ UNCHANGED <<reserving, money, owner, refused, attached>>

Refuse(a) ==
    /\ owner = a /\ bought[a] = 0
    /\ owner' = None /\ refused' = refused \union {a}
    /\ UNCHANGED <<reserving, money, bought, attached>>

Attach ==
    /\ owner # None /\ bought[owner] = 1
    /\ attached' = owner
    /\ UNCHANGED <<reserving, money, owner, refused, bought>>

Pay ==
    /\ attached # None /\ money = "reserved" /\ money' = "paid"
    /\ UNCHANGED <<reserving, owner, refused, bought, attached>>

Return ==
    /\ owner = None /\ money = "reserved" /\ money' = "returned"
    /\ UNCHANGED <<reserving, owner, refused, bought, attached>>

(* A same-currency confirmation that fails half-way drops its row and its  *)
(* money whatever the worker has made of it meanwhile.                     *)
Forget ==
    /\ ~reserving
    /\ \/ attached' = None /\ UNCHANGED money
       \/ money = "reserved" /\ money' = "returned" /\ UNCHANGED attached
    /\ UNCHANGED <<reserving, owner, refused, bought>>

FulfilmentNext ==
    \/ \E a \in Accounts : Ask(a) \/ Make(a) \/ Refuse(a)
    \/ Reserve \/ Attach \/ Pay \/ Return \/ Forget

FulfilmentSpec == FulfilmentInit /\ [][FulfilmentNext]_fulfilmentVars
=============================================================================

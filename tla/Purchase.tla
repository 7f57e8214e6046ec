------------------------------ MODULE Purchase ------------------------------
(***************************************************************************)
(* What modules/orders promises about one prepaid purchase, with no        *)
(* processes, rows or crashes in sight.                                    *)
(***************************************************************************)
EXTENDS Integers

VARIABLES
    bought,     \* orders the provider accepted for this intent
    money,      \* "created" (on hold), "captured" or "released"
    charged,    \* the charge is in the ledger
    delivered   \* the server was handed to the customer

vars == <<bought, money, charged, delivered>>

Init == bought = 0 /\ money = "created" /\ charged = FALSE /\ delivered = FALSE

(* At most once.  A retried intent may buy with its hold already released: *)
(* such a purchase is never paid and never delivered.                      *)
Buy == bought = 0 /\ bought' = 1 /\ UNCHANGED <<money, charged, delivered>>

Return ==
    /\ bought = 0 /\ money = "created" /\ money' = "released"
    /\ UNCHANGED <<bought, charged, delivered>>

Pay ==
    /\ bought = 1 /\ money = "created" /\ money' = "captured"
    /\ UNCHANGED <<bought, charged, delivered>>

Record ==
    /\ money = "captured" /\ charged' = TRUE
    /\ UNCHANGED <<bought, money, delivered>>

Deliver == charged /\ delivered' = TRUE /\ UNCHANGED <<bought, money, charged>>

Next == Buy \/ Return \/ Pay \/ Record \/ Deliver

Spec == Init /\ [][Next]_vars
=============================================================================

---------------------------- MODULE WalletHolds ----------------------------
(***************************************************************************)
(* One customer's wallet: its balance, its holds and its ledger, and the   *)
(* processes (bot handlers, queue workers, reconcilers, admin commands)    *)
(* that work on it at the same time.                                       *)
(*                                                                         *)
(* modules/wallet/repository.py.  A repository method that locks its rows, *)
(* writes and commits once is one step.  A HoldService method is several   *)
(* transactions; each one is a step of its own, any other process may run  *)
(* between two of them, and the process may die between two of them.       *)
(*                                                                         *)
(* A hold is named by its idempotency key, a number in Holds (the pair     *)
(* (wallet, key) is unique).  A movement is one balance change made under  *)
(* one ledger idempotency key: a gateway deposit (credit_deposit) or a     *)
(* signed adjustment, refund or charge (adjust).                           *)
(***************************************************************************)
EXTENDS Totals, FiniteSets

CONSTANTS
    NumHolds,      \* how many hold keys the callers ever use
    Amount,        \* the amount, in minor units, each hold reserves
    NumMoves,      \* how many movement keys the callers ever use
    Delta,         \* the signed amount of each movement
    MoveType,      \* the ledger entry type of each movement
    MaxBalance,    \* 2^63 - 1: what the balance column holds
    Procs,         \* concurrent executions of HoldService methods
    DirectCalls    \* whether callers that use the hold repository run too

Holds == 1..NumHolds
Moves == 1..NumMoves

ASSUME HoldsAssumption == NumHolds \in Nat /\ Amount \in [Holds -> Nat \ {0}]
ASSUME MovesAssumption ==
    /\ NumMoves \in Nat
    /\ Delta \in [Moves -> Int \ {0}]
    /\ MoveType \in [Moves -> {"deposit", "refund", "charge", "adjustment"}]
    /\ \A m \in Moves : /\ MoveType[m] \in {"deposit", "refund"} => Delta[m] > 0
                        /\ MoveType[m] = "charge" => Delta[m] < 0
ASSUME BalanceAssumption == MaxBalance \in Nat
ASSUME DirectAssumption == DirectCalls \in BOOLEAN

VARIABLES
    balance,   \* wallets.balance, the cash including what is on hold
    status,    \* holds.status, or "none" while no row exists
    entries,   \* ledger rows of holds: <<entry type, hold>>
    posted,    \* movements whose ledger row exists
    calls      \* what each process is in the middle of

vars == <<balance, status, entries, posted, calls>>

-----------------------------------------------------------------------------
Terminal == {"captured", "released"}
EntryTypes == {"hold", "release", "charge"}

Idle == [op |-> "idle"]
(***************************************************************************)
(* What a process remembers between two transactions of a method: which    *)
(* repository call comes next ("apply") or that only the ledger row is     *)
(* left ("post"), and of which hold.  The hold object it read is used for  *)
(* nothing else afterwards: amount and currency never change.              *)
(***************************************************************************)
Call == [op : EntryTypes, step : {"apply", "post"}, hold : Holds]

TypeOK ==
    /\ balance \in 0..MaxBalance
    /\ status \in [Holds -> {"none", "created"} \union Terminal]
    /\ entries \subseteq EntryTypes \X Holds
    /\ posted \subseteq Moves
    /\ calls \in [Procs -> Call \union {Idle}]

Init ==
    /\ balance = 0
    /\ status = [h \in Holds |-> "none"]
    /\ entries = {}
    /\ posted = {}
    /\ calls = [p \in Procs |-> Idle]

-----------------------------------------------------------------------------
InStatus(s) == {h \in Holds : status[h] = s}

(* Sum of the active holds, as both repository queries compute it. *)
Held == Total(Weigh(InStatus("created"), Amount, NumHolds), NumHolds)

(* Fault: the check compares with the balance and forgets earlier holds. *)
ReservableOfBalance(h) == balance >= Amount[h]
(* The wallet can cover hold h besides the holds that are active now. *)
Reservable(h) == balance - Held >= Amount[h]

(* Fault: a debit is applied without looking at the balance it leaves. *)
MovableUnchecked(m) == m \notin posted /\ balance + Delta[m] <= MaxBalance
(* Fault: the ledger key is not looked up, a replay moves money again. *)
MovableAgain(m) == balance + Delta[m] \in 0..MaxBalance
(***************************************************************************)
(* A new movement is applied when its key is new and the balance it leaves *)
(* is neither negative nor wider than the column.  Active holds are not    *)
(* looked at.                                                              *)
(***************************************************************************)
Movable(m) == m \notin posted /\ balance + Delta[m] \in 0..MaxBalance

-----------------------------------------------------------------------------
(* Movements: one transaction under the wallet row lock. *)

Move(m) ==
    /\ Movable(m)
    /\ balance' = balance + Delta[m]
    /\ posted' = posted \union {m}
    /\ UNCHANGED <<status, entries, calls>>

(* credit_deposit: the gateway paid; a replayed key changes nothing. *)
CreditDeposit(m) == MoveType[m] = "deposit" /\ Move(m)

(* adjust: an administrator's correction, a refund or a prepaid charge. *)
Adjust(m) == MoveType[m] # "deposit" /\ Move(m)

-----------------------------------------------------------------------------
(* The hold repository: each of these is one transaction. *)

(* Insert a hold row for a new key, under the wallet row lock. *)
InsertHold(h) ==
    /\ status[h] = "none"
    /\ Reservable(h)
    /\ status' = [status EXCEPT ![h] = "created"]

(* Fault: the row's status is not looked at under its lock. *)
MarkReleasedAlways(h) == status' = [status EXCEPT ![h] = "released"]
(* A created hold becomes released; the balance never moved for it. *)
MarkReleased(h) ==
    /\ status[h] = "created"
    /\ status' = [status EXCEPT ![h] = "released"]

(* Fault: the hold is captured but the wallet is not debited. *)
MarkCapturedUnpaid(h) ==
    /\ status[h] = "created"
    /\ balance >= Amount[h]
    /\ balance' = balance
    /\ status' = [status EXCEPT ![h] = "captured"]
(* Debit and capture together, under the locks of both rows. *)
MarkCaptured(h) ==
    /\ status[h] = "created"
    /\ balance >= Amount[h]
    /\ balance' = balance - Amount[h]
    /\ status' = [status EXCEPT ![h] = "captured"]

(***************************************************************************)
(* Checkout, the compute service and the provisioning worker use the       *)
(* repository itself: no ledger row is written for what they do.           *)
(***************************************************************************)
DirectCreate(h) ==
    /\ DirectCalls
    /\ InsertHold(h)
    /\ UNCHANGED <<balance, entries, posted, calls>>

DirectRelease(h) ==
    /\ DirectCalls
    /\ MarkReleased(h)
    /\ UNCHANGED <<balance, entries, posted, calls>>

-----------------------------------------------------------------------------
(* HoldService: several transactions per method. *)

InCall(p, op, step) == calls[p].op = op /\ calls[p].step = step
Goto(p, op, step, h) ==
    calls' = [calls EXCEPT ![p] = [op |-> op, step |-> step, hold |-> h]]
Finish(p) == calls' = [calls EXCEPT ![p] = Idle]

(***************************************************************************)
(* First read of create_hold: an active hold of that key is returned as it *)
(* is, whatever the balance; anything else goes to the locked insert.      *)
(***************************************************************************)
CreateLookup(p, h) ==
    /\ calls[p] = Idle
    /\ Goto(p, "hold", IF status[h] = "created" THEN "post" ELSE "apply", h)
    /\ UNCHANGED <<balance, status, entries, posted>>

(***************************************************************************)
(* The locked part of create_hold.  The balance is checked first, then the *)
(* duplicate.  A key whose hold is terminal fails on the unique index.     *)
(***************************************************************************)
CreateApply(p) ==
    LET h == calls[p].hold
    IN  /\ InCall(p, "hold", "apply")
        /\ \/ InsertHold(h) /\ Goto(p, "hold", "post", h)
           \/ /\ status[h] = "created" /\ Reservable(h)
              /\ UNCHANGED status /\ Goto(p, "hold", "post", h)
           \/ /\ status[h] \in Terminal \/ ~Reservable(h)
              /\ UNCHANGED status /\ Finish(p)
        /\ UNCHANGED <<balance, entries, posted>>

(* Fault: a hold that is not found passes too. *)
AcceptedMissing(h, outcome) == status[h] \in {"none", "created", outcome}
(***************************************************************************)
(* _resolve_hold and the test after it: the hold exists and the other      *)
(* terminal state is not reached yet.                                      *)
(***************************************************************************)
Accepted(h, outcome) == status[h] \in {"created", outcome}

(* release_hold reads the hold: a captured one is refused. *)
ReleaseResolve(p, h) ==
    /\ calls[p] = Idle
    /\ Accepted(h, "released")
    /\ Goto(p, "release", IF status[h] = "created" THEN "apply" ELSE "post", h)
    /\ UNCHANGED <<balance, status, entries, posted>>

(***************************************************************************)
(* The repository releases the row if it is still created; otherwise it    *)
(* returns nothing and the caller goes on to the ledger all the same.      *)
(***************************************************************************)
ReleaseApply(p) ==
    LET h == calls[p].hold
    IN  /\ InCall(p, "release", "apply")
        /\ MarkReleased(h) \/ (status[h] \in Terminal /\ UNCHANGED status)
        /\ Goto(p, "release", "post", h)
        /\ UNCHANGED <<balance, entries, posted>>

(* capture_hold reads the hold: a released one is refused. *)
CaptureResolve(p, h) ==
    /\ calls[p] = Idle
    /\ Accepted(h, "captured")
    /\ Goto(p, "charge", IF status[h] = "created" THEN "apply" ELSE "post", h)
    /\ UNCHANGED <<balance, status, entries, posted>>

(***************************************************************************)
(* The repository captures a row that is still created and affordable.  A  *)
(* terminal row is read again, but only for its amount, and the call goes  *)
(* on to the ledger; an unaffordable one raises.                           *)
(***************************************************************************)
CaptureApply(p) ==
    LET h == calls[p].hold
    IN  /\ InCall(p, "charge", "apply")
        /\ \/ MarkCaptured(h) /\ Goto(p, "charge", "post", h)
           \/ /\ status[h] \in Terminal
              /\ UNCHANGED <<balance, status>> /\ Goto(p, "charge", "post", h)
           \/ /\ status[h] = "created" /\ balance < Amount[h]
              /\ UNCHANGED <<balance, status>> /\ Finish(p)
        /\ UNCHANGED <<entries, posted>>

(* The ledger row of the call; its key is unique, a duplicate is ignored. *)
PostEntry(p) ==
    /\ \E op \in EntryTypes : InCall(p, op, "post")
    /\ entries' = entries \union {<<calls[p].op, calls[p].hold>>}
    /\ Finish(p)
    /\ UNCHANGED <<balance, status, posted>>

(* The process dies, or the database fails, between two transactions. *)
Crash(p) ==
    /\ calls[p] # Idle
    /\ Finish(p)
    /\ UNCHANGED <<balance, status, entries, posted>>

-----------------------------------------------------------------------------
Next ==
    \/ \E m \in Moves : CreditDeposit(m) \/ Adjust(m)
    \/ \E h \in Holds : DirectCreate(h) \/ DirectRelease(h)
    \/ \E p \in Procs, h \in Holds :
           CreateLookup(p, h) \/ ReleaseResolve(p, h) \/ CaptureResolve(p, h)
    \/ \E p \in Procs :
           CreateApply(p) \/ ReleaseApply(p) \/ CaptureApply(p) \/ PostEntry(p) \/ Crash(p)

Spec == Init /\ [][Next]_vars

-----------------------------------------------------------------------------
(* Properties *)

(***************************************************************************)
(* No money is made or lost: the stored balance is what the movements with *)
(* a ledger row add up to, less the captured holds.  Each movement counts  *)
(* once however often it is replayed, each hold is paid at most once       *)
(* however many captures race, whatever crashes.                           *)
(***************************************************************************)
MoneyAccounted ==
    balance = Total(Weigh(posted, Delta, NumMoves), NumMoves)
                - Total(Weigh(InStatus("captured"), Amount, NumHolds), NumHolds)

(***************************************************************************)
(* reconciliation.py calls the opposite OVERRESERVED, an impossible state: *)
(* the active holds never exceed the balance.  A debit adjustment can      *)
(* bring it about.                                                         *)
(***************************************************************************)
ReservationsCovered == balance - Held >= 0

(***************************************************************************)
(* As long as nothing was debited but by captures, purchases that race for *)
(* the same cash are never granted more than there is.                     *)
(***************************************************************************)
CreditsCovered == (\A m \in posted : Delta[m] > 0) => ReservationsCovered

(***************************************************************************)
(* A released hold is never captured later and a captured one is never     *)
(* released, although no process checks the status and writes it under one *)
(* lock except the repository's two methods.                               *)
(***************************************************************************)
HoldsFinal ==
    [][\A h \in Holds : status[h] \in Terminal => status'[h] = status[h]]_vars

(***************************************************************************)
(* The order of row and ledger: a RELEASE or CHARGE row exists only for a  *)
(* hold that is over, and a HOLD row only for a hold that exists, so a     *)
(* crash can lose a ledger row but never leaves one that came too early.   *)
(***************************************************************************)
EntriesFollowHolds ==
    \A h \in Holds :
        /\ <<"hold", h>> \in entries => status[h] # "none"
        /\ <<"release", h>> \in entries => status[h] \in Terminal
        /\ <<"charge", h>> \in entries => status[h] \in Terminal

(***************************************************************************)
(* The wallet is an escrow account: the multi-transaction methods, their   *)
(* races and their crashes are invisible at the level of Escrow, and the   *)
(* stored balance is the cash Escrow derives.                              *)
(***************************************************************************)
Abstract == INSTANCE Escrow WITH
                reserved <- InStatus("created"),
                settled <- InStatus("captured"),
                returned <- InStatus("released"),
                applied <- posted

RefinesEscrow == Abstract!EscrowSpec
=============================================================================

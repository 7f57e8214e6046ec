------------------------------ MODULE Renewals ------------------------------
(***************************************************************************)
(* The commercial record of one monthly server: the daily pass that        *)
(* collects, grants grace and suspends, the customer who renews by hand,   *)
(* switches automatic renewal, or spends the wallet, and the row, the      *)
(* wallet and the period holds they share.                                 *)
(*                                                                         *)
(* modules/renewals/service.py and repository.py.  A pass reads all        *)
(* records first and writes each one back whole, later; every repository   *)
(* call is a transaction of its own, so a process is a sequence of steps   *)
(* with anything in between, and may die between two of them.              *)
(*                                                                         *)
(* Time counts in whole units; a call takes no time at that scale.  A      *)
(* period is named by the instant it ends, which is also the hold's key    *)
(* (renewal-charge:<server>:<date>).                                       *)
(***************************************************************************)
EXTENDS Integers, FiniteSets

CONSTANTS
    FirstEnd,      \* when the period bought with the order ends
    Month,         \* MONTH_PERIOD: what one charge adds to the date
    Window,        \* charge_before_expiry_hours of the policy
    Grace,         \* grace_period_hours of the policy
    Horizon,       \* bound: the last instant looked at
    Price,         \* customer_price_minor
    MaxBalance,    \* bound: the most the wallet ever holds
    MaxCrashes,    \* bound: how often a call dies half-way
    Passes,        \* runs of the daily job that may overlap (the cron, the CLI)
    Clicks,        \* settle_now calls that may overlap
    Wishes         \* the preferences the customer ever asks for

ASSUME TimeAssumption ==
    /\ {FirstEnd, Month, Horizon} \subseteq Nat \ {0}
    /\ {Window, Grace} \subseteq Nat
    /\ Window + Grace < Month
ASSUME MoneyAssumption == Price \in Nat \ {0} /\ MaxBalance \in Nat /\ MaxCrashes \in Nat
ASSUME CallersAssumption == Passes \intersect Clicks = {} /\ Wishes \subseteq BOOLEAN

VARIABLES
    now,       \* the wall clock
    row,       \* the row of renewal_records
    hold,      \* the wallet hold of each period
    balance,   \* wallets.balance, holds included
    elsewhere, \* what the customer's other active holds reserve
    calls,     \* what each running call holds in memory
    wish,      \* the preference the customer set last
    rested,    \* whether the daily pass has run since the clock moved
    crashes    \* how many calls have died

vars == <<now, row, hold, balance, elsewhere, calls, wish, rested, crashes>>

-----------------------------------------------------------------------------
Procs == Passes \union Clicks
Dates == 0 .. (Horizon + Window + 2 * Month)
ASSUME HorizonAssumption == FirstEnd \in Dates
Never == -1                       \* a NULL column

Record == [renewal : Dates, status : {"active", "payment_due", "suspended"},
           auto : BOOLEAN, grace : Dates \union {Never}]

Idle == [at |-> "idle"]
Call == [at : {"check", "decide", "suspend", "charge", "create", "capture", "advance"},
         rec : Record, rich : BOOLEAN]

TypeOK ==
    /\ now \in 0..Horizon
    /\ row \in Record
    /\ hold \in [Dates -> {"none", "created", "captured"}]
    /\ balance \in 0..MaxBalance
    /\ elsewhere \in 0..balance
    /\ calls \in [Procs -> Call \union {Idle}]
    /\ wish \in BOOLEAN
    /\ rested \in BOOLEAN
    /\ crashes \in 0..MaxCrashes

(* What the activation of the order leaves: an active, dated record. *)
Init ==
    /\ now = 0
    /\ row = [renewal |-> FirstEnd, status |-> "active", auto |-> TRUE, grace |-> Never]
    /\ hold = [d \in Dates |-> "none"]
    /\ balance \in 0..MaxBalance
    /\ elsewhere = 0
    /\ calls = [p \in Procs |-> Idle]
    /\ wish = TRUE
    /\ rested = FALSE
    /\ crashes = 0

-----------------------------------------------------------------------------
At(p, place) == calls[p].at = place
Rec(p) == calls[p].rec
Goto(p, place, rec, rich) ==
    calls' = [calls EXCEPT ![p] = [at |-> place, rec |-> rec, rich |-> rich]]
Finish(p) == calls' = [calls EXCEPT ![p] = Idle]

Payable == {"payment_due", "suspended"}
GraceEnd(rec) == IF rec.grace # Never THEN rec.grace ELSE rec.renewal + Grace

(* Fault: every pass before expiry charges. *)
WindowAlwaysOpen(rec) == TRUE
(* The automatic charge window of the policy. *)
WindowOpen(rec) == rec.renewal - now <= Window

(* The wallet's cash covers the price; what is on hold is not deducted. *)
Covers == balance >= Price

(* Fault: what other purchases reserve is not deducted. *)
AvailableOfBalance == balance
(* What every active hold of the wallet leaves for a new one. *)
Available == balance - elsewhere - Price * Cardinality({d \in Dates : hold[d] = "created"})

-----------------------------------------------------------------------------
(* The daily pass: list_active, then _check on each record it listed. *)

ListActive(p) ==
    /\ p \in Passes /\ At(p, "idle")
    /\ Goto(p, "check", row, FALSE)
    /\ UNCHANGED <<now, row, hold, balance, elsewhere, wish, rested, crashes>>

(***************************************************************************)
(* The pass is through with this record, whatever came of it.              *)
(***************************************************************************)
Done(p) == Finish(p) /\ rested' = (rested \/ p \in Passes)

(***************************************************************************)
(* Before the period ends: collect early once the window is open, for who  *)
(* asked for it and can pay; otherwise only warn.  The status is not read. *)
(***************************************************************************)
CheckEarly(p) ==
    LET rec == Rec(p)
    IN  /\ At(p, "check") /\ rec.renewal > now
        /\ IF rec.auto /\ WindowOpen(rec) /\ Covers
           THEN Goto(p, "charge", rec, TRUE) /\ UNCHANGED rested
           ELSE Done(p)
        /\ UNCHANGED <<now, row, hold, balance, elsewhere, wish, crashes>>

(***************************************************************************)
(* _mark_due: an active record becomes PAYMENT_DUE with its deadline, a    *)
(* due one gets the deadline it misses; the whole record is saved.         *)
(***************************************************************************)
Due(rec) ==
    IF \/ rec.status = "active"
       \/ rec.status = "payment_due" /\ rec.grace = Never
    THEN [rec EXCEPT !.status = "payment_due", !.grace = rec.renewal + Grace]
    ELSE rec

MarkDue(p) ==
    LET due == Due(Rec(p))
    IN  /\ At(p, "check") /\ Rec(p).renewal <= now
        /\ row' = IF due = Rec(p) THEN row ELSE due
        /\ Goto(p, "decide", due, Covers)
        /\ UNCHANGED <<now, hold, balance, elsewhere, wish, rested, crashes>>

(***************************************************************************)
(* After expiry, with the balance read before the record was saved: past   *)
(* the deadline it is suspended without trying to collect; before it, the  *)
(* charge is retried if the customer wants automatic renewal.              *)
(***************************************************************************)
Decide(p) ==
    LET rec == Rec(p)
    IN  /\ At(p, "decide")
        /\ \/ /\ now >= GraceEnd(rec)
              /\ Goto(p, "suspend", rec, calls[p].rich) /\ UNCHANGED rested
           \/ /\ now < GraceEnd(rec) /\ rec.auto /\ calls[p].rich
              /\ Goto(p, "charge", rec, TRUE) /\ UNCHANGED rested
           \/ /\ now < GraceEnd(rec) /\ ~(rec.auto /\ calls[p].rich)
              /\ Done(p)
        /\ UNCHANGED <<now, row, hold, balance, elsewhere, wish, crashes>>

(* _suspend, after the notice log: save the record the pass read. *)
Suspend(p) ==
    LET rec == Rec(p)
    IN  /\ At(p, "suspend")
        /\ row' = IF rec.status # "suspended" THEN [rec EXCEPT !.status = "suspended"] ELSE row
        /\ Done(p)
        /\ UNCHANGED <<now, hold, balance, elsewhere, wish, crashes>>

-----------------------------------------------------------------------------
(* settle_now: the customer pays a period that is over, up to a month late. *)

(* Fault: one payment settles a period however long ago it ended. *)
SettleableForever(rec) == rec.status \in Payable /\ rec.renewal <= now
Settleable(rec) ==
    /\ rec.status \in Payable
    /\ rec.renewal <= now
    /\ now - rec.renewal <= Month

(* lock_for_update gives its lock back as soon as the row is read. *)
SettleNow(p) ==
    /\ p \in Clicks /\ At(p, "idle")
    /\ Settleable(row)
    /\ Goto(p, "charge", row, TRUE)
    /\ UNCHANGED <<now, row, hold, balance, elsewhere, wish, rested, crashes>>

-----------------------------------------------------------------------------
(* _charge and _settle, for both callers. *)

(* Fault: only a captured hold is reused, an open one is created again. *)
AfterLookupBlind(state) == IF state = "captured" THEN "advance" ELSE "create"
(* Where a charge goes from the hold it finds under the period's key. *)
AfterLookup(state) ==
    CASE state = "captured" -> "advance"
      [] state = "created"  -> "capture"
      [] state = "none"     -> "create"

ChargeLookup(p) ==
    /\ At(p, "charge")
    /\ Goto(p, AfterLookup(hold[Rec(p).renewal]), Rec(p), TRUE)
    /\ UNCHANGED <<now, row, hold, balance, elsewhere, wish, rested, crashes>>

(***************************************************************************)
(* create_hold: refused when the money is not available; a row another     *)
(* call inserted meanwhile is used as it is.                               *)
(***************************************************************************)
ChargeCreate(p) ==
    LET d == Rec(p).renewal
    IN  /\ At(p, "create")
        /\ IF Available < Price
           THEN Done(p) /\ UNCHANGED hold
           ELSE /\ hold' = IF hold[d] = "none" THEN [hold EXCEPT ![d] = "created"] ELSE hold
                /\ Goto(p, "capture", Rec(p), TRUE) /\ UNCHANGED rested
        /\ UNCHANGED <<now, row, balance, elsewhere, wish, crashes>>

(* The debit of a hold that is still open; a captured one costs nothing. *)
Debit(d) ==
    IF hold[d] = "captured" THEN UNCHANGED balance
    ELSE balance >= Price /\ balance' = balance - Price

ChargeCapture(p) ==
    LET d == Rec(p).renewal
    IN  /\ At(p, "capture")
        /\ \/ /\ Debit(d)
              /\ hold' = [hold EXCEPT ![d] = "captured"]
              /\ Goto(p, "advance", Rec(p), TRUE) /\ UNCHANGED rested
           \/ /\ hold[d] # "captured" /\ balance < Price
              /\ Done(p) /\ UNCHANGED <<hold, balance>>
        /\ UNCHANGED <<now, row, elsewhere, wish, crashes>>

(* Fault: the next period starts when the customer paid. *)
RenewedFromNow(rec) ==
    [rec EXCEPT !.renewal = now + Month, !.status = "active", !.grace = Never]
(* Fault: the date stays where it is. *)
RenewedInPlace(rec) == [rec EXCEPT !.status = "active", !.grace = Never]
Renewed(rec) ==
    [rec EXCEPT !.renewal = @ + Month, !.status = "active", !.grace = Never]

(* The paid record is saved whole, as it was read plus one period. *)
Advance(p) ==
    /\ At(p, "advance")
    /\ row' = Renewed(Rec(p))
    /\ Done(p)
    /\ UNCHANGED <<now, hold, balance, elsewhere, wish, crashes>>

-----------------------------------------------------------------------------
(* The customer, the wallet's other business, the clock, failures. *)

(* set_auto_renew writes that column only. *)
SetAutoRenew(choice) ==
    /\ choice \in Wishes /\ choice # wish
    /\ wish' = choice
    /\ row' = [row EXCEPT !.auto = choice]
    /\ UNCHANGED <<now, hold, balance, elsewhere, calls, rested, crashes>>

TopUp ==
    /\ balance < MaxBalance
    /\ balance' = balance + 1
    /\ UNCHANGED <<now, row, hold, calls, elsewhere, wish, rested, crashes>>

(* Other purchases of the customer reserve, and then capture or release. *)
HoldElsewhere ==
    /\ Available >= 1
    /\ elsewhere' = elsewhere + 1
    /\ UNCHANGED <<now, row, hold, balance, calls, wish, rested, crashes>>

SettleElsewhere ==
    /\ elsewhere >= 1
    /\ elsewhere' = elsewhere - 1
    /\ balance' \in {balance, balance - 1}
    /\ UNCHANGED <<now, row, hold, calls, wish, rested, crashes>>

(***************************************************************************)
(* The pass is a cron job of every day with a limit of 120 seconds, so it  *)
(* has run (or died) before the clock moves on, and no call spans units.   *)
(***************************************************************************)
Tick ==
    /\ now < Horizon
    /\ rested
    /\ \A p \in Procs : At(p, "idle")
    /\ now' = now + 1
    /\ rested' = FALSE
    /\ UNCHANGED <<row, hold, balance, calls, elsewhere, wish, crashes>>

(* The job's time limit, a database error or a restart ends a call. *)
Crash(p) ==
    /\ ~At(p, "idle") /\ crashes < MaxCrashes
    /\ crashes' = crashes + 1
    /\ Done(p)
    /\ UNCHANGED <<now, row, hold, balance, elsewhere, wish>>

-----------------------------------------------------------------------------
CallStep(p) ==
    \/ CheckEarly(p) \/ MarkDue(p) \/ Decide(p) \/ Suspend(p)
    \/ ChargeLookup(p) \/ ChargeCreate(p) \/ ChargeCapture(p) \/ Advance(p)

Next ==
    \/ \E p \in Procs :
           ListActive(p) \/ SettleNow(p) \/ CallStep(p) \/ Crash(p)
    \/ \E choice \in BOOLEAN : SetAutoRenew(choice)
    \/ TopUp \/ HoldElsewhere \/ SettleElsewhere \/ Tick

Spec == Init /\ [][Next]_vars

(***************************************************************************)
(* A call that started goes on, the cron starts a pass every day, and time *)
(* passes.  Nothing is assumed of the customer.                            *)
(***************************************************************************)
FairSpec ==
    /\ Spec
    /\ \A p \in Procs : WF_vars(CallStep(p))
    /\ \A p \in Passes : WF_vars(ListActive(p))
    /\ WF_vars(Tick)

-----------------------------------------------------------------------------
(* Properties *)

Paid(d) == hold[d] = "captured"
Ends == {d \in Dates : d >= FirstEnd /\ (d - FirstEnd) % Month = 0}

(***************************************************************************)
(* The record never runs ahead of the money, however many passes and       *)
(* clicks race, write old records back or die: every period the date has   *)
(* passed is captured, only real periods are, and none was jumped over.    *)
(***************************************************************************)
DateIsPaidFor ==
    /\ row.renewal \in Ends
    /\ \A d \in Dates : Paid(d) => d \in Ends
    /\ \A d \in Ends : d < row.renewal => Paid(d)
    /\ \A d, e \in Ends : Paid(e) /\ d < e => Paid(d)

(***************************************************************************)
(* A wallet pays for a period once and only while it is payable: never     *)
(* before the charge window, never more than a month after its end, and    *)
(* with one debit, also when the charge is replayed.                       *)
(***************************************************************************)
ChargedInSeason ==
    [][\A d \in Dates : Paid(d)' /\ ~Paid(d) =>
          /\ d - Window <= now /\ now <= d + Month
          /\ balance' = balance - Price]_vars

(***************************************************************************)
(* A record is active again only for money: its date moved by one month    *)
(* from a period whose hold is captured.                                   *)
(***************************************************************************)
ReactivatedByPayment ==
    [][row.status # "active" /\ row'.status = "active" =>
          /\ \E d \in Ends : Paid(d) /\ row'.renewal = d + Month
          /\ row'.renewal >= now]_vars

(***************************************************************************)
(* The promise of the pass: a customer with automatic renewal and a wallet *)
(* that always covers the price is never suspended, although passes die.   *)
(***************************************************************************)
FundedNeverSuspended ==
    [](row.auto /\ balance - elsewhere >= Price) => [](row.status # "suspended")

(***************************************************************************)
(* Money taken is service given: for such a customer a captured period     *)
(* moves the date, also when the call that captured it died before it      *)
(* saved the record.  Without the money for one more period the rerun      *)
(* never looks at the hold.                                                *)
(***************************************************************************)
PaidIsRenewed ==
    [](row.auto /\ balance - elsewhere >= Price) =>
        \A d \in Dates : Paid(d) ~> (row.renewal > d)

(***************************************************************************)
(* repository.py of set_auto_renew: "Persist the customer's                *)
(* automatic-renewal preference durably."                                  *)
(***************************************************************************)
PreferenceKept == row.auto = wish
=============================================================================

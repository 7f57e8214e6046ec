---------------------------- MODULE UsageBilling ----------------------------
(***************************************************************************)
(* Hourly servers that buy their next hour from the wallet: the first hour *)
(* from the hold of the checkout, each later one by a debit.               *)
(*                                                                         *)
(* AccrualJob and FinalChargeService of modules/billing/service.py, the    *)
(* advisory lock of billing/repository.py, accrue_usage and                *)
(* renew_hourly_coverage of worker/settings.py.                            *)
(*                                                                         *)
(* The lock has one holder, and everything that settles an hour runs under *)
(* it: job is the memory of that holder.  Between two of its transactions  *)
(* anything else may happen, and it may die.  It saves whole server rows   *)
(* from the copy it has.  Every hour costs 1; the cap is a number of hours *)
(* a month, and all months are one.                                        *)
(***************************************************************************)
EXTENDS Integers, FiniteSets

CONSTANTS
    Servers,       \* the hourly servers of one customer
    Hour,          \* the billing quantum
    Lead,          \* how long before the end of coverage the renewal runs
    Cap,           \* monthly_cap_minor of the margin rule
    Horizon,       \* bound: the last instant looked at
    MaxBalance,    \* bound: the most the wallet ever holds
    MaxTrouble     \* bound: dead jobs and failed calls, together

ASSUME TimeAssumption == {Hour, Horizon} \subseteq Nat \ {0} /\ Lead \in 0..(Hour - 1)
ASSUME MoneyAssumption == {Cap, MaxBalance, MaxTrouble} \subseteq Nat /\ IsFiniteSet(Servers)

VARIABLES
    now,       \* the wall clock
    row,       \* the servers row: state, contained_from, billing_started_at, last_accrued_at
    hold,      \* the reservation of the first hour
    balance,   \* wallets.balance
    posted,    \* the CHARGE rows of the ledger, by key
    noted,     \* the accrual rows: key and start of the hour
    capped,    \* hours settled as capped (audit rows)
    job,       \* what the holder of the lock has in memory
    trouble    \* how many jobs died and calls failed

moneyVars == <<hold, balance, posted, noted, capped>>
billingVars == <<now, row, moneyVars, job, trouble>>

-----------------------------------------------------------------------------
Never == -1                              \* a NULL instant
Times == 0..(Horizon + 2 * Hour)

Capture == <<"capture", 0>>              \* capture-server-create:<key>
Usage(start) == <<"usage", start>>       \* accrual:<server>:<start>
Keys == {Capture} \union {Usage(t) : t \in Times}

Active == {"provisioning", "running", "stopped"}
InDeletion == {"requested", "deleting", "deleted"}
Row == [state : Active \union InDeletion \union {"review"},
        from : Active \union InDeletion \union {"none"},
        anchor : Times \union {Never}, through : Times \union {Never}]
Ordered == [state |-> "provisioning", from |-> "none", anchor |-> Never, through |-> Never]

Idle == [at |-> "idle"]
Job == [kind : {"run", "renew", "ready", "power", "final"},
        at : {"next", "anchor", "settle", "post", "record", "advance", "unpaid", "over"},
        srv : Servers, todo : SUBSET Servers, copies : [Servers -> Row], snap : Row,
        moment : Times, until : Times, start : Times \union {Never}, key : Keys,
        ok : BOOLEAN]

BillingTypeOK ==
    /\ now \in 0..Horizon
    /\ row \in [Servers -> Row]
    /\ hold \in [Servers -> {"created", "captured", "released"}]
    /\ balance \in 0..MaxBalance
    /\ posted \in [Servers -> SUBSET Keys]
    /\ noted \in [Servers -> SUBSET (Keys \X Times)]
    /\ capped \in [Servers -> SUBSET Times]
    /\ job \in Job \union {Idle}
    /\ trouble \in 0..MaxTrouble

(* What the checkout and the provider's acceptance leave. *)
BillingInit ==
    /\ now = 0
    /\ row = [s \in Servers |-> Ordered]
    /\ hold = [s \in Servers |-> "created"]
    /\ balance \in Cardinality(Servers)..MaxBalance
    /\ posted = [s \in Servers |-> {}]
    /\ noted = [s \in Servers |-> {}]
    /\ capped = [s \in Servers |-> {}]
    /\ job = Idle
    /\ trouble = 0

-----------------------------------------------------------------------------
At(place) == job.at = place
Goto(place) == job' = [job EXCEPT !.at = place]
Working == job # Idle /\ job.at # "over"
MoreTrouble == trouble < MaxTrouble
Stumbled == MoreTrouble /\ trouble' = trouble + 1

(* Where the hours already bought end; before the first, the anchor. *)
Last(rec) == IF rec.through = Never THEN rec.anchor ELSE rec.through

(* The hour that starts exactly at `until` is due as well. *)
Due(rec, until) == rec.anchor # Never /\ Last(rec) <= until

(* Every save writes the whole row. *)
SaveRow(s, rec) == row' = [row EXCEPT ![s] = rec]

(***************************************************************************)
(* One server is done with: a run goes on to the next, a renewal ends, a   *)
(* caller that waits for its answer gets it and the lock is free again.    *)
(***************************************************************************)
ServerOver(ok, snap) ==
    job' = CASE job.kind = "run" /\ job.todo # {} -> [job EXCEPT !.at = "next"]
             [] job.kind = "run" /\ job.todo = {} -> Idle
             [] job.kind = "renew" -> Idle
             [] job.kind \notin {"run", "renew"} ->
                    [job EXCEPT !.at = "over", !.ok = ok, !.snap = snap,
                                !.moment = 0, !.until = 0, !.start = Never, !.key = Capture]
(* Fault: an hour that was not bought is reported as bought. *)
FailedAsDone == ServerOver(TRUE, job.snap)
Failed == ServerOver(FALSE, job.snap)

-----------------------------------------------------------------------------
(* Beginning: who finds the lock taken does nothing. *)

Fresh(kind, s, snap, until) ==
    [kind |-> kind, at |-> "settle", srv |-> s, todo |-> {}, snap |-> snap,
     copies |-> [x \in Servers |-> Ordered], moment |-> now, until |-> until,
     start |-> Last(snap), key |-> Capture, ok |-> FALSE]

(* run: every server that is up or on its way, as listed at the start. *)
BeginRun ==
    /\ job = Idle
    /\ LET due == {s \in Servers : row[s].state \in Active /\ Due(row[s], now)}
       IN  \E s \in due :
               job' = [Fresh("run", s, row[s], now) EXCEPT
                          !.todo = due \ {s},
                          !.copies = [x \in Servers |-> IF x \in due THEN row[x] ELSE Ordered]]
    /\ UNCHANGED <<now, row, moneyVars, trouble>>

NextServer ==
    /\ At("next")
    /\ \E s \in job.todo :
           job' = [job EXCEPT !.at = "settle", !.srv = s, !.todo = @ \ {s},
                              !.snap = job.copies[s], !.start = Last(job.copies[s]),
                              !.key = Capture]
    /\ UNCHANGED <<now, row, moneyVars, trouble>>

(***************************************************************************)
(* prepay_server: the row is read again under the lock.  The first call    *)
(* sets the anchor; a call that finds the hour bought has nothing to do.   *)
(***************************************************************************)
Prepayable(s) == job = Idle /\ row[s].state \in Active

BeginPrepay(kind, s, lead) ==
    /\ Prepayable(s)
    /\ job' = LET begun == Fresh(kind, s, row[s], now + lead)
              IN  CASE row[s].anchor = Never -> [begun EXCEPT !.at = "anchor"]
                    [] row[s].anchor # Never /\ Due(row[s], now + lead) -> begun
                    [] row[s].anchor # Never /\ ~Due(row[s], now + lead) ->
                           [begun EXCEPT !.at = "over", !.ok = TRUE, !.moment = 0,
                                         !.until = 0, !.start = Never]
    /\ UNCHANGED <<now, row, moneyVars, trouble>>

(* renew_hourly_coverage, scheduled for `Lead` before the end of coverage. *)
BeginRenewal(s) ==
    row[s].anchor # Never /\ Due(row[s], now + Lead) /\ BeginPrepay("renew", s, Lead)

Anchor ==
    /\ At("anchor")
    /\ SaveRow(job.srv, [job.snap EXCEPT !.anchor = job.moment])
    /\ job' = [job EXCEPT !.at = "settle", !.start = job.moment, !.snap.anchor = job.moment]
    /\ UNCHANGED <<now, moneyVars, trouble>>

-----------------------------------------------------------------------------
(* _settle_period *)

First == job.start = job.snap.anchor

(* Under which ledger keys this hour may have been paid already. *)
CandidateKeys == {Usage(job.start)} \union IF First THEN {Capture} ELSE {}

Found == posted[job.srv] \intersect CandidateKeys

(* month_total: what the accrual rows of the customer add up to. *)
Billed == Cardinality(UNION {{s} \X noted[s] : s \in Servers})
(* Fault: the hour at hand is not counted. *)
CapPassed == Billed > Cap
CapReached == Billed + 1 > Cap

(* Fault: the wallet is debited below zero. *)
AffordableAlways == TRUE
Affordable == balance > 0

(* Fault: the hold is asked for every hour. *)
ByHoldAlways == hold[job.srv] \in {"created", "captured"}
(* The first hour is paid by its hold; a released hold pays nothing. *)
ByHold == First /\ hold[job.srv] \in {"created", "captured"}

(***************************************************************************)
(* An hour found in the ledger is only recorded.  The cap comes after      *)
(* that, except for a hold already captured; then the money.               *)
(***************************************************************************)
Replay ==
    /\ At("settle") /\ Found # {}
    /\ IF Cardinality(Found) = 1
       THEN \E key \in Found : job' = [job EXCEPT !.at = "record", !.key = key]
       ELSE Failed
    /\ UNCHANGED <<now, row, moneyVars, trouble>>

Skip ==
    /\ At("settle") /\ Found = {} /\ CapReached
    /\ IF First /\ hold[job.srv] = "captured"
       THEN Goto("post") /\ UNCHANGED <<hold, capped>>
       ELSE /\ Goto("advance")
            /\ hold' = IF First /\ hold[job.srv] = "created"
                       THEN [hold EXCEPT ![job.srv] = "released"] ELSE hold
            /\ capped' = [capped EXCEPT ![job.srv] = @ \union {job.start}]
    /\ UNCHANGED <<now, row, balance, posted, noted, trouble>>

(* capture_hold: debit and status together, the ledger row after it. *)
CaptureHold ==
    /\ At("settle") /\ Found = {} /\ ~CapReached /\ ByHold
    /\ IF hold[job.srv] = "created" /\ ~Affordable
       THEN Goto("unpaid") /\ UNCHANGED <<hold, balance>>
       ELSE /\ hold' = [hold EXCEPT ![job.srv] = "captured"]
            /\ balance' = IF hold[job.srv] = "created" THEN balance - 1 ELSE balance
            /\ Goto("post")
    /\ UNCHANGED <<now, row, posted, noted, capped, trouble>>

Post ==
    /\ At("post")
    /\ posted' = [posted EXCEPT ![job.srv] = @ \union {Capture}]
    /\ job' = [job EXCEPT !.at = "record", !.key = Capture]
    /\ UNCHANGED <<now, row, hold, balance, noted, capped, trouble>>

(* adjust: the wallet and the ledger row in one transaction. *)
Debit ==
    /\ At("settle") /\ Found = {} /\ ~CapReached /\ ~ByHold
    /\ CASE First -> Failed /\ UNCHANGED <<balance, posted>>
         [] ~First /\ ~Affordable -> Goto("unpaid") /\ UNCHANGED <<balance, posted>>
         [] ~First /\ Affordable ->
                /\ balance' = balance - 1
                /\ posted' = [posted EXCEPT ![job.srv] = @ \union {Usage(job.start)}]
                /\ job' = [job EXCEPT !.at = "record", !.key = Usage(job.start)]
    /\ UNCHANGED <<now, row, hold, noted, capped, trouble>>

(* A key that was recorded for another hour fails closed. *)
Record ==
    /\ At("record")
    /\ IF \E t \in Times \ {job.start} : <<job.key, t>> \in noted[job.srv]
       THEN Failed /\ UNCHANGED noted
       ELSE /\ noted' = [noted EXCEPT ![job.srv] = @ \union {<<job.key, job.start>>}]
            /\ Goto("advance")
    /\ UNCHANGED <<now, row, hold, balance, posted, capped, trouble>>

(* Fault: the coverage moves by an hour too many. *)
AdvancedByTwo == job.start + 2 * Hour
(* Where the coverage ends once this hour is settled. *)
Advanced == job.start + Hour

(* The watermark, in the whole row; then the next hour that is due. *)
Advance ==
    LET through == IF job.snap.through > Advanced THEN job.snap.through ELSE Advanced
        saved == [job.snap EXCEPT !.through = through]
    IN  /\ At("advance")
        /\ SaveRow(job.srv, saved)
        /\ IF Advanced <= job.until /\ job.kind # "final"
           THEN job' = [job EXCEPT !.at = "settle", !.snap = saved, !.start = Advanced,
                                   !.key = Capture]
           ELSE ServerOver(TRUE, saved)
        /\ UNCHANGED <<now, moneyVars, trouble>>

(* Fault: the hour the customer has paid for is not waited for. *)
PaidHourLeftNever == FALSE
(* The hour bought last is not over yet. *)
PaidHourLeft == job.snap.through # Never /\ job.snap.through > job.moment

(* _request_unpaid_deletion *)
RequestDeletion ==
    /\ At("unpaid")
    /\ IF PaidHourLeft THEN UNCHANGED row
                       ELSE SaveRow(job.srv, [job.snap EXCEPT !.state = "requested"])
    /\ Failed
    /\ UNCHANGED <<now, moneyVars, trouble>>

(* A step fails: the server is skipped, the run goes on. *)
Stumble ==
    /\ Working /\ ~At("next") /\ Stumbled
    /\ Failed
    /\ UNCHANGED <<now, row, moneyVars>>

JobStep ==
    \/ NextServer \/ Anchor \/ Replay \/ Skip \/ CaptureHold \/ Post \/ Debit
    \/ Record \/ Advance \/ RequestDeletion

(* The caller takes its answer, and the lock is free. *)
Collect(kind, s, ok) ==
    /\ job # Idle /\ At("over")
    /\ job.kind = kind /\ job.srv = s /\ job.ok = ok
    /\ job' = Idle

(* The process dies; its session closes and gives the lock back. *)
JobDies ==
    /\ job # Idle /\ Stumbled
    /\ job' = Idle
    /\ UNCHANGED <<now, row, moneyVars>>

-----------------------------------------------------------------------------
TopUp ==
    /\ balance < MaxBalance /\ balance' = balance + 1
    /\ UNCHANGED <<now, row, hold, posted, noted, capped, job, trouble>>

Spend ==
    /\ balance > 0 /\ balance' = balance - 1
    /\ UNCHANGED <<now, row, hold, posted, noted, capped, job, trouble>>

Tick ==
    /\ now < Horizon /\ now' = now + 1
    /\ UNCHANGED <<row, moneyVars, job, trouble>>

(***************************************************************************)
(* Billing alone: the reconciler that delivers a server is here only the   *)
(* call that buys its first hour.                                          *)
(***************************************************************************)
BillingNext ==
    \/ BeginRun \/ JobStep \/ Stumble \/ JobDies \/ TopUp \/ Spend \/ Tick
    \/ \E s \in Servers :
           \/ BeginRenewal(s) \/ BeginPrepay("ready", s, 0)
           \/ /\ \E ok \in BOOLEAN : Collect("ready", s, ok)
              /\ UNCHANGED <<now, row, moneyVars, trouble>>

BillingSpec == BillingInit /\ [][BillingNext]_billingVars

(***************************************************************************)
(* The accrual cron comes every minute, so it does not always find the     *)
(* lock taken; who holds the lock goes on; a minute always ends.           *)
(***************************************************************************)
BillingFairSpec ==
    /\ BillingSpec
    /\ SF_billingVars(BeginRun) /\ WF_billingVars(JobStep)
    /\ \A s \in Servers, ok \in BOOLEAN :
           WF_billingVars(Collect("ready", s, ok) /\ UNCHANGED <<now, row, moneyVars, trouble>>)

-----------------------------------------------------------------------------
(* Properties *)

CoveredHours(s) ==
    {t \in Times : /\ row[s].anchor # Never /\ row[s].anchor <= t /\ t < row[s].through
                   /\ (t - row[s].anchor) % Hour = 0}

(***************************************************************************)
(* Coverage, ledger and accrual rows agree: an hour before paid-through    *)
(* was either capped, or recorded once, under a key that is in the ledger; *)
(* and a hold was captured exactly when the first hour was paid by it,     *)
(* whoever died in between.                                                *)
(***************************************************************************)
CoverageIsPaid ==
    \A s \in Servers :
        /\ \A t \in CoveredHours(s) :
               \/ t \in capped[s] /\ noted[s] \intersect (Keys \X {t}) = {}
               \/ \E key \in posted[s] : noted[s] \intersect (Keys \X {t}) = {<<key, t>>}
        /\ Capture \in posted[s] => hold[s] = "captured"
        /\ row[s].through # Never /\ capped[s] = {} => hold[s] = "captured"

(***************************************************************************)
(* "If the next hour is unaffordable early, the already-paid hour remains  *)
(* valid" (SELLING_RUNBOOK.md:350): billing asks for a deletion only when  *)
(* the hours it sold are over.                                             *)
(***************************************************************************)
PaidHourKept ==
    [][\A s \in Servers :
          (/\ job # Idle /\ At("unpaid") /\ job' # job
           /\ row[s].state \in Active /\ row'[s].state = "requested")
              => row[s].through <= now]_billingVars

(***************************************************************************)
(* No free hours: a server that was activated and whose coverage is over   *)
(* is covered again or leaves the active states, whatever fails in between *)
(* and however the wallet moves.                                           *)
(***************************************************************************)
Uncovered(s) ==
    row[s].state \in Active /\ row[s].anchor # Never /\ row[s].through <= now
UncoveredIsSettled == \A s \in Servers : Uncovered(s) ~> ~Uncovered(s)

(***************************************************************************)
(* "The cap must never be exceeded" (pricing/domain.py:70).                *)
(***************************************************************************)
Sold == UNION {{s} \X posted[s] : s \in Servers}
CapNeverExceeded == Cardinality(Sold) <= Cap

(* It holds while no step fails and no job dies. *)
CapKept == trouble = 0 => CapNeverExceeded
=============================================================================

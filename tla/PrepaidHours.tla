----------------------------- MODULE PrepaidHours -----------------------------
(***************************************************************************)
(* One server paid by the hour in advance: the binding, debit and coverage *)
(* of each hour, the zero-balance episode, and the passes that stop and    *)
(* delete a server that is not paid for.                                   *)
(*                                                                         *)
(* modules/billing/service.py and repository.py (the hours and the balance *)
(* policy), modules/operations/service.py (the state reconciler and the    *)
(* prepaid lifecycle), worker/settings.py (the pass of every minute).      *)
(* Each repository call is a transaction and each provider call a step;    *)
(* anything may come in between, and a pass may die between two of them.   *)
(*                                                                         *)
(* An hour is named by the instant it starts; the server was created at 0. *)
(* A power command is taken whole here, with the one thing of its ledger   *)
(* that matters to the pass: a key is good for one attempt.                *)
(***************************************************************************)
EXTENDS Integers, FiniteSets

CONSTANTS
    Hour,          \* what one charge covers
    Window,        \* how long before the end of coverage the pass renews
    Patience,      \* the 24 hours of zero balance before deletion
    Horizon,       \* bound: the last instant looked at
    Rates,         \* the IRT amounts an hour may be quoted at
    MaxBalance,    \* bound: the most the wallet ever holds
    MaxTrouble,    \* bound: lost passes, failed calls and moves of the machine, together
    Passes         \* runs of the minute job that may overlap

ASSUME TimeAssumption ==
    /\ {Hour, Patience, Horizon} \subseteq Nat \ {0}
    /\ Window \in 1..(Hour - 1)
ASSUME MoneyAssumption ==
    Rates \subseteq Nat \ {0} /\ Rates # {} /\ MaxBalance \in Nat
ASSUME TroubleAssumption == MaxTrouble \in Nat

VARIABLES
    now,       \* the wall clock
    row,       \* the servers row: state, prepaid_paid_until, prepaid_zero_since
    remote,    \* what the machine at the provider does
    period,    \* prepaid_hourly_periods: the bound amount and status of an hour
    ledger,    \* what was debited for an hour, 0 for no entry
    balance,   \* wallets.balance
    locked,    \* who holds the advisory lock
    pass,      \* what each running pass holds in memory
    sweep,     \* what the state reconciler holds in memory
    burnt,     \* the power-off keys the ledger has a final or lost operation for
    ran,       \* whether a pass has started since the clock moved
    rich,      \* when the balance policy last found money and noted it
    lost,      \* how many passes died or found the lock taken
    faults,    \* how many quotes and provider calls failed
    flips      \* how often the machine moved by itself

vars == <<now, row, remote, period, ledger, balance, locked, pass, sweep, burnt, ran,
          rich, lost, faults, flips>>
rowVars == <<row, remote>>
moneyVars == <<period, ledger, balance>>
boundVars == <<rich, lost, faults, flips>>

-----------------------------------------------------------------------------
Never == -1                              \* a NULL instant
Nobody == "nobody"
Times == 0..(Horizon + 2 * Hour)
Starts == {t \in Times : t % Hour = 0}

Alive == {"running", "stopped"}
Row == [state : {"provisioning", "deleting"} \union Alive,
        paid : Times \union {Never}, zero : Times \union {Never}]
Unbound == [rate |-> 0, status |-> "none"]
Idle == [at |-> "idle"]
NoRow == [state |-> "provisioning", paid |-> Never, zero |-> Never]

Pass == [at : {"repair", "list", "bind", "charge", "mark", "survey", "note", "enforce",
               "probe", "off", "confirm", "delete"},
         moment : Times, rec : Row, zero : Times \union {Never},
         unpaid : BOOLEAN, verdict : {"none", "stop", "delete"}, late : BOOLEAN]
Sweep == {"capture", "cover", "check", "start", "stop"}

TypeOK ==
    /\ now \in 0..Horizon
    /\ row \in Row
    /\ remote \in {"building", "running", "stopped"}
    /\ period \in [Starts -> [rate : Rates, status : {"pending", "paid"}] \union {Unbound}]
    /\ ledger \in [Starts -> Rates \union {0}]
    /\ balance \in 0..MaxBalance
    /\ locked \in Passes \union {Nobody}
    /\ pass \in [Passes -> Pass \union {Idle}]
    /\ sweep \in Sweep \union {"idle"}
    /\ burnt \subseteq ({"unpaid", "zero"} \X (Times \union {Never}))
    /\ ran \in BOOLEAN
    /\ rich \in 0..Horizon
    /\ {lost, faults, flips} \subseteq Nat /\ lost + faults + flips <= MaxTrouble

(***************************************************************************)
(* What the checkout leaves: the first hour bound, its amount on hold (so  *)
(* in the wallet), the server row provisioning, the machine being built.   *)
(***************************************************************************)
Init ==
    /\ now = 0
    /\ row = NoRow
    /\ remote = "building"
    /\ \E rate \in Rates :
           /\ period = [s \in Starts |-> IF s = 0 THEN [rate |-> rate, status |-> "pending"]
                                                  ELSE Unbound]
           /\ balance \in rate..MaxBalance
    /\ ledger = [s \in Starts |-> 0]
    /\ locked = Nobody
    /\ pass = [p \in Passes |-> Idle]
    /\ sweep = "idle"
    /\ burnt = {}
    /\ ran = FALSE
    /\ rich = 0
    /\ lost = 0 /\ faults = 0 /\ flips = 0

-----------------------------------------------------------------------------
MoreTrouble == lost + faults + flips < MaxTrouble

(* mark_paid: coverage and status move together, hour after hour. *)

MarkablePaid(s) ==
    period[s].status = "pending" /\ (row.paid = s \/ (row.paid = Never /\ s = 0))
Marked(s) == period[s].status = "paid" /\ row.paid = s + Hour

(* Fault: coverage runs from the clock, not from its own end. *)
MarkFromNow(s) ==
    IF MarkablePaid(s)
    THEN /\ period' = [period EXCEPT ![s].status = "paid"]
         /\ row' = [row EXCEPT !.paid = now + Hour]
    ELSE UNCHANGED <<row, period>>
MarkPaid(s) ==
    IF MarkablePaid(s)
    THEN /\ period' = [period EXCEPT ![s].status = "paid"]
         /\ row' = [row EXCEPT !.paid = s + Hour]
    ELSE UNCHANGED <<row, period>>

-----------------------------------------------------------------------------
(* The state reconciler: first activation, drift of the machine. *)

SweepTo(place) == sweep' = place
SweepEnds == sweep' = "idle"

Funded(rec) == rec.paid > now            \* NULL is below every instant

(***************************************************************************)
(* The row, then the machine.  A remote boot is not evidence that the      *)
(* upcoming hour was paid.                                                 *)
(***************************************************************************)
SweepLooks ==
    /\ sweep = "idle"
    /\ \/ /\ row.state = "provisioning" /\ remote = "running"
          /\ SweepTo("capture")
       \/ /\ row.state = "stopped" /\ remote = "running"
          /\ row.zero = Never /\ Funded(row)
          /\ SweepTo("start")
       \/ /\ row.state = "running" /\ remote = "stopped"
          /\ SweepTo("stop")
    /\ UNCHANGED <<now, rowVars, moneyVars, locked, pass, burnt, ran, boundVars>>

(* capture_first_hour: the hold is captured once, whoever calls again. *)
SweepCaptures ==
    /\ sweep = "capture"
    /\ IF ledger[0] = 0 /\ balance < period[0].rate
       THEN SweepEnds /\ UNCHANGED <<ledger, balance>>
       ELSE /\ ledger' = [ledger EXCEPT ![0] = period[0].rate]
            /\ balance' = IF ledger[0] = 0 THEN balance - period[0].rate ELSE balance
            /\ SweepTo("cover")
    /\ UNCHANGED <<now, rowVars, period, locked, pass, burnt, ran, boundVars>>

SweepCovers ==
    /\ sweep = "cover"
    /\ MarkPaid(0)
    /\ IF MarkablePaid(0) \/ Marked(0) THEN SweepTo("check") ELSE SweepEnds
    /\ UNCHANGED <<now, remote, ledger, balance, locked, pass, burnt, ran, boundVars>>

(* The row is read again; an hour that is already over activates nothing. *)
SweepChecks ==
    /\ sweep = "check"
    /\ IF Funded(row) /\ row.state = "provisioning" THEN SweepTo("start") ELSE SweepEnds
    /\ UNCHANGED <<now, rowVars, moneyVars, locked, pass, burnt, ran, boundVars>>

(* The repair is saved over whatever the row has become. *)
SweepSaves ==
    /\ sweep \in {"start", "stop"}
    /\ row' = [row EXCEPT !.state = IF sweep = "start" THEN "running" ELSE "stopped"]
    /\ SweepEnds
    /\ UNCHANGED <<now, remote, moneyVars, locked, pass, burnt, ran, boundVars>>

SweepStep ==
    SweepCaptures \/ SweepCovers \/ SweepChecks \/ SweepSaves

-----------------------------------------------------------------------------
(* The pass, first part: repair and renew, under the advisory lock. *)

At(p, place) == pass[p].at = place
Rec(p) == pass[p].rec
Goto(p, place) == pass' = [pass EXCEPT ![p].at = place]

(* Fault: only the hours of a server that still runs are repaired. *)
ChargedPendingOfRunning ==
    {s \in Starts \ {0} : row.state = "running" /\ ledger[s] # 0 /\ period[s].status = "pending"}
(* Hours whose debit is committed and whose coverage is not. *)
ChargedPending == {s \in Starts \ {0} : ledger[s] # 0 /\ period[s].status = "pending"}

(***************************************************************************)
(* The renewal tries the lock and does not wait.  Usage accrual runs every *)
(* minute too and takes the same key, so the lock may be gone: then the    *)
(* report is empty.                                                        *)
(***************************************************************************)
Begin(p) ==
    /\ pass[p] = Idle
    /\ \E won \in BOOLEAN :
           /\ won => locked = Nobody
           /\ ~won /\ locked = Nobody => MoreTrouble
           /\ lost' = IF ~won /\ locked = Nobody THEN lost + 1 ELSE lost
           /\ locked' = IF won THEN p ELSE locked
           /\ pass' = [pass EXCEPT ![p] =
                  [at |-> CASE ~won -> "survey"
                            [] won /\ ChargedPending = {} -> "list"
                            [] won /\ ChargedPending # {} -> "repair",
                   moment |-> IF won THEN now ELSE 0, rec |-> NoRow, zero |-> Never,
                   unpaid |-> FALSE, verdict |-> "none", late |-> FALSE]]
    /\ ran' = TRUE
    /\ UNCHANGED <<now, rowVars, moneyVars, sweep, burnt, rich, faults, flips>>

Repair(p) ==
    /\ At(p, "repair")
    /\ \E s \in ChargedPending : MarkPaid(s)
    /\ Goto(p, "list")
    /\ UNCHANGED <<now, remote, ledger, balance, locked, sweep, burnt, ran, boundVars>>

(* The renewal is over, and the lock with it. *)
Renewed(p, unpaid) ==
    /\ pass' = [pass EXCEPT ![p].at = "survey", ![p].unpaid = unpaid,
                            ![p].moment = 0, ![p].rec = NoRow]
    /\ locked' = Nobody
(* Fault: an error asks for a stop while the paid hour still runs. *)
FailedAtOnce(p) == Renewed(p, TRUE)
(* An error asks for a stop only when the paid hour is over. *)
Failed(p) == Renewed(p, pass[p].moment >= Rec(p).paid)

Due(rec, moment) == rec.state = "running" /\ moment >= rec.paid - Window

List(p) ==
    LET moment == pass[p].moment
    IN  /\ At(p, "list")
        /\ \/ /\ ~Due(row, moment)
              /\ Renewed(p, FALSE)
           \/ /\ Due(row, moment)
              /\ IF row.paid = Never \/ moment >= row.paid + Hour
                 THEN Renewed(p, TRUE)
                 ELSE /\ pass' = [pass EXCEPT ![p].at = "bind", ![p].rec = row]
                      /\ UNCHANGED locked
        /\ UNCHANGED <<now, rowVars, moneyVars, sweep, burnt, ran, boundVars>>

(* The committed binding wins over a fresh quote. *)
Bound(s, rate) == IF period[s] = Unbound THEN TRUE ELSE rate = period[s].rate

Bind(p) ==
    LET s == Rec(p).paid
    IN  /\ At(p, "bind")
        /\ \/ /\ \E rate \in Rates :
                     /\ Bound(s, rate)
                     /\ period' = [period EXCEPT ![s].rate = rate,
                            ![s].status = IF period[s] = Unbound THEN "pending" ELSE @]
              /\ Goto(p, "charge") /\ UNCHANGED <<locked, faults>>
           \/ /\ period[s] = Unbound /\ MoreTrouble       \* no fresh quote
              /\ faults' = faults + 1
              /\ Failed(p) /\ UNCHANGED period
        /\ UNCHANGED <<now, rowVars, ledger, balance, sweep, burnt, ran, rich, lost, flips>>

(* Fault: the debit does not look at the balance. *)
ChargeableOnCredit(s) == row.state = "running"
(* Fault: the eligibility of the server is not looked at again. *)
ChargeableUnfenced(s) == balance >= period[s].rate
(* adjust: a new debit needs the server running and the money. *)
Chargeable(s) == row.state = "running" /\ balance >= period[s].rate

Replayed(s) == ledger[s] # 0

Charge(p) ==
    LET s == Rec(p).paid
    IN  /\ At(p, "charge")
        /\ \/ /\ Replayed(s)
              /\ Goto(p, "mark") /\ UNCHANGED <<ledger, balance, locked>>
           \/ /\ ~Replayed(s) /\ Chargeable(s)
              /\ ledger' = [ledger EXCEPT ![s] = period[s].rate]
              /\ balance' = balance - period[s].rate
              /\ Goto(p, "mark") /\ UNCHANGED locked
           \/ /\ ~Replayed(s) /\ ~Chargeable(s)
              /\ Failed(p) /\ UNCHANGED <<ledger, balance>>
        /\ UNCHANGED <<now, rowVars, period, sweep, burnt, ran, boundVars>>

Mark(p) ==
    LET s == Rec(p).paid
    IN  /\ At(p, "mark")
        /\ MarkPaid(s)
        /\ IF MarkablePaid(s) \/ Marked(s) THEN Renewed(p, FALSE) ELSE Failed(p)
        /\ UNCHANGED <<now, remote, ledger, balance, sweep, burnt, ran, boundVars>>

-----------------------------------------------------------------------------
(* The pass, second part: the balance policy. *)

(* Fault: a top-up leaves the watermark. *)
ZeroSinceKept(rec) == IF balance = 0 /\ rec.zero = Never THEN now ELSE rec.zero
(* The watermark of the zero episode; money on the wallet clears it. *)
ZeroSince(rec) ==
    CASE balance > 0 -> Never
      [] balance = 0 -> IF rec.zero = Never THEN now ELSE rec.zero

(* The errands the pass still has: a stop for the unpaid hour, a verdict. *)
Errands(p, unpaid, verdict) ==
    IF unpaid \/ verdict # "none"
    THEN [pass[p] EXCEPT !.at = "enforce", !.unpaid = unpaid, !.verdict = verdict,
                         !.rec = NoRow, !.zero = Never]
    ELSE Idle

Survey(p) ==
    LET zero == ZeroSince(row)
        verdict == CASE balance > 0 -> "none"
                     [] balance = 0 /\ now - zero >= Patience -> "delete"
                     [] balance = 0 /\ now - zero < Patience -> "stop"
    IN  /\ At(p, "survey")
        /\ pass' = [pass EXCEPT ![p] =
               CASE row.state \notin Alive -> Errands(p, @.unpaid, "none")
                 [] row.state \in Alive /\ zero = row.zero -> Errands(p, @.unpaid, verdict)
                 [] row.state \in Alive /\ zero # row.zero ->
                        [@ EXCEPT !.at = "note", !.rec = row, !.zero = zero, !.verdict = verdict]]
        /\ rich' = IF balance > 0 /\ row.state \in Alive /\ zero = row.zero THEN now ELSE rich
        /\ UNCHANGED <<now, rowVars, moneyVars, locked, sweep, burnt, ran, lost, faults, flips>>

(* The markers are compared and set; a loser has no decision. *)
Note(p) ==
    /\ At(p, "note")
    /\ LET kept == row.state \in Alive /\ row.zero = Rec(p).zero
       IN  /\ row' = IF kept THEN [row EXCEPT !.zero = pass[p].zero] ELSE row
           /\ rich' = IF kept /\ pass[p].verdict = "none" THEN now ELSE rich
           /\ pass' = [pass EXCEPT ![p] =
                  Errands(p, @.unpaid, IF kept THEN @.verdict ELSE "none")]
    /\ UNCHANGED <<now, remote, moneyVars, locked, sweep, burnt, ran, lost, faults, flips>>

-----------------------------------------------------------------------------
(* The pass, third part: enforce_unpaid, then enforce. *)

Errand(p) == IF pass[p].unpaid THEN "unpaid" ELSE "zero"
(* The errand is over, whatever came of it: the other one, or the end. *)
ErrandOver(p) ==
    pass' = [pass EXCEPT ![p] = IF @.unpaid THEN Errands(p, FALSE, @.verdict) ELSE Idle]

Look(p) ==
    /\ At(p, "enforce")
    /\ IF /\ pass[p].unpaid \/ (row.zero # Never /\ balance = 0)
          /\ row.state \in Alive
       THEN pass' = [pass EXCEPT ![p].at = "probe", ![p].rec = row]
       ELSE ErrandOver(p)
    /\ UNCHANGED <<now, rowVars, moneyVars, locked, sweep, burnt, ran, boundVars>>

Expired(rec) == rec.zero # Never /\ now - rec.zero >= Patience

(***************************************************************************)
(* The provider's answer decides: a machine that runs is stopped, unless   *)
(* the row says it is; one that is stopped is recorded, and deleted when   *)
(* the zero episode is a day old.                                          *)
(***************************************************************************)
Probe(p) ==
    /\ At(p, "probe")
    /\ IF remote = "stopped"
       THEN /\ row' = IF Rec(p).state = "running" THEN [row EXCEPT !.state = "stopped"] ELSE row
            /\ IF ~pass[p].unpaid /\ Expired(Rec(p)) THEN Goto(p, "confirm") ELSE ErrandOver(p)
       ELSE /\ IF remote = "running" /\ Rec(p).state = "running"
               THEN Goto(p, "off") ELSE ErrandOver(p)
            /\ UNCHANGED row
    /\ UNCHANGED <<now, remote, moneyVars, locked, sweep, burnt, ran, boundVars>>

Key(p) == IF pass[p].unpaid THEN <<"unpaid", Rec(p).paid>> ELSE <<"zero", Rec(p).zero>>

(***************************************************************************)
(* power_off: a key that was used is replayed without a call.  A first     *)
(* call stops the machine and the row, or it fails or its answer is lost   *)
(* and the key is spent all the same.                                      *)
(***************************************************************************)
PowerOff(p) ==
    /\ At(p, "off")
    /\ \/ /\ Key(p) \in burnt \/ row.state # "running"
          /\ UNCHANGED <<rowVars, burnt, faults>>
       \/ /\ Key(p) \notin burnt /\ row.state = "running"
          /\ burnt' = burnt \union {Key(p)}
          /\ \/ /\ row' = [row EXCEPT !.state = "stopped"]
                /\ remote' = "stopped"
                /\ UNCHANGED faults
             \/ /\ MoreTrouble
                /\ faults' = faults + 1
                /\ remote' \in {remote, "stopped"}
                /\ UNCHANGED row
    /\ ErrandOver(p)
    /\ UNCHANGED <<now, moneyVars, locked, sweep, ran, rich, lost, flips>>

StillZero(rec) == row.zero = rec.zero /\ row.state = "stopped" /\ balance = 0

Confirm(p) ==
    /\ At(p, "confirm")
    /\ IF StillZero(Rec(p)) THEN Goto(p, "delete") ELSE ErrandOver(p)
    /\ UNCHANGED <<now, rowVars, moneyVars, locked, sweep, burnt, ran, boundVars>>

Delete(p) ==
    /\ At(p, "delete")
    /\ row' = [row EXCEPT !.state = "deleting"]
    /\ ErrandOver(p)
    /\ UNCHANGED <<now, remote, moneyVars, locked, sweep, burnt, ran, boundVars>>

PassStep(p) ==
    \/ Repair(p) \/ List(p) \/ Bind(p) \/ Charge(p) \/ Mark(p) \/ Survey(p) \/ Note(p)
    \/ Look(p) \/ Probe(p) \/ PowerOff(p) \/ Confirm(p) \/ Delete(p)

-----------------------------------------------------------------------------
(* The customer, the machine, the clock, failures. *)

TopUp ==
    /\ balance < MaxBalance /\ balance' = balance + 1
    /\ UNCHANGED <<now, rowVars, period, ledger, locked, pass, sweep, burnt, ran, boundVars>>

Spend ==
    /\ balance > 0 /\ balance' = balance - 1
    /\ UNCHANGED <<now, rowVars, period, ledger, locked, pass, sweep, burnt, ran, boundVars>>

(* The customer's own power commands; starting needs paid coverage. *)
PowerOn ==
    /\ row.state = "stopped" /\ Funded(row)
    /\ row' = [row EXCEPT !.state = "running"]
    /\ remote' = "running"
    /\ UNCHANGED <<now, moneyVars, locked, pass, sweep, burnt, ran, boundVars>>

SwitchOff ==
    /\ row.state = "running"
    /\ row' = [row EXCEPT !.state = "stopped"]
    /\ remote' = "stopped"
    /\ UNCHANGED <<now, moneyVars, locked, pass, sweep, burnt, ran, boundVars>>

AskDeletion ==
    /\ row.state \in Alive
    /\ row' = [row EXCEPT !.state = "deleting"]
    /\ UNCHANGED <<now, remote, moneyVars, locked, pass, sweep, burnt, ran, boundVars>>

(* The machine comes up; later it may stop or boot out of band. *)
Build ==
    /\ remote = "building" /\ remote' = "running"
    /\ UNCHANGED <<now, row, moneyVars, locked, pass, sweep, burnt, ran, boundVars>>

Flip ==
    /\ row.state \in Alive /\ MoreTrouble
    /\ flips' = flips + 1
    /\ remote' = IF remote = "running" THEN "stopped" ELSE "running"
    /\ UNCHANGED <<now, row, moneyVars, locked, pass, sweep, burnt, ran, rich, lost, faults>>

(* A pass lives at most two minutes, and every minute one starts; the calls *)
(* of the reconciler take no time at that scale.                            *)
Tick ==
    /\ now < Horizon
    /\ ran /\ sweep = "idle"
    /\ \A p \in Passes : pass[p] # Idle => ~pass[p].late
    /\ now' = now + 1
    /\ ran' = FALSE
    /\ pass' = [p \in Passes |-> IF pass[p] = Idle THEN Idle ELSE [pass[p] EXCEPT !.late = TRUE]]
    /\ UNCHANGED <<rowVars, moneyVars, locked, sweep, burnt, boundVars>>

(* The session of a dead pass closes, and gives the lock back. *)
Crash(p) ==
    /\ pass[p] # Idle /\ MoreTrouble
    /\ lost' = lost + 1
    /\ pass' = [pass EXCEPT ![p] = Idle]
    /\ locked' = IF locked = p THEN Nobody ELSE locked
    /\ UNCHANGED <<now, rowVars, moneyVars, sweep, burnt, ran, rich, faults, flips>>

-----------------------------------------------------------------------------
Next ==
    \/ SweepLooks \/ SweepStep
    \/ \E p \in Passes : Begin(p) \/ PassStep(p) \/ Crash(p)
    \/ TopUp \/ Spend \/ PowerOn \/ SwitchOff \/ AskDeletion
    \/ Build \/ Flip \/ Tick

Spec == Init /\ [][Next]_vars

(***************************************************************************)
(* The worker starts a pass every minute, both jobs finish what they       *)
(* started, and time passes.  Nothing is assumed of the customer or the    *)
(* provider.                                                               *)
(***************************************************************************)
FairSpec ==
    /\ Spec
    /\ \A p \in Passes : WF_vars(Begin(p)) /\ WF_vars(PassStep(p))
    /\ WF_vars(SweepStep) /\ WF_vars(Tick)

-----------------------------------------------------------------------------
(* Properties *)

(***************************************************************************)
(* Coverage and money agree hour by hour: every hour before paid_until was *)
(* debited, once, the amount it was bound to; and no more than the one     *)
(* hour that follows is ever debited, whoever dies between the debit and   *)
(* the coverage.                                                           *)
(***************************************************************************)
CoveredIsPaid ==
    \A s \in Starts :
        /\ s < row.paid => period[s].status = "paid" /\ ledger[s] # 0
        /\ ledger[s] # 0 => ledger[s] = period[s].rate /\ (s <= row.paid \/ s = 0)

(***************************************************************************)
(* A future hour is bought only for a server that runs now, right after    *)
(* what it has, at most one window early and never once it is over, and    *)
(* exactly its amount leaves the wallet.                                   *)
(***************************************************************************)
ChargedInTime ==
    [][\A s \in Starts \ {0} : ledger'[s] # ledger[s] =>
          /\ row.state = "running" /\ row.paid = s
          /\ s - Window <= now /\ now <= s + Hour
          /\ ledger[s] = 0 /\ balance' = balance - ledger'[s]]_vars

(***************************************************************************)
(* "If a debit commits but its paid-coverage update fails, the worker      *)
(* repairs that exact pending receipt even after the server stops"         *)
(* (SELLING_RUNBOOK.md:391).                                               *)
(***************************************************************************)
DebitIsCovered == \A s \in Starts \ {0} : ledger[s] # 0 ~> row.paid > s

(***************************************************************************)
(* A customer whose wallet covers each hour when it falls due is never     *)
(* switched off as unpaid, although a pass is lost or dies half-way.       *)
(***************************************************************************)
FundedKeepsRunning ==
    [](/\ faults = 0
       /\ \A p \in Passes : At(p, "charge") => balance >= period[Rec(p).paid].rate)
        => [](burnt \intersect ({"unpaid"} \X Times) = {})

(***************************************************************************)
(* A server is deleted for an empty wallet only a full grace after the     *)
(* policy last found money in it: a top-up the policy has noted starts the *)
(* grace anew, also when the wallet is empty again by the next pass.  This *)
(* is about passes that follow one another: of two that overlap, one may   *)
(* note money after the other has confirmed that there is none.            *)
(***************************************************************************)
GraceRespected ==
    [][\A p \in Passes : At(p, "delete") /\ row'.state = "deleting" /\ row.state # "deleting"
          /\ pass'[p] # pass[p] => now - rich >= Patience]_vars

(***************************************************************************)
(* "an unpaid server must be stopped after its paid coverage expires"      *)
(* (SELLING_RUNBOOK.md:381).                                               *)
(***************************************************************************)
UnpaidRuns == row.state = "running" /\ row.paid <= now
UnpaidIsStopped == UnpaidRuns ~> ~UnpaidRuns

(***************************************************************************)
(* "Deletion that wins the race prevents a new charge"                     *)
(* (SELLING_RUNBOOK.md:389): once the row is in deletion, no hour is       *)
(* bought any more.                                                        *)
(***************************************************************************)
DeletionEndsCharges ==
    \A s \in Starts \ {0} :
        [](row.state = "deleting" /\ ledger[s] = 0 => [](ledger[s] = 0))
=============================================================================

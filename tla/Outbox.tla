------------------------------- MODULE Outbox -------------------------------
(***************************************************************************)
(* The business-log outbox: events are enqueued once by key, and passes of *)
(* the delivery job claim a batch of due rows, send them one by one to     *)
(* Telegram and write each outcome back.                                   *)
(*                                                                         *)
(* modules/businesslog/repository.py and domain.py.  A claim is one        *)
(* transaction; every send and every mark is a step of its own, and the    *)
(* worker may kill the pass between any two of them: then the rows it      *)
(* still holds stay SENDING until their claim is stale.  The marks look at *)
(* nothing but the key.                                                    *)
(*                                                                         *)
(* Time is relative: how long a row still waits, how old its claim is, how *)
(* long a pass has run.  So no horizon cuts the liveness properties.       *)
(***************************************************************************)
EXTENDS Integers, Sequences, FiniteSets

CONSTANTS
    NumEvents,     \* how many events are ever emitted
    MaxAttempts,   \* max_attempts of the policy
    BatchSize,     \* batch_size of the policy
    Backoff,       \* backoff_base_seconds, in ticks
    Stale,         \* stale_claim_seconds, in ticks
    JobLimit,      \* job_timeout of the worker, in ticks
    Passes,        \* runs of the job that may overlap
    MaxKills,      \* bound: how many passes die
    MaxFaults      \* bound: how many sends go wrong

Events == 1..NumEvents      \* numbered by created_at

ASSUME PolicyAssumption ==
    /\ {NumEvents, MaxAttempts, BatchSize, Stale, JobLimit} \subseteq Nat \ {0}
    /\ {Backoff, MaxKills, MaxFaults} \subseteq Nat

(* 300 s against 120 s: a claim outlives the job that made it. *)
ASSUME ClaimAssumption == JobLimit < Stale

VARIABLES
    status,     \* business_log_events.status, "none" before the insert
    attempts,   \* how often the row was claimed
    wait,       \* ticks until next_attempt_at
    age,        \* ticks since claimed_at, up to Stale
    pass,       \* what each running pass still has in hand
    delivered,  \* how many copies of the event Telegram delivered
    kills, faults

vars == <<status, attempts, wait, age, pass, delivered, kills, faults>>

-----------------------------------------------------------------------------
Idle == [at |-> "idle"]
Claimed == [event : Events, tries : 1..(MaxAttempts + MaxKills + 1)]
Running == [at : {"send", "sent", "failed"}, rest : Seq(Claimed), spent : 0..JobLimit]

MaxWait == Backoff * 2^(MaxAttempts - 1)

TypeOK ==
    /\ status \in [Events -> {"none", "pending", "sending", "retry", "sent", "abandoned"}]
    /\ attempts \in [Events -> 0..(MaxAttempts + MaxKills + 1)]
    /\ wait \in [Events -> 0..MaxWait]
    /\ age \in [Events -> 0..Stale]
    /\ pass \in [Passes -> Running \union {Idle}]
    /\ \A d \in Passes : pass[d] # Idle => Len(pass[d].rest) \in 1..BatchSize
    /\ delivered \in [Events -> Nat]
    /\ kills \in 0..MaxKills
    /\ faults \in 0..MaxFaults

Init ==
    /\ status = [e \in Events |-> "none"]
    /\ attempts = [e \in Events |-> 0]
    /\ wait = [e \in Events |-> 0]
    /\ age = [e \in Events |-> 0]
    /\ pass = [d \in Passes |-> Idle]
    /\ delivered = [e \in Events |-> 0]
    /\ kills = 0
    /\ faults = 0

-----------------------------------------------------------------------------
(* Emission: a second insert of the key hits the unique index. *)
Enqueue(e) ==
    /\ status[e] = "none"
    /\ status' = [status EXCEPT ![e] = "pending"]
    /\ UNCHANGED <<attempts, wait, age, pass, delivered, kills, faults>>

-----------------------------------------------------------------------------
(* The claim. *)

(* Fault: a claim is stale as soon as somebody else looks. *)
ClaimableAtOnce(e) ==
    \/ status[e] \in {"pending", "retry"} /\ wait[e] = 0
    \/ status[e] = "sending"
(* Fault: the claim of a dead pass is never taken over. *)
ClaimableNotStale(e) == status[e] \in {"pending", "retry"} /\ wait[e] = 0
(* Due rows, and rows whose claim is stale. *)
Claimable(e) ==
    \/ status[e] \in {"pending", "retry"} /\ wait[e] = 0
    \/ status[e] = "sending" /\ age[e] = Stale

(* The oldest claimable rows, as many as the batch holds, in order. *)
Candidates ==
    {e \in Events : Claimable(e) /\ Cardinality({f \in 1..(e - 1) : Claimable(f)}) < BatchSize}

(* Fault: an attempt is counted when it fails, not when it is claimed. *)
CountedLate(e) == attempts[e]
(* The attempt counter of the row after a claim. *)
Counted(e) == attempts[e] + 1

InOrder(S) ==
    CHOOSE s \in [1..Cardinality(S) -> S] : \A i, j \in DOMAIN s : i < j => s[i] < s[j]

Claim(d) ==
    /\ pass[d] = Idle
    /\ Candidates # {}
    /\ status' = [e \in Events |-> IF e \in Candidates THEN "sending" ELSE status[e]]
    /\ attempts' = [e \in Events |-> IF e \in Candidates THEN Counted(e) ELSE attempts[e]]
    /\ age' = [e \in Events |-> IF e \in Candidates THEN 0 ELSE age[e]]
    /\ pass' = [pass EXCEPT ![d] =
           [at |-> "send", spent |-> 0,
            rest |-> [i \in 1..Cardinality(Candidates) |->
                         LET e == InOrder(Candidates)[i]
                         IN  [event |-> e, tries |-> Counted(e)]]]]
    /\ UNCHANGED <<wait, delivered, kills, faults>>

-----------------------------------------------------------------------------
(* Delivery of the batch, row by row. *)

At(d, place) == pass[d].at = place
Row(d) == Head(pass[d].rest)
Goto(d, place) == pass' = [pass EXCEPT ![d].at = place]
NextRow(d) ==
    LET rest == pass[d].rest
    IN  pass' = [pass EXCEPT ![d] =
            IF Len(rest) = 1 THEN Idle ELSE [pass[d] EXCEPT !.at = "send", !.rest = Tail(rest)]]

(* Fault: the cap is tested with the wrong comparison. *)
ExhaustedNever(row) == FALSE
(* Fault: the last attempt the policy grants is not made. *)
ExhaustedEarly(row) == row.tries >= MaxAttempts
(* The row was claimed more often than the policy allows to send. *)
Exhausted(row) == row.tries > MaxAttempts

Abandon(d) ==
    /\ At(d, "send") /\ Exhausted(Row(d))
    /\ status' = [status EXCEPT ![Row(d).event] = "abandoned"]
    /\ NextRow(d)
    /\ UNCHANGED <<attempts, wait, age, delivered, kills, faults>>

Deliver(e) == delivered' = [delivered EXCEPT ![e] = @ + 1]

Send(d) ==
    /\ At(d, "send") /\ ~Exhausted(Row(d))
    /\ Deliver(Row(d).event)
    /\ Goto(d, "sent")
    /\ UNCHANGED <<status, attempts, wait, age, kills, faults>>

(* Telegram refuses, or delivers the message and the answer is lost. *)
SendFails(d) ==
    /\ At(d, "send") /\ ~Exhausted(Row(d))
    /\ faults < MaxFaults
    /\ faults' = faults + 1
    /\ Deliver(Row(d).event) \/ UNCHANGED delivered
    /\ Goto(d, "failed")
    /\ UNCHANGED <<status, attempts, wait, age, kills>>

MarkSent(d) ==
    /\ At(d, "sent")
    /\ status' = [status EXCEPT ![Row(d).event] = "sent"]
    /\ NextRow(d)
    /\ UNCHANGED <<attempts, wait, age, delivered, kills, faults>>

(* The backoff counts from the start of the pass, not from the failure. *)
RetryIn(d) ==
    LET left == Backoff * 2^(Row(d).tries - 1) - pass[d].spent
    IN  IF left > 0 THEN left ELSE 0

MarkRetry(d) ==
    /\ At(d, "failed")
    /\ status' = [status EXCEPT ![Row(d).event] = "retry"]
    /\ wait' = [wait EXCEPT ![Row(d).event] = RetryIn(d)]
    /\ NextRow(d)
    /\ UNCHANGED <<attempts, age, delivered, kills, faults>>

-----------------------------------------------------------------------------
(* A restart, a database error, or the job's time limit ends a pass. *)
Kill(d) ==
    /\ pass[d] # Idle
    /\ kills < MaxKills
    /\ kills' = kills + 1
    /\ pass' = [pass EXCEPT ![d] = Idle]
    /\ UNCHANGED <<status, attempts, wait, age, delivered, faults>>

(* Time passes, but a pass is not alive beyond the job's limit. *)
Tick ==
    /\ \A d \in Passes : pass[d] # Idle => pass[d].spent < JobLimit
    /\ wait' = [e \in Events |-> IF wait[e] > 0 THEN wait[e] - 1 ELSE 0]
    /\ age' = [e \in Events |->
           IF status[e] = "sending" /\ age[e] < Stale THEN age[e] + 1 ELSE age[e]]
    /\ pass' = [d \in Passes |->
           IF pass[d] = Idle THEN Idle ELSE [pass[d] EXCEPT !.spent = @ + 1]]
    /\ UNCHANGED <<status, attempts, delivered, kills, faults>>

-----------------------------------------------------------------------------
Work(d) == Abandon(d) \/ Send(d) \/ SendFails(d) \/ MarkSent(d) \/ MarkRetry(d)

Next ==
    \/ \E e \in Events : Enqueue(e)
    \/ \E d \in Passes : Claim(d) \/ Work(d) \/ Kill(d)
    \/ Tick

Spec == Init /\ [][Next]_vars

(***************************************************************************)
(* The job runs every minute, a pass that started goes on, time passes.    *)
(***************************************************************************)
FairSpec ==
    /\ Spec
    /\ \A d \in Passes : WF_vars(Claim(d)) /\ WF_vars(Work(d))
    /\ WF_vars(Tick)

-----------------------------------------------------------------------------
(* Properties *)

Holding(e) ==
    {d \in Passes : pass[d] # Idle /\ \E i \in DOMAIN pass[d].rest : pass[d].rest[i].event = e}

(***************************************************************************)
(* "Two workers cannot both deliver the same event": a row is in the hands *)
(* of at most one living pass, which holds its latest claim, although a    *)
(* claim that got stale is handed out again.                               *)
(***************************************************************************)
OneHolder ==
    \A e \in Events :
        /\ Cardinality(Holding(e)) <= 1
        /\ Holding(e) # {} => status[e] = "sending" /\ age[e] < Stale

(***************************************************************************)
(* Duplicates have a cause and a cap: a message goes out once more only    *)
(* for a pass that died or a send whose answer was lost, and never more    *)
(* often than max_attempts.                                                *)
(***************************************************************************)
BoundedCopies ==
    \A e \in Events :
        /\ delivered[e] <= 1 + kills + faults
        /\ delivered[e] <= MaxAttempts
        /\ status[e] = "sent" => delivered[e] >= 1

(***************************************************************************)
(* No event is left behind, in whatever order batches, deaths and failures *)
(* come: it is sent or given up after max_attempts claims.                 *)
(***************************************************************************)
EveryEventEnds ==
    \A e \in Events : status[e] = "pending" ~> status[e] \in {"sent", "abandoned"}

(***************************************************************************)
(* An event is given up only for cause: every claim it was granted was     *)
(* lost to a death or a failed send, so with fewer of those than attempts  *)
(* nothing is abandoned.                                                   *)
(***************************************************************************)
AbandonedForCause ==
    \A e \in Events : status[e] = "abandoned" => kills + faults >= MaxAttempts
=============================================================================

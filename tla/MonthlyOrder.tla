---------------------------- MODULE MonthlyOrder ----------------------------
(***************************************************************************)
(* One monthly server bought through a provider's ordering API, from the   *)
(* checked-out intent to an active, enrolled server: modules/orders.       *)
(*                                                                         *)
(* Three processes work on the same three rows (the order, its operation   *)
(* in the ledger, the server) with no lock across them:                    *)
(*   worker      OrderWorker.process_pending, the queue job that POSTs     *)
(*   reconciler  OrderReconciler.reconcile, then OrderRecoveryService      *)
(*   operator    OrderManualResolutionService, the CLI's `orders` commands *)
(* Each repository save is one transaction, hence one step.  orders.save   *)
(* and servers.save write the WHOLE row from the object the process read   *)
(* earlier; operations.save is fenced by the attempt number.  A process    *)
(* may die (be cancelled, meet a failing save) before any step.            *)
(*                                                                         *)
(* Each job runs alone: a pass is cancelled after 120 s, before its next   *)
(* turn.  An operation IN_FLIGHT is stale after 30 minutes, so the next    *)
(* worker pass finds it only when the pass that claimed it has died.       *)
(***************************************************************************)
EXTENDS Integers, FiniteSets

CONSTANTS
    MaxClaims,   \* bound: claims of the operation, retries included
    MaxPosts,    \* bound: orders the provider can hold for this intent
    MaxTries,    \* MAX_SETTLEMENT_ATTEMPTS
    MaxScans,    \* MAX_RECOVERY_SCANS
    MaxCrashes,  \* bound: passes that die
    Staff,       \* the processes that run
    Serial,      \* TRUE: no two of them run at the same time
    CanProve     \* TRUE: the provider can prove which order is ours (MATCHED)

Procs == {"worker", "reconciler", "operator"}

ASSUME BoundsAssumption ==
    /\ MaxClaims \in Nat \ {0} /\ MaxPosts \in Nat \ {0}
    /\ MaxTries \in Nat \ {0} /\ MaxScans \in Nat \ {0} /\ MaxCrashes \in Nat
ASSUME ModeAssumption ==
    Staff \subseteq Procs /\ Serial \in BOOLEAN /\ CanProve \in BOOLEAN

VARIABLES
    order,     \* the provider_orders row
    op,        \* the operations row
    server,    \* the servers row
    hold,      \* status of the checkout hold
    charge,    \* whether the hold's CHARGE ledger row exists
    remote,    \* the orders the provider holds for this intent
    enrolled,  \* renewal record written and server handed to the customer
    run,       \* what each process holds in memory
    crashes    \* passes that died so far

money == <<hold, charge>>
vars == <<order, op, server, hold, charge, remote, enrolled, run, crashes>>

-----------------------------------------------------------------------------
Open == {"submitted", "provisioning"}
Ambiguous == {"outcome_unknown", "needs_review"}
Statuses == Open \union Ambiguous \union {"pending_submit", "active", "failed"}

Numbers == 1..MaxPosts

Order == [status : Statuses,
          provider : 0..MaxPosts,           \* provider_order_id, 0 for none
          settlement : {"pending", "complete", "review"},
          tries : 0..MaxTries,              \* settlement_attempts
          attempts : 0..MaxScans]           \* counted up to MaxScans, no further
Operation == [status : {"pending", "in_flight", "completed", "failed", "outcome_unknown"},
              attempts : 0..MaxClaims]
Server == [state : {"requested", "provisioning", "running", "error"}, vps : BOOLEAN]

Jobs == {"submit", "poll", "scan", "retry", "existing", "absent", "vps"}
Steps == {"claim", "check", "post", "requeue", "requeued", "unknown", "unknown_op",
          "fail_op", "fail", "fail_server", "release",
          "submitted", "complete_op", "settle", "debit", "charge", "later", "review",
          "settled", "repair", "provision", "progress", "read", "decide", "park",
          "activate", "active", "enrol",
          "attach", "attach_op", "rescan", "reopen_op", "reopen", "reopen_server"}

Idle == [step |-> "done"]
(***************************************************************************)
(* A pass in the middle: the job, the step it does next, the row objects   *)
(* it read, and the provider's answer it is acting on.                     *)
(***************************************************************************)
Pass == [job : Jobs, step : Steps, order : Order, op : Operation, server : Server,
         seen : {"none", "building", "built", "cancelled"}]

TypeOK ==
    /\ order \in Order /\ op \in Operation /\ server \in Server
    /\ hold \in {"created", "captured", "released"} /\ charge \in BOOLEAN
    /\ remote \in [Numbers -> {"none", "building", "built", "cancelled"}]
    /\ enrolled \in BOOLEAN
    /\ run \in [Procs -> Pass \union {Idle}]
    /\ crashes \in 0..MaxCrashes

(***************************************************************************)
(* What checkout leaves behind: server, order and operation rows, and the  *)
(* hold, all committed before any provider call.                           *)
(***************************************************************************)
Init ==
    /\ order = [status |-> "pending_submit", provider |-> 0, settlement |-> "pending",
                tries |-> 0, attempts |-> 0]
    /\ op = [status |-> "pending", attempts |-> 0]
    /\ server = [state |-> "requested", vps |-> FALSE]
    /\ hold = "created" /\ charge = FALSE
    /\ remote = [n \in Numbers |-> "none"]
    /\ enrolled = FALSE
    /\ run = [p \in Procs |-> Idle]
    /\ crashes = 0

-----------------------------------------------------------------------------
(* Memory and rows.                                                        *)

AllIdle == \A p \in Procs : run[p] = Idle
Purchases == {n \in Numbers : remote[n] # "none"}

MayStart(p) == p \in Staff /\ run[p] = Idle /\ (Serial => AllIdle)
At(p, step) == run[p].step = step

(* p carries on with the pass r, or ends it.                               *)
Resume(p, r) == run' = [run EXCEPT ![p] = IF r.step = "done" THEN Idle ELSE r]
Goto(p, step) == Resume(p, [run[p] EXCEPT !.step = step])

Start(p, job, step) ==
    /\ MayStart(p)
    /\ Resume(p, [job |-> job, step |-> step, order |-> order, op |-> op,
                  server |-> server, seen |-> "none"])
    /\ UNCHANGED <<order, op, server, money, remote, enrolled, crashes>>

(* orders.save: every column from the object in memory, no version check.  *)
SaveOrder(p, o, step) ==
    /\ order' = o
    /\ Resume(p, [run[p] EXCEPT !.order = o, !.step = step])
    /\ UNCHANGED <<op, server, money, remote, enrolled, crashes>>

(* servers.save, the same way.                                             *)
SaveServer(p, s, step) ==
    /\ server' = s
    /\ Resume(p, [run[p] EXCEPT !.server = s, !.step = step])
    /\ UNCHANGED <<order, op, money, remote, enrolled, crashes>>

(* operations.save: refused when the row has been claimed again since.     *)
SaveOp(p, status, step) ==
    LET owns == op.attempts = run[p].op.attempts
    IN  /\ op' = IF owns THEN [run[p].op EXCEPT !.status = status] ELSE op
        /\ Goto(p, IF owns THEN step ELSE "done")
        /\ UNCHANGED <<order, server, money, remote, enrolled, crashes>>

(* A step that writes nothing.                                             *)
Think(p, step) ==
    Goto(p, step) /\ UNCHANGED <<order, op, server, money, remote, enrolled, crashes>>

Submitted(o, n) == [o EXCEPT !.provider = n, !.status =
    IF o.status \in {"pending_submit", "outcome_unknown"} THEN "submitted" ELSE o.status]
Counted(o) == [o EXCEPT !.attempts = IF @ < MaxScans THEN @ + 1 ELSE @]

-----------------------------------------------------------------------------
(* The worker: OrderWorker._process_server.                                *)

(* Fault: a stale claim is simply queued again. *)
FaultTakeReclaimed ==
    /\ server.state = "requested" /\ order.status = "pending_submit"
    /\ \/ op.status = "pending" /\ Start("worker", "submit", "claim")
       \/ op.status = "in_flight" /\ Start("worker", "submit", "requeue")
(***************************************************************************)
(* A pass lists the REQUESTED servers and reads the order and operation.   *)
(* A terminal operation is skipped for good.  An ACTIVE order is never     *)
(* found here: it has left that state, so _recover_active does not occur.    *)
(***************************************************************************)
TakeIntent ==
    /\ server.state = "requested" /\ order.status = "pending_submit"
    /\ \/ op.status = "pending" /\ Start("worker", "submit", "claim")
       \/ op.status = "in_flight" /\ Start("worker", "submit", "unknown")

Claim ==
    /\ At("worker", "claim")
    /\ op.status = "pending"
    /\ op' = [status |-> "in_flight", attempts |-> op.attempts + 1]
    /\ Resume("worker", [run["worker"] EXCEPT !.op = op', !.step = "check"])
    /\ UNCHANGED <<order, server, money, remote, enrolled, crashes>>

(* Offer, product, OS and price are read again; then the attempt instant   *)
(* is saved, before the chargeable call.                                   *)
Retryable == run["worker"].op.attempts < MaxClaims

Revalidate ==
    /\ At("worker", "check")
    /\ \/ SaveOrder("worker", run["worker"].order, "post")
       \/ Retryable /\ Think("worker", "requeue")
       \/ Think("worker", "fail_op")

(* Fault: a lost answer is taken for a request never sent. *)
FaultPlaceOrder ==
    LET n == Cardinality(Purchases) + 1
    IN  /\ At("worker", "post")
        /\ n \in Numbers /\ remote' = [remote EXCEPT ![n] = "building"]
        /\ Retryable /\ Goto("worker", "requeue")
        /\ UNCHANGED <<order, op, server, money, enrolled, crashes>>
(* The billable POST.  An accepted order is the provider's, whether or not *)
(* the answer arrives.                                                     *)
PlaceOrder ==
    LET n == Cardinality(Purchases) + 1
        Accepted == n \in Numbers /\ remote' = [remote EXCEPT ![n] = "building"]
        Reply(step) == Resume("worker", [run["worker"] EXCEPT !.step = step,
            !.order = IF step = "submitted" THEN Counted(Submitted(@, n)) ELSE @])
    IN  /\ At("worker", "post")
        /\ \/ Accepted /\ Reply("submitted")
           \/ Accepted /\ Reply("unknown")
           \/ UNCHANGED remote /\ Reply("unknown")
           \/ UNCHANGED remote /\ Retryable /\ Reply("requeue")
           \/ UNCHANGED remote /\ Reply("fail_op")
        /\ UNCHANGED <<order, op, server, money, enrolled, crashes>>

RequeueOperation == At("worker", "requeue") /\ SaveOp("worker", "pending", "requeued")
RequeueOrder ==
    At("worker", "requeued") /\ SaveOrder("worker", Counted(run["worker"].order), "done")

(* _mark_outcome_unknown: the order first, then the operation.             *)
MarkOrderUnknown ==
    /\ At("worker", "unknown")
    /\ SaveOrder("worker", Counted([run["worker"].order EXCEPT !.status = "outcome_unknown"]),
                 "unknown_op")
MarkOperationUnknown ==
    At("worker", "unknown_op") /\ SaveOp("worker", "outcome_unknown", "done")

(* _fail_permanent: operation, order, server, hold, in this order.         *)
FailOperation == At("worker", "fail_op") /\ SaveOp("worker", "failed", "fail")
FailOrder ==
    /\ At("worker", "fail")
    /\ SaveOrder("worker", [run["worker"].order EXCEPT !.status = "failed"], "fail_server")
FailServer(p) ==
    /\ At(p, "fail_server")
    /\ \/ /\ run[p].server.state \in {"requested", "provisioning"}
          /\ SaveServer(p, [run[p].server EXCEPT !.state = "error"], "release")
       \/ run[p].server.state \notin {"requested", "provisioning"} /\ Think(p, "release")
ReleaseHold(p) ==
    /\ At(p, "release")
    /\ hold' = IF hold = "created" THEN "released" ELSE hold
    /\ Goto(p, "done")
    /\ UNCHANGED <<order, op, server, charge, remote, enrolled, crashes>>

(* The provider order id is saved before any money moves.                  *)
PersistAcceptance ==
    At("worker", "submitted") /\ SaveOrder("worker", run["worker"].order, "complete_op")
CompleteOperation == At("worker", "complete_op") /\ SaveOp("worker", "completed", "settle")

Progress ==
    /\ At("worker", "progress")
    /\ \/ Think("worker", "done")
       \/ SaveOrder("worker", [run["worker"].order EXCEPT !.status = "provisioning"], "done")

-----------------------------------------------------------------------------
(* The settlement barrier: OrderSettlementService, run by all three.       *)

AfterReview(p) == IF run[p].job = "existing" THEN "done" ELSE "park"
Unless(p, job, step) == IF run[p].job = job THEN "done" ELSE step

ReadHold(p) ==
    /\ At(p, "settle")
    /\ \/ hold = "released" /\ Think(p, "review")
       \/ hold = "created" /\ Think(p, "debit")
       \/ hold = "captured" /\ Think(p, "charge")

(* HoldService.capture_hold: the wallet debit, then the ledger row.  The   *)
(* recovery scan's own capture swallows every failure.                     *)
CaptureHold(p) ==
    /\ At(p, "debit")
    /\ \/ /\ hold' = IF hold = "created" THEN "captured" ELSE hold
          /\ Goto(p, "charge")
          /\ UNCHANGED <<order, op, server, charge, remote, enrolled, crashes>>
       \/ hold = "created" /\ Think(p, Unless(p, "scan", "review"))  \* balance too low
       \/ Think(p, Unless(p, "scan", "later"))
PostCharge(p) ==
    /\ At(p, "charge")
    /\ \/ /\ charge' = TRUE
          /\ Goto(p, Unless(p, "scan", "settled"))
          /\ UNCHANGED <<order, op, server, hold, remote, enrolled, crashes>>
       \/ Think(p, Unless(p, "scan", "later"))

(* Fault: no MAX_SETTLEMENT_ATTEMPTS. *)
FaultRetryUncapped(p) ==
    /\ At(p, "later")
    /\ SaveOrder(p, [run[p].order EXCEPT !.tries = @ + 1], "done")
RetryLater(p) ==
    LET o == run[p].order
        spent == o.tries + 1 >= MaxTries
    IN  /\ At(p, "later")
        /\ SaveOrder(p, [o EXCEPT !.tries = IF spent THEN MaxTries ELSE @ + 1,
                                  !.settlement = IF spent THEN "review" ELSE @],
                     IF spent THEN AfterReview(p) ELSE "done")
ReviewSettlement(p) ==
    At(p, "review") /\ SaveOrder(p, [run[p].order EXCEPT !.settlement = "review"], AfterReview(p))
(* Fault: review starts from a blank provider order id. *)
FaultPark(p) ==
    /\ At(p, "park")
    /\ SaveOrder(p, [run[p].order EXCEPT !.status = "needs_review", !.provider = 0], "done")
(* mark_needs_review, from whatever status the object in memory has.       *)
Park(p) == At(p, "park") /\ SaveOrder(p, [run[p].order EXCEPT !.status = "needs_review"], "done")

SettleOrder(p) ==
    /\ At(p, "settled")
    /\ SaveOrder(p, [run[p].order EXCEPT !.settlement = "complete", !.tries = 0], "repair")
RepairOperation(p) ==
    /\ At(p, "repair")
    /\ op' = IF op.status \in {"in_flight", "outcome_unknown"}
             THEN [op EXCEPT !.status = "completed"] ELSE op
    /\ Goto(p, CASE run[p].job = "existing" -> "done"
                 [] run[p].job = "vps" -> "activate"
                 [] OTHER -> "provision")
    /\ UNCHANGED <<order, server, money, remote, enrolled, crashes>>

(* Settled: the server leaves the queue.                                   *)
Provision(p) ==
    LET next == IF p = "worker" THEN "progress" ELSE "decide"
    IN  /\ At(p, "provision")
        /\ \/ /\ run[p].server.state = "requested"
              /\ SaveServer(p, [run[p].server EXCEPT !.state = "provisioning"], next)
           \/ run[p].server.state # "requested" /\ Think(p, next)

-----------------------------------------------------------------------------
(* OrderActivator.activate.                                                *)

Activate(p) ==
    /\ At(p, "activate")
    /\ SaveServer(p, [vps |-> TRUE, state |-> IF run[p].server.state \in {"requested", "provisioning"}
                                              THEN "running" ELSE run[p].server.state],
                  "active")
(* mark_active raises unless the object in memory is open or active.       *)
MarkActive(p) ==
    /\ At(p, "active")
    /\ \/ /\ run[p].order.status \in Open \union {"active"}
          /\ SaveOrder(p, [run[p].order EXCEPT !.status = "active"], "enrol")
       \/ run[p].order.status \notin Open \union {"active"} /\ Think(p, "done")
Enrol(p) ==
    /\ At(p, "enrol")
    /\ enrolled' = TRUE
    /\ Goto(p, "done")
    /\ UNCHANGED <<order, op, server, money, remote, crashes>>

-----------------------------------------------------------------------------
(* The reconciler: OrderReconciler._reconcile_one, then the recovery scan. *)

TakeOpen == order.status \in Open /\ Start("reconciler", "poll", "read")

(* Fault: the settlement barrier is skipped. *)
FaultReadTicket ==
    LET r == run["reconciler"]
    IN  /\ Resume("reconciler", [r EXCEPT !.server = server, !.seen = remote[r.order.provider],
            !.step = "decide"])
        /\ UNCHANGED <<order, op, server, money, remote, enrolled, crashes>>
(* The server row, then the provider's order: transient error, not found,  *)
(* or its state.                                                           *)
ReadTicket ==
    LET r == run["reconciler"]
    IN  /\ Resume("reconciler", [r EXCEPT !.server = server, !.seen = remote[r.order.provider],
            !.step = IF r.order.settlement = "complete" THEN "decide" ELSE "settle"])
        /\ UNCHANGED <<order, op, server, money, remote, enrolled, crashes>>
PollTicket ==
    /\ At("reconciler", "read")
    /\ \/ ReadTicket
       \/ Think("reconciler", "park")
       \/ Think("reconciler", "done")

(* Built: the VPS is identified, not yet, or not in time.  Cancelled:      *)
(* _fail.  Building: keep polling, unless past the delivery estimate.      *)
Identified ==
    SaveOrder("reconciler", [run["reconciler"].order EXCEPT !.status = "provisioning"], "activate")
Decide ==
    LET r == run["reconciler"]
        Waiting(step) == SaveOrder("reconciler", [r.order EXCEPT !.status = "provisioning"], step)
    IN  /\ At("reconciler", "decide")
        /\ \/ r.seen = "built" /\ Identified
           \/ r.seen = "built" /\ (Waiting("done") \/ Think("reconciler", "park"))
           \/ r.seen = "building" /\ (Waiting("done") \/ Waiting("park"))
           \/ /\ r.seen = "cancelled"
              /\ SaveOrder("reconciler", [r.order EXCEPT !.status = "failed"], "fail_server")

TakeUnknown == order.status = "outcome_unknown" /\ Start("reconciler", "scan", "rescan")

(* Fault: no MAX_RECOVERY_SCANS. *)
FaultScan ==
    LET o == run["reconciler"].order
    IN  At("reconciler", "rescan") /\ SaveOrder("reconciler", Counted(o), "done")
(* The read-only scan: a proven match is attached, no or several matches   *)
(* go to a human, a failed scan is counted and tried again.                *)
Scan ==
    LET o == run["reconciler"].order
        counted == Counted(o)
    IN  /\ At("reconciler", "rescan")
        /\ \/ /\ CanProve
              /\ \E n \in Purchases : SaveOrder("reconciler", Submitted(o, n), "attach_op")
           \/ Think("reconciler", "park")
           \/ SaveOrder("reconciler", counted,
                        IF counted.attempts >= MaxScans THEN "park" ELSE "done")

(* _attach completes the operation it reads now, then captures.            *)
AttachRecovered ==
    /\ At("reconciler", "attach_op")
    /\ op' = IF op.status = "outcome_unknown" THEN [op EXCEPT !.status = "completed"] ELSE op
    /\ Goto("reconciler", IF hold = "created" THEN "debit" ELSE "done")
    /\ UNCHANGED <<order, server, money, remote, enrolled, crashes>>

-----------------------------------------------------------------------------
(* The operator: OrderManualResolutionService.  The operator tells the     *)
(* truth: what a command asserts about the provider was verified there.    *)

RetryFailed ==
    /\ order.status = "failed"
    /\ op.status \in {"failed", "pending"} /\ op.attempts < MaxClaims
    /\ server.state \in {"error", "requested"}
    /\ Start("operator", "retry", IF op.status = "failed" THEN "reopen_op" ELSE "reopen")

ResolveExisting ==
    /\ order.status \in Ambiguous /\ op.status = "outcome_unknown"
    /\ Purchases # {}
    /\ Start("operator", "existing", "attach")
AttachExisting ==
    /\ At("operator", "attach")
    /\ \E n \in Purchases : SaveOrder("operator",
           [run["operator"].order EXCEPT !.provider = n, !.status = "submitted"], "attach_op")
AttachOperation == At("operator", "attach_op") /\ SaveOp("operator", "completed", "settle")

ResolveNotCreated ==
    /\ order.status \in Ambiguous /\ op.status = "outcome_unknown" /\ op.attempts < MaxClaims
    /\ server.state = "requested"
    /\ Purchases = {}
    /\ Start("operator", "absent", "reopen_op")

(* Both put the intent back in the queue, row by row.                      *)
ReopenOperation == At("operator", "reopen_op") /\ SaveOp("operator", "pending", "reopen")
ReopenOrder ==
    LET r == run["operator"]
        next == IF r.job = "retry" /\ r.server.state = "error" THEN "reopen_server" ELSE "done"
    IN  /\ At("operator", "reopen")
        /\ SaveOrder("operator", [r.order EXCEPT !.status = "pending_submit"], next)
ReopenServer ==
    /\ At("operator", "reopen_server")
    /\ SaveServer("operator", [run["operator"].server EXCEPT !.state = "requested"], "done")

ResolveVps ==
    /\ order.provider # 0 /\ order.status \in Open \union {"needs_review"}
    /\ ~server.vps
    /\ remote[order.provider] = "built"
    /\ Start("operator", "vps", "settle")

-----------------------------------------------------------------------------
(* The provider builds or cancels what it accepted; a pass may die.        *)

Deliver(n) ==
    /\ remote[n] = "building"
    /\ \E s \in {"built", "cancelled"} : remote' = [remote EXCEPT ![n] = s]
    /\ UNCHANGED <<order, op, server, money, enrolled, run, crashes>>

Crash(p) ==
    /\ run[p] # Idle /\ crashes < MaxCrashes
    /\ crashes' = crashes + 1
    /\ run' = [run EXCEPT ![p] = Idle]
    /\ UNCHANGED <<order, op, server, money, remote, enrolled>>

(* What a pass does once it has started, and never by choice.              *)
Shared(p) ==
    \/ ReadHold(p) \/ CaptureHold(p) \/ PostCharge(p) \/ RetryLater(p)
    \/ ReviewSettlement(p) \/ Park(p) \/ SettleOrder(p) \/ RepairOperation(p)
    \/ Provision(p) \/ Activate(p) \/ MarkActive(p) \/ Enrol(p)
    \/ FailServer(p) \/ ReleaseHold(p)
Worker ==
    \/ Claim \/ Revalidate \/ PlaceOrder \/ RequeueOperation \/ RequeueOrder
    \/ MarkOrderUnknown \/ MarkOperationUnknown \/ FailOperation \/ FailOrder
    \/ PersistAcceptance \/ CompleteOperation \/ Progress
    \/ Shared("worker")
Reconciler == PollTicket \/ Decide \/ Scan \/ AttachRecovered \/ Shared("reconciler")
Operator ==
    \/ AttachExisting \/ AttachOperation \/ ReopenOperation \/ ReopenOrder \/ ReopenServer
    \/ Shared("operator")

Next ==
    \/ TakeIntent \/ Worker
    \/ TakeOpen \/ TakeUnknown \/ Reconciler
    \/ RetryFailed \/ ResolveExisting \/ ResolveNotCreated \/ ResolveVps \/ Operator
    \/ \E n \in Numbers : Deliver(n)
    \/ \E p \in Procs : Crash(p)

Spec == Init /\ [][Next]_vars

(***************************************************************************)
(* The jobs are scheduled for ever, a started pass goes on, the provider   *)
(* finishes an order.  Calls that may fail do not fail every time: a       *)
(* readable ticket, an identified VPS.                                     *)
(***************************************************************************)
Fairness ==
    /\ WF_vars(Worker) /\ WF_vars(Reconciler) /\ WF_vars(Operator)
    /\ SF_vars(TakeIntent) /\ SF_vars(TakeOpen) /\ SF_vars(TakeUnknown)
    /\ SF_vars(At("reconciler", "read") /\ ReadTicket)
    /\ SF_vars(At("reconciler", "decide") /\ run["reconciler"].seen = "built" /\ Identified)
    /\ \A n \in Numbers : WF_vars(Deliver(n))

FairSpec == Spec /\ Fairness

-----------------------------------------------------------------------------
(* Properties.                                                             *)

(***************************************************************************)
(* What the buyer sees of all this is an atomic purchase: one order at the *)
(* provider at most, money returned only when nothing was bought, paid     *)
(* only for something bought, delivery only of what is paid and charged.   *)
(***************************************************************************)
Abstract == INSTANCE Purchase WITH bought <- Cardinality(Purchases), money <- hold,
                                   charged <- charge, delivered <- enrolled
ImplementsPurchase == Abstract!Spec

(* An intent the provider has accepted, known here or not, never returns   *)
(* to a state the worker or `orders retry` would POST again from.          *)
PurchaseBlocksClaim == Purchases # {} => op.status \notin {"pending", "failed"}

(* The barrier: no server carries its provider id before it is paid for.   *)
AttachedIsPaid == server.vps => hold = "captured" /\ charge

(* The provider order id is persisted first and never lost or exchanged.   *)
ProviderIdKept == [][order.provider # 0 => order'.provider = order.provider]_vars

(* An order marked ACTIVE has a RUNNING server that carries its VPS.       *)
ActiveIsServed ==
    AllIdle /\ order.status = "active" => server.state = "running" /\ server.vps

(* A server that was given its VPS is enrolled for renewal and delivered.  *)
AttachedIsEnrolled == AllIdle /\ server.vps => enrolled

(* An order left for a human with no provider id can be resolved by one:   *)
(* both resolve commands ask for an operation that is OUTCOME_UNKNOWN.     *)
AmbiguousResolvable ==
    AllIdle /\ order.status \in Ambiguous /\ order.provider = 0
        => op.status = "outcome_unknown"

(* The provider is asked for a chargeable order only while the money is    *)
(* on hold.                                                                *)
PostedWhileHeld == [][Purchases' # Purchases => hold = "created"]_vars

(***************************************************************************)
(* Nothing waits for ever: an intent leaves the worker's queue, a lost     *)
(* answer gets a verdict, an accepted order is closed or given to a human, *)
(* without anyone's help and although a pass dies.  The exception is a     *)
(* refusal: its pass may die before the order row says so.                 *)
(***************************************************************************)
NothingWaitsForEver ==
    \A S \in {{"pending_submit"}, {"outcome_unknown"}, Open} :
        (order.status \in S) ~> (order.status \notin S \/ op.status = "failed")

(* A definitive refusal gives the money back.                              *)
RejectionReturnsFunds == (op.status = "failed") ~> (hold = "released")

(* An accepted order ends delivered, charged and enrolled, or FAILED or    *)
(* with a human; it is never abandoned half-way.                           *)
Finished ==
    \/ order.status = "active" /\ server.state = "running" /\ charge /\ enrolled
    \/ order.status \in {"needs_review", "failed"}
AcceptedResolves == (order.status \in Open) ~> Finished
=============================================================================

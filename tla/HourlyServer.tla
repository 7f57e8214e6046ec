---------------------------- MODULE HourlyServer ----------------------------
(***************************************************************************)
(* The life of an hourly server after its creation: billing as in          *)
(* UsageBilling, together with the state reconciler that delivers it, the  *)
(* customer's power commands, and the deletion saga.                       *)
(*                                                                         *)
(* modules/operations/service.py: ServerStateReconciler, the power         *)
(* executor, DeleteCommandService, DeleteOperationExecutor, DeleteWorker   *)
(* and DeleteTimeoutReconciler.                                            *)
(*                                                                         *)
(* They share the servers row with billing, and take no lock for it: each  *)
(* reads the row, talks to the provider and saves the whole row from its   *)
(* copy.  An executor is taken for dead before its operation is queued     *)
(* again: the worker's job timeout is far below the 15 minutes.            *)
(***************************************************************************)
EXTENDS UsageBilling

CONSTANTS
    UserKeys,      \* the idempotency keys of delete commands
    Crowd          \* bound: how many processes work on servers at a time

ASSUME CrowdAssumption == Crowd \in Nat

VARIABLES
    remote,    \* the machine at the provider
    op,        \* the delete operations of a server, by key
    exec,      \* the executor of an operation
    asking,    \* a delete command between its transactions
    sweep,     \* the state reconciler
    power      \* the executor of the customer's power command

sagaVars == <<remote, op, exec, asking, sweep, power>>
vars == <<billingVars, sagaVars>>

-----------------------------------------------------------------------------
OpKeys == UserKeys \union {"reconciled"}
Ops == Servers \X OpKeys

Exec == [at : {"gate", "deleting", "call", "probe", "mark", "final", "wait", "complete"},
         snap : Row]
Asking == [key : UserKeys, at : {"save", "create"}, snap : Row]
Sweep == [at : {"probe", "wait", "save"}, srv : Servers, snap : Row,
          to : {"running", "stopped", "review", "none"}]
Power == [at : {"wait", "call", "save"}, srv : Servers, snap : Row, to : {"running", "stopped"}]

TypeOK ==
    /\ BillingTypeOK
    /\ remote \in [Servers -> {"building", "running", "stopped", "leaving", "gone"}]
    /\ op \in [Ops -> {"none", "pending", "in_flight", "completed", "failed"}]
    /\ exec \in [Ops -> Exec \union {Idle}]
    /\ asking \in [Servers -> Asking \union {Idle}]
    /\ sweep \in Sweep \union {Idle}
    /\ power \in Power \union {Idle}

Init ==
    /\ BillingInit
    /\ remote = [s \in Servers |-> "building"]
    /\ op = [o \in Ops |-> "none"]
    /\ exec = [o \in Ops |-> Idle]
    /\ asking = [s \in Servers |-> Idle]
    /\ sweep = Idle
    /\ power = Idle

-----------------------------------------------------------------------------
(* Who holds a copy of a row; a job may work for one of the others. *)
Busy ==
    Cardinality({o \in Ops : exec[o] # Idle}) + Cardinality({s \in Servers : asking[s] # Idle})
        + (IF sweep # Idle THEN 1 ELSE 0) + (IF power # Idle THEN 1 ELSE 0)
        + (IF job # Idle /\ job.kind \in {"run", "renew"} THEN 1 ELSE 0)
Room == Busy < Crowd

-----------------------------------------------------------------------------
(* Billing; a job that works for a caller dies with it. *)

Billing ==
    /\ \/ Room /\ BeginRun
       \/ JobStep \/ Stumble \/ TopUp \/ Spend \/ Tick
       \/ \E s \in Servers : Room /\ BeginRenewal(s)
       \/ JobDies /\ job.kind \in {"run", "renew"}
    /\ UNCHANGED sagaVars

-----------------------------------------------------------------------------
(* The state reconciler: list, ask the provider, repair or contain. *)

SweepEnds == sweep' = Idle

SweepLists(s) ==
    /\ sweep = Idle /\ Room
    /\ row[s].state \in Active
    /\ sweep' = [at |-> "probe", srv |-> s, snap |-> row[s], to |-> "none"]
    /\ UNCHANGED <<billingVars, remote, op, exec, asking, power>>

(* plan_state_repair; "none" is a state that needs no change. *)
Plan(state, machine) ==
    CASE machine = "building" /\ state = "provisioning" -> "wait"
      [] machine = "running" -> IF state = "running" THEN "none" ELSE "running"
      [] machine = "stopped" /\ state = "running" -> "stopped"
      [] machine = "stopped" /\ state = "stopped" -> "wait"
      [] OTHER -> "review"

(***************************************************************************)
(* Nothing is delivered, and nothing stays delivered, without the hour:    *)
(* the plan for a running machine waits for prepay_server.  A busy lock or *)
(* a row that has left the active states ends it.                          *)
(***************************************************************************)
SweepProbes ==
    /\ sweep # Idle /\ sweep.at = "probe"
    /\ LET s == sweep.srv
           plan == Plan(sweep.snap.state, remote[s])
       IN  \/ /\ plan \in {"running", "none"}
              /\ BeginPrepay("ready", s, 0)
              /\ sweep' = [sweep EXCEPT !.at = "wait", !.to = plan]
           \/ /\ plan \in {"running", "none"} /\ ~Prepayable(s)
              /\ SweepEnds /\ UNCHANGED billingVars
           \/ /\ plan \in {"stopped", "review"}
              /\ sweep' = [sweep EXCEPT !.at = "save", !.to = plan]
              /\ UNCHANGED billingVars
           \/ /\ plan = "wait"
              /\ SweepEnds /\ UNCHANGED billingVars
    /\ UNCHANGED <<remote, op, exec, asking, power>>

(* The copy is refreshed; a row that already runs rejects the repair. *)
SweepCollects ==
    /\ sweep # Idle /\ sweep.at = "wait"
    /\ \/ /\ Collect("ready", sweep.srv, FALSE) /\ SweepEnds
       \/ /\ Collect("ready", sweep.srv, TRUE)
          /\ sweep' = IF sweep.to = "none" THEN Idle
                      ELSE [sweep EXCEPT !.at = "save", !.snap = job.snap,
                               !.to = IF job.snap.state = "running" THEN "review" ELSE "running"]
    /\ UNCHANGED <<now, row, moneyVars, trouble, remote, op, exec, asking, power>>

Contained(rec) == [rec EXCEPT !.state = "review", !.from = rec.state]

SweepSaves ==
    /\ sweep # Idle /\ sweep.at = "save"
    /\ SaveRow(sweep.srv, IF sweep.to = "review" THEN Contained(sweep.snap)
                          ELSE [sweep.snap EXCEPT !.state = sweep.to])
    /\ SweepEnds
    /\ UNCHANGED <<now, moneyVars, job, trouble, remote, op, exec, asking, power>>

SweepStep == SweepProbes \/ SweepCollects \/ SweepSaves

SweepDies ==
    /\ sweep # Idle
    /\ SweepEnds
    /\ IF sweep.at = "wait" THEN JobDies
       ELSE Stumbled /\ UNCHANGED <<now, row, moneyVars, job>>
    /\ UNCHANGED <<remote, op, exec, asking, power>>

(* The operator lets a contained server go back to where it was. *)
Release(s) ==
    /\ row[s].state = "review"
    /\ SaveRow(s, [row[s] EXCEPT !.state = row[s].from, !.from = "none"])
    /\ UNCHANGED <<now, moneyVars, job, trouble, sagaVars>>

-----------------------------------------------------------------------------
(* Power commands: starting a server needs the hour first. *)

PowerEnds == power' = Idle

PowerAsks(s, to) ==
    /\ power = Idle /\ Room
    /\ row[s].state = (IF to = "running" THEN "stopped" ELSE "running")
    /\ IF to = "running"
       THEN /\ BeginPrepay("power", s, 0)
            /\ power' = [at |-> "wait", srv |-> s, snap |-> row[s], to |-> to]
       ELSE /\ power' = [at |-> "call", srv |-> s, snap |-> row[s], to |-> to]
            /\ UNCHANGED billingVars
    /\ UNCHANGED <<remote, op, exec, asking, sweep>>

PowerCollects ==
    /\ power # Idle /\ power.at = "wait"
    /\ \/ Collect("power", power.srv, FALSE) /\ PowerEnds
       \/ /\ Collect("power", power.srv, TRUE)
          /\ power' = [power EXCEPT !.at = "call", !.snap = job.snap]
    /\ UNCHANGED <<now, row, moneyVars, trouble, remote, op, exec, asking, sweep>>

PowerCalls ==
    /\ power # Idle /\ power.at = "call"
    /\ IF remote[power.srv] \in {"running", "stopped"}
       THEN /\ remote' = [remote EXCEPT ![power.srv] = power.to]
            /\ power' = [power EXCEPT !.at = "save"]
       ELSE PowerEnds /\ UNCHANGED remote
    /\ UNCHANGED <<billingVars, op, exec, asking, sweep>>

PowerSaves ==
    /\ power # Idle /\ power.at = "save"
    /\ IF power.snap.state = (IF power.to = "running" THEN "stopped" ELSE "running")
       THEN SaveRow(power.srv, [power.snap EXCEPT !.state = power.to])
       ELSE UNCHANGED row
    /\ PowerEnds
    /\ UNCHANGED <<now, moneyVars, job, trouble, remote, op, exec, asking, sweep>>

PowerStep == PowerCollects \/ PowerCalls \/ PowerSaves

(* The command fails, or its process dies. *)
PowerDies ==
    /\ power # Idle
    /\ PowerEnds
    /\ IF power.at = "wait" THEN JobDies
       ELSE Stumbled /\ UNCHANGED <<now, row, moneyVars, job>>
    /\ UNCHANGED <<remote, op, exec, asking, sweep>>

-----------------------------------------------------------------------------
(* The delete command: the row first, then the operation. *)

Deletable == {"running", "stopped", "review"}

AskReads(s, k) ==
    /\ asking[s] = Idle /\ Room
    /\ op[<<s, k>>] = "none" /\ row[s].state \in Deletable
    /\ asking' = [asking EXCEPT ![s] = [key |-> k, at |-> "save", snap |-> row[s]]]
    /\ UNCHANGED <<billingVars, remote, op, exec, sweep, power>>

Asks(s, place) == asking[s] # Idle /\ asking[s].at = place

AskSaves(s) ==
    /\ Asks(s, "save")
    /\ SaveRow(s, [asking[s].snap EXCEPT !.state = "requested", !.from = "none"])
    /\ asking' = [asking EXCEPT ![s].at = "create"]
    /\ UNCHANGED <<now, moneyVars, job, trouble, remote, op, exec, sweep, power>>

AskCreates(s) ==
    /\ Asks(s, "create")
    /\ op' = [op EXCEPT ![<<s, asking[s].key>>] = "pending"]
    /\ asking' = [asking EXCEPT ![s] = Idle]
    /\ UNCHANGED <<billingVars, remote, exec, sweep, power>>

AskDies(s) ==
    /\ asking[s] # Idle /\ Stumbled
    /\ asking' = [asking EXCEPT ![s] = Idle]
    /\ UNCHANGED <<now, row, moneyVars, job, remote, op, exec, sweep, power>>

-----------------------------------------------------------------------------
(* The executor of a claimed operation. *)

Runs(o, place) == exec[o] # Idle /\ exec[o].at = place
Step(o, place) == exec' = [exec EXCEPT ![o].at = place]
StepToEnd(o) == exec' = [exec EXCEPT ![o] = [at |-> "complete", snap |-> Ordered]]
Leave(o) == exec' = [exec EXCEPT ![o] = Idle]
Settle(o, status) == op' = [op EXCEPT ![o] = status]

Claim(o) ==
    /\ op[o] = "pending" /\ exec[o] = Idle /\ Room
    /\ Settle(o, "in_flight")
    /\ exec' = [exec EXCEPT ![o] = [at |-> "gate", snap |-> Ordered]]
    /\ UNCHANGED <<billingVars, remote, asking, sweep, power>>

(* The row must still be in deletion. *)
GatePasses(o) == row[o[1]].state \in InDeletion

Gate(o) ==
    /\ Runs(o, "gate")
    /\ IF GatePasses(o)
       THEN /\ exec' = [exec EXCEPT ![o] =
                   [at |-> IF row[o[1]].state = "requested" THEN "deleting" ELSE "call",
                    snap |-> row[o[1]]]]
            /\ UNCHANGED op
       ELSE Leave(o) /\ Settle(o, "failed")
    /\ UNCHANGED <<billingVars, remote, asking, sweep, power>>

SaveDeleting(o) ==
    /\ Runs(o, "deleting")
    /\ LET saved == [exec[o].snap EXCEPT !.state = "deleting"]
       IN  /\ SaveRow(o[1], saved)
           /\ exec' = [exec EXCEPT ![o] = [at |-> "call", snap |-> saved]]
    /\ UNCHANGED <<now, moneyVars, job, trouble, remote, op, asking, sweep, power>>

(***************************************************************************)
(* provider.delete_server, with the key of the operation.  A lost answer   *)
(* is looked into, a retryable error queues the operation again, any other *)
(* error ends it.                                                          *)
(***************************************************************************)
CallDelete(o) ==
    /\ Runs(o, "call")
    /\ LET applied == IF remote[o[1]] = "gone" THEN "gone" ELSE "leaving"
       IN  \/ /\ remote' = [remote EXCEPT ![o[1]] = applied]
              /\ Step(o, "probe") /\ UNCHANGED <<op, trouble>>
           \/ /\ Stumbled                                     \* outcome unknown
              /\ remote' \in {remote, [remote EXCEPT ![o[1]] = applied]}
              /\ Step(o, "probe") /\ UNCHANGED op
           \/ /\ Stumbled                                     \* an error
              /\ op' \in {[op EXCEPT ![o] = "pending"], [op EXCEPT ![o] = "failed"]}
              /\ Leave(o) /\ UNCHANGED remote
    /\ UNCHANGED <<now, row, moneyVars, job, asking, sweep, power>>

(* Fault: an answered call is taken for the absence of the machine. *)
AbsentOnceAsked(o) == TRUE
Absent(o) == remote[o[1]] = "gone"

(* Absence is proved by reading; past the deadline the operation waits. *)
ProveAbsent(o) ==
    /\ Runs(o, "probe")
    /\ IF Absent(o)
       THEN /\ Step(o, IF exec[o].snap.state = "deleted" THEN "final" ELSE "mark")
            /\ UNCHANGED op
       ELSE Leave(o) /\ Settle(o, "pending")
    /\ UNCHANGED <<billingVars, remote, asking, sweep, power>>

MarkDeleted(o) ==
    /\ Runs(o, "mark")
    /\ LET saved == [exec[o].snap EXCEPT !.state = "deleted"]
       IN  /\ SaveRow(o[1], saved)
           /\ exec' = [exec EXCEPT ![o] = [at |-> "final", snap |-> saved]]
    /\ UNCHANGED <<now, moneyVars, job, trouble, remote, op, asking, sweep, power>>

(* Fault: the end of the contract forgets a hold nobody captured. *)
ReleasedNever(s) == hold
Released(s) == IF hold[s] = "created" THEN [hold EXCEPT ![s] = "released"] ELSE hold

(***************************************************************************)
(* charge_final: a hold still open is released, a captured one must have   *)
(* its ledger and accrual rows.  A busy lock, or a row without the anchor  *)
(* of its captured hold, raises: the operation stays in flight.            *)
(***************************************************************************)
Finalize(o) ==
    /\ Runs(o, "final")
    /\ CASE job # Idle -> Leave(o) /\ Stumbled /\ UNCHANGED <<hold, job>>
         [] job = Idle /\ hold[o[1]] # "captured" ->
                StepToEnd(o) /\ hold' = Released(o[1]) /\ UNCHANGED <<job, trouble>>
         [] job = Idle /\ hold[o[1]] = "captured" ->
                /\ UNCHANGED <<hold, trouble>>
                /\ IF exec[o].snap.anchor = Never
                   THEN Leave(o) /\ UNCHANGED job
                   ELSE /\ Step(o, "wait")
                        /\ job' = [Fresh("final", o[1], exec[o].snap, now)
                                      EXCEPT !.start = exec[o].snap.anchor]
    /\ UNCHANGED <<now, row, balance, posted, noted, capped, remote, op, asking, sweep, power>>

FinalCollects(o) ==
    /\ Runs(o, "wait")
    /\ \/ Collect("final", o[1], TRUE) /\ StepToEnd(o)
       \/ Collect("final", o[1], FALSE) /\ Leave(o)
    /\ UNCHANGED <<now, row, moneyVars, trouble, remote, op, asking, sweep, power>>

Complete(o) ==
    /\ Runs(o, "complete")
    /\ Settle(o, "completed") /\ Leave(o)
    /\ UNCHANGED <<billingVars, remote, asking, sweep, power>>

ExecStep(o) ==
    \/ Gate(o) \/ SaveDeleting(o) \/ CallDelete(o) \/ ProveAbsent(o) \/ MarkDeleted(o)
    \/ Finalize(o) \/ FinalCollects(o) \/ Complete(o)

ExecDies(o) ==
    /\ exec[o] # Idle
    /\ Leave(o)
    /\ IF exec[o].at = "wait" THEN JobDies
       ELSE Stumbled /\ UNCHANGED <<now, row, moneyVars, job>>
    /\ UNCHANGED <<remote, op, asking, sweep, power>>

-----------------------------------------------------------------------------
(* DeleteTimeoutReconciler *)

(* Fault: only operations whose row was not yet moved on are looked at. *)
StrandedRequested(o) == op[o] = "in_flight" /\ exec[o] = Idle /\ row[o[1]].state = "requested"
(* In flight for longer than any executor lives. *)
Stranded(o) == op[o] = "in_flight" /\ exec[o] = Idle

Requeue(o) ==
    /\ Stranded(o)
    /\ Settle(o, "pending")
    /\ UNCHANGED <<billingVars, remote, exec, asking, sweep, power>>

(* A request without an operation gets one, unless another failed. *)
Recreate(s) ==
    /\ row[s].state = "requested"
    /\ \A k \in OpKeys : op[<<s, k>>] \notin {"pending", "in_flight", "failed"}
    /\ op[<<s, "reconciled">>] = "none"
    /\ Settle(<<s, "reconciled">>, "pending")
    /\ UNCHANGED <<billingVars, remote, exec, asking, sweep, power>>

-----------------------------------------------------------------------------
(* The provider *)

Boot(s) ==
    /\ remote[s] = "building"
    /\ remote' = [remote EXCEPT ![s] = "running"]
    /\ UNCHANGED <<billingVars, op, exec, asking, sweep, power>>

Vanish(s) ==
    /\ remote[s] = "leaving"
    /\ remote' = [remote EXCEPT ![s] = "gone"]
    /\ UNCHANGED <<billingVars, op, exec, asking, sweep, power>>

-----------------------------------------------------------------------------
Next ==
    \/ Billing
    \/ SweepStep \/ SweepDies \/ PowerStep \/ PowerDies
    \/ \E s \in Servers :
           \/ SweepLists(s) \/ Release(s) \/ PowerAsks(s, "running") \/ PowerAsks(s, "stopped")
           \/ AskSaves(s) \/ AskCreates(s) \/ AskDies(s) \/ Recreate(s) \/ Boot(s) \/ Vanish(s)
    \/ \E s \in Servers, k \in UserKeys : AskReads(s, k)
    \/ \E o \in Ops : Claim(o) \/ ExecStep(o) \/ ExecDies(o) \/ Requeue(o)

Spec == Init /\ [][Next]_vars

(***************************************************************************)
(* The crons of the worker come again and again, whoever holds the lock    *)
(* goes on, and a machine that is being deleted disappears.                *)
(***************************************************************************)
FairSpec ==
    /\ Spec
    /\ WF_vars(JobStep /\ UNCHANGED sagaVars)
    /\ WF_vars(SweepStep) /\ WF_vars(PowerStep)
    /\ \A s \in Servers :
           WF_vars(AskSaves(s) \/ AskCreates(s)) /\ WF_vars(Recreate(s)) /\ WF_vars(Vanish(s))
    /\ SF_vars(\E o \in Ops : Claim(o)) /\ SF_vars(\E o \in Ops : ExecStep(o))
    /\ WF_vars(\E o \in Ops : Requeue(o))

-----------------------------------------------------------------------------
(* Properties *)

(***************************************************************************)
(* "Deletion is considered complete only after the provider confirms the   *)
(* resource no longer exists" (ARCHITECTURE.md:137), and by then the       *)
(* reservation of the first hour is spent or back: whatever the answers    *)
(* of the provider, and whoever else saves the row meanwhile.              *)
(***************************************************************************)
DeletedIsGone ==
    \A s \in Servers :
        /\ row[s].state = "deleted" => remote[s] = "gone"
        /\ \A k \in OpKeys : op[<<s, k>>] = "completed" => remote[s] = "gone" /\ hold[s] # "created"

(***************************************************************************)
(* "Phase 8 captures the first hour before delivery or power actions"      *)
(* (SELLING_RUNBOOK.md:346): whatever copy of the row is saved last, a     *)
(* server that is shown as running has bought its first hour.              *)
(***************************************************************************)
DeliveredIsPaid ==
    \A s \in Servers : row[s].state = "running" => row[s].through # Never

(***************************************************************************)
(* The delete operations of a server come to an end, completed or failed,  *)
(* although executors die, the provider's answers are lost and the billing *)
(* lock is taken: none stays "in_flight" for good.                         *)
(***************************************************************************)
Open(s) == \E k \in OpKeys : op[<<s, k>>] \in {"pending", "in_flight"}
DeletionEnds == \A s \in Servers : Open(s) ~> ~Open(s)

(***************************************************************************)
(* "Deletion posts no extra trailing hour" (SELLING_RUNBOOK.md:356).       *)
(***************************************************************************)
NoTrailingHour ==
    [][\A s \in Servers : row[s].state = "deleted" =>
          posted'[s] \ posted[s] \subseteq {Capture}]_vars
=============================================================================

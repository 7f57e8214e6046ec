------------------------- MODULE MonthlyOrderProofs -------------------------
(***************************************************************************)
(* Theorems about MonthlyOrder, for every number of claims, settlement     *)
(* attempts, scans and crashes, any staff, overlapping or not, and with or *)
(* without a provider that can prove a match.                              *)
(*                                                                         *)
(* What is promised is about rows; why a save keeps the promise lies in    *)
(* what the pass that makes it read before.  Inv therefore says, step by   *)
(* step, what a pass may still rely on while the others go on.             *)
(***************************************************************************)
EXTENDS MonthlyOrder, FiniteSetTheorems, TLAPS

Bought == Purchases # {}
Settled == hold = "captured" /\ charge

(* One order at the provider; money taken, charged and delivered for it.   *)
OneOrder == \A m, n \in Purchases : m = n
MoneyOK ==
    /\ hold = "captured" => Bought
    /\ charge => hold = "captured"
    /\ enrolled => charge

(* An order row, stored or remembered: a provider order id is that of a    *)
(* purchase, an open order has one, a complete settlement took place.      *)
OrderOK(o) ==
    /\ o.provider # 0 => o.provider \in Purchases
    /\ o.status \in Open => o.provider # 0
    /\ o.settlement = "complete" => Settled

ServerOK(s) == s.vps => Settled

OpOK(o) ==
    /\ Bought => o.status \notin {"pending", "failed"}
    /\ o.status = "pending" => o.attempts < MaxClaims

(* The steps that work on a provider order, those behind the barrier, and  *)
(* those of a refusal.                                                     *)
OnOrder == {"submitted", "complete_op", "attach_op", "settle", "debit", "charge", "settled",
            "repair", "provision", "progress", "read", "decide"}
BehindBarrier == {"settled", "repair", "provision", "progress", "decide", "activate", "active",
                  "enrol"}
Refusing == {"fail", "fail_server", "release"}

(***************************************************************************)
(* Between its claim and the answer the worker owns the operation, and     *)
(* nothing is bought; while it records a lost answer nobody fails or       *)
(* requeues the operation.  An operation the operator queues again still   *)
(* has the verdict the operator read.                                      *)
(***************************************************************************)
WorkerOwns(r) ==
    /\ r.step \in {"check", "post", "requeue", "fail_op"} =>
           op.status = "in_flight" /\ op.attempts = r.op.attempts /\ ~Bought
    /\ r.step = "requeue" => r.op.attempts < MaxClaims
    /\ r.step \in {"unknown", "unknown_op"} => op.status \in {"in_flight", "completed"}
OperatorOwns(r) ==
    r.step = "reopen_op" =>
        /\ op.status \in {"failed", "outcome_unknown"} /\ op.attempts = r.op.attempts
        /\ op.attempts < MaxClaims /\ ~Bought

(* What the pass r of p may rely on at its step. *)
Ready(p, r) ==
    /\ r.step \in OnOrder => r.order.provider # 0
    /\ r.step \in BehindBarrier => Settled
    /\ r.step = "debit" => hold # "released"
    /\ r.step = "charge" => hold = "captured"
    /\ r.step \in Refusing => hold # "created" \/ (p = "worker" /\ ~Bought)
    /\ p = "worker" => WorkerOwns(r)
    /\ p = "operator" => OperatorOwns(r)

Knows(p, r) == r.step # "done" => OrderOK(r.order) /\ ServerOK(r.server) /\ Ready(p, r)

Inv ==
    /\ TypeOK
    /\ OneOrder /\ MoneyOK /\ OpOK(op)
    /\ OrderOK(order) /\ ServerOK(server)
    /\ \A p \in Procs : Knows(p, run[p])

(* What a step does to the purchase as the buyer sees it. *)
Effect ==
    \/ UNCHANGED <<Purchases, hold, charge, enrolled>>
    \/ /\ ~Bought /\ \E n \in Numbers : Purchases' = {n}
       /\ UNCHANGED <<hold, charge, enrolled>>
    \/ ~Bought /\ hold = "created" /\ hold' = "released" /\ UNCHANGED <<Purchases, charge, enrolled>>
    \/ Bought /\ hold = "created" /\ hold' = "captured" /\ UNCHANGED <<Purchases, charge, enrolled>>
    \/ hold = "captured" /\ charge' = TRUE /\ UNCHANGED <<Purchases, hold, enrolled>>
    \/ charge /\ enrolled' = TRUE /\ UNCHANGED <<Purchases, hold, charge>>

-----------------------------------------------------------------------------
LEMMA InvInit == Init => Inv
<1> SUFFICES ASSUME Init PROVE Inv
  OBVIOUS
<1>1. Purchases = {}
  BY DEF Init, Purchases
<1>2. TypeOK
  <2>1. order \in Order /\ op \in Operation
    BY BoundsAssumption DEF Init, Order, Operation, Statuses
  <2>2. server \in Server /\ crashes \in 0..MaxCrashes
    BY BoundsAssumption DEF Init, Server
  <2>3. run \in [Procs -> Pass \cup {Idle}]
    BY DEF Init
  <2>4. remote \in [Numbers -> {"none", "building", "built", "cancelled"}]
    BY DEF Init
  <2>5. QED
    BY <2>1, <2>2, <2>3, <2>4 DEF Init, TypeOK
<1>3. \A p \in Procs : Knows(p, run[p])
  BY DEF Init, Knows, Idle
<1>4. QED
  BY <1>1, <1>2, <1>3, BoundsAssumption
  DEF Init, Inv, OneOrder, MoneyOK, OpOK, OrderOK, ServerOK, Bought, Open

(* A pass in the middle has its type. *)
LEMMA Busy ==
    ASSUME TypeOK, NEW p \in Procs, run[p].step # "done"
    PROVE  run[p] \in Pass
BY DEF TypeOK, Idle

(* Purchases are numbers, and the first one is number one. *)
LEMMA FirstPurchase ==
    ASSUME ~Bought
    PROVE  Cardinality(Purchases) + 1 = 1 /\ 1 \in Numbers
BY FS_EmptySet, BoundsAssumption DEF Bought, Numbers

-----------------------------------------------------------------------------
(* The frames: how a step moves one pass and saves at most one row.        *)

(* What resuming a pass leaves in memory. *)
LEMMA ResumeType ==
    ASSUME TypeOK, NEW p \in Procs, NEW r, r \in Pass \/ r.step = "done", Resume(p, r)
    PROVE  /\ run' \in [Procs -> Pass \cup {Idle}]
           /\ run'[p] = IF r.step = "done" THEN Idle ELSE r
           /\ \A q \in Procs \ {p} : run'[q] = run[q]
BY DEF TypeOK, Resume

(* Rows are saved, money and operation stay: the others may rely on what   *)
(* they knew.                                                              *)
LEMMA RowFrame ==
    ASSUME Inv, NEW p \in Procs, NEW r, r \in Pass \/ r.step = "done", Resume(p, r),
           order' \in Order, OrderOK(order'), server' \in Server, ServerOK(server'),
           Knows(p, r),
           UNCHANGED <<op, money, remote, enrolled, crashes>>
    PROVE  Inv' /\ Effect
<1>1. /\ run' \in [Procs -> Pass \cup {Idle}]
      /\ run'[p] = IF r.step = "done" THEN Idle ELSE r
      /\ \A q \in Procs \ {p} : run'[q] = run[q]
  BY ResumeType DEF Inv
<1>2. Purchases' = Purchases /\ Bought' = Bought /\ Settled' = Settled
  BY DEF Purchases, Bought, Settled, money
<1>3. \A q \in Procs : Knows(q, run'[q])
  BY <1>1 DEF Inv, Knows, Idle
<1>4. \A q \in Procs : Knows(q, run[q])'
  BY <1>2, <1>3 DEF Knows, OrderOK, ServerOK, Ready, WorkerOwns, OperatorOwns, money
<1>5. TypeOK'
  BY <1>1 DEF Inv, TypeOK, money
<1>6. (OneOrder /\ MoneyOK /\ OpOK(op))'
  BY <1>2 DEF Inv, OneOrder, MoneyOK, OpOK, money
<1>7. (OrderOK(order) /\ ServerOK(server))'
  BY <1>2 DEF OrderOK, ServerOK
<1>8. QED
  BY <1>2, <1>4, <1>5, <1>6, <1>7 DEF Inv, Effect, money

(* The operation row is saved: whoever owns it must still find it so.      *)
SparesOthers(p) ==
    /\ p # "worker" =>
        /\ run["worker"].step \in {"check", "post", "requeue", "fail_op"} => op' = op
        /\ run["worker"].step \in {"unknown", "unknown_op"} =>
               op' = op \/ op'.status \in {"in_flight", "completed"}
    /\ p # "operator" => (run["operator"].step = "reopen_op" => op' = op)

LEMMA OpFrame ==
    ASSUME Inv, NEW p \in Procs, NEW r, r \in Pass \/ r.step = "done", Resume(p, r),
           op' \in Operation, OpOK(op'), Knows(p, r)',
           SparesOthers(p),
           UNCHANGED <<order, server, money, remote, enrolled, crashes>>
    PROVE  Inv' /\ Effect
<1>1. /\ run' \in [Procs -> Pass \cup {Idle}]
      /\ run'[p] = IF r.step = "done" THEN Idle ELSE r
      /\ \A q \in Procs \ {p} : run'[q] = run[q]
  BY ResumeType DEF Inv
<1>2. Purchases' = Purchases /\ Bought' = Bought /\ Settled' = Settled
  BY DEF Purchases, Bought, Settled, money
<1>3. \A q \in Procs \ {p} : Knows(q, run[q])'
  BY <1>1, <1>2 DEF Inv, Knows, OrderOK, ServerOK, Ready, WorkerOwns, OperatorOwns, SparesOthers,
                    money
<1>4. Knows(p, run[p])'
  BY <1>1, <1>2 DEF Knows, OrderOK, ServerOK, Ready, WorkerOwns, OperatorOwns, Idle, money
<1>5. TypeOK'
  BY <1>1 DEF Inv, TypeOK, money
<1>6. (OneOrder /\ MoneyOK /\ OpOK(op))'
  BY <1>2 DEF Inv, OneOrder, MoneyOK, OpOK, money
<1>7. (OrderOK(order) /\ ServerOK(server))'
  BY <1>2 DEF Inv, OrderOK, ServerOK
<1>8. QED
  BY <1>2, <1>3, <1>4, <1>5, <1>6, <1>7 DEF Inv, Effect, money

(***************************************************************************)
(* The saves of the code, on top of the frames.                            *)
(***************************************************************************)
Onward == Steps \cup {"done"}

LEMMA ThinkStep ==
    ASSUME Inv, NEW p \in Procs, run[p] \in Pass, NEW step \in Onward,
           Think(p, step), Ready(p, [run[p] EXCEPT !.step = step])
    PROVE  Inv' /\ Effect
<1> DEFINE r == [run[p] EXCEPT !.step = step]
<1>1. (r \in Pass \/ r.step = "done") /\ Resume(p, r)
  BY DEF Think, Goto, Pass, Onward
<1>2. run[p].step # "done"
  BY DEF Pass, Steps
<1>3. Knows(p, r)
  BY <1>2 DEF Inv, Knows, Pass
<1>4. QED
  BY <1>1, <1>3, RowFrame DEF Inv, TypeOK, Think, money

LEMMA SaveOrderStep ==
    ASSUME Inv, NEW p \in Procs, run[p] \in Pass, NEW o \in Order, OrderOK(o),
           NEW step \in Onward,
           SaveOrder(p, o, step), Ready(p, [run[p] EXCEPT !.order = o, !.step = step])
    PROVE  Inv' /\ Effect
<1> DEFINE r == [run[p] EXCEPT !.order = o, !.step = step]
<1>1. (r \in Pass \/ r.step = "done") /\ Resume(p, r)
  BY DEF SaveOrder, Pass, Onward
<1>2. run[p].step # "done"
  BY DEF Pass, Steps
<1>3. Knows(p, r)
  BY <1>2 DEF Inv, Knows, Pass
<1>4. order' = o /\ UNCHANGED <<op, server, money, remote, enrolled, crashes>>
  BY DEF SaveOrder
<1>5. QED
  BY <1>1, <1>3, <1>4, RowFrame DEF Inv, TypeOK, money

LEMMA SaveServerStep ==
    ASSUME Inv, NEW p \in Procs, run[p] \in Pass, NEW s \in Server, ServerOK(s),
           NEW step \in Onward,
           SaveServer(p, s, step), Ready(p, [run[p] EXCEPT !.server = s, !.step = step])
    PROVE  Inv' /\ Effect
<1> DEFINE r == [run[p] EXCEPT !.server = s, !.step = step]
<1>1. (r \in Pass \/ r.step = "done") /\ Resume(p, r)
  BY DEF SaveServer, Pass, Onward
<1>2. run[p].step # "done"
  BY DEF Pass, Steps
<1>3. Knows(p, r)
  BY <1>2 DEF Inv, Knows, Pass
<1>4. server' = s /\ UNCHANGED <<op, order, money, remote, enrolled, crashes>>
  BY DEF SaveServer
<1>5. QED
  BY <1>1, <1>3, <1>4, RowFrame DEF Inv, TypeOK, money

(* The fenced save: what happens when the fence lets it through.           *)
Owning == {"check", "post", "requeue", "fail_op", "unknown", "unknown_op", "reopen_op"}

LEMMA SaveOpStep ==
    ASSUME Inv, NEW p \in Procs, run[p] \in Pass,
           NEW status \in {"pending", "completed", "failed", "outcome_unknown"},
           NEW step \in Onward, step \notin Owning,
           SaveOp(p, status, step), Ready(p, [run[p] EXCEPT !.step = step]),
           op.attempts = run[p].op.attempts =>
               OpOK([run[p].op EXCEPT !.status = status]) /\ SparesOthers(p)
    PROVE  Inv' /\ Effect
<1>1. run[p].step # "done" /\ run[p].op \in Operation
  BY DEF Pass, Steps
<1>2. Purchases' = Purchases /\ Bought' = Bought /\ Settled' = Settled
  BY DEF SaveOp, Purchases, Bought, Settled, money
<1>3. CASE op.attempts = run[p].op.attempts
  <2>1. PICK r : r = [run[p] EXCEPT !.step = step]
    OBVIOUS
  <2>2. (r \in Pass \/ r.step = "done") /\ Resume(p, r) /\ r.step = step
    BY <1>3, <2>1 DEF SaveOp, Goto, Pass, Onward
  <2>3. op' = [run[p].op EXCEPT !.status = status] /\ op' \in Operation
    BY <1>1, <1>3 DEF SaveOp, Operation
  <2>4. Knows(p, r)
    BY <1>1, <2>1 DEF Inv, Knows, Pass
  <2>5. Knows(p, r)'
    BY <1>2, <2>2, <2>4
    DEF Knows, OrderOK, ServerOK, Ready, WorkerOwns, OperatorOwns, Owning, SaveOp, money
  <2>6. OpOK(op') /\ SparesOthers(p)
    BY <1>3, <2>3
  <2>7. QED
    BY <2>2, <2>3, <2>5, <2>6, OpFrame DEF SaveOp
<1>4. CASE op.attempts # run[p].op.attempts
  <2>1. Think(p, "done")
    BY <1>4 DEF SaveOp, Think, Goto
  <2>2. Ready(p, [run[p] EXCEPT !.step = "done"])
    BY DEF Pass, Ready, OnOrder, BehindBarrier, Refusing, WorkerOwns, OperatorOwns
  <2>3. QED
    BY <2>1, <2>2, ThinkStep DEF Onward
<1>5. QED
  BY <1>3, <1>4

(* The start of a pass: it reads the three rows. *)
LEMMA StartStep ==
    ASSUME Inv, NEW p \in Procs, NEW job \in Jobs, NEW step \in Steps, Start(p, job, step),
           Ready(p, [job |-> job, step |-> step, order |-> order, op |-> op,
                     server |-> server, seen |-> "none"])
    PROVE  Inv' /\ Effect
<1> DEFINE r == [job |-> job, step |-> step, order |-> order, op |-> op,
                 server |-> server, seen |-> "none"]
<1>1. r \in Pass /\ Resume(p, r)
  BY DEF Start, Pass, Inv, TypeOK
<1>2. Knows(p, r)
  BY DEF Inv, Knows
<1>3. QED
  BY <1>1, <1>2, RowFrame DEF Inv, TypeOK, Start, money

-----------------------------------------------------------------------------
(* The worker. *)

LEMMA TakeIntentStep == ASSUME Inv, TakeIntent PROVE Inv' /\ Effect
<1>1. CASE op.status = "pending" /\ Start("worker", "submit", "claim")
  BY <1>1, StartStep DEF Procs, Jobs, Steps, Ready, OnOrder, BehindBarrier, Refusing, WorkerOwns
<1>2. CASE op.status = "in_flight" /\ Start("worker", "submit", "unknown")
  BY <1>2, StartStep DEF Procs, Jobs, Steps, Ready, OnOrder, BehindBarrier, Refusing, WorkerOwns
<1>3. QED
  BY <1>1, <1>2 DEF TakeIntent

LEMMA ClaimStep == ASSUME Inv, Claim PROVE Inv' /\ Effect
<1>1. "worker" \in Procs /\ run["worker"] \in Pass
  BY Busy DEF Inv, Claim, At, Procs
<1>2. op' \in Operation /\ op'.status = "in_flight"
  BY BoundsAssumption DEF Inv, TypeOK, OpOK, Operation, Claim
<1>3. PICK r : r = [run["worker"] EXCEPT !.op = op', !.step = "check"]
  OBVIOUS
<1>4. r \in Pass /\ Resume("worker", r) /\ r.op = op' /\ r.step = "check"
  BY <1>1, <1>2, <1>3 DEF Claim, Pass, Steps
<1>5. ~Bought /\ Purchases' = Purchases /\ Bought' = Bought /\ Settled' = Settled
  BY DEF Inv, OpOK, Claim, Bought, Purchases, Settled, money
<1>6. OpOK(op')
  BY <1>2, <1>5 DEF OpOK
<1>7. Knows("worker", r)'
  <2>1. OrderOK(run["worker"].order) /\ ServerOK(run["worker"].server)
    BY <1>1 DEF Inv, Knows, Pass, Steps
  <2>2. r.order = run["worker"].order /\ r.server = run["worker"].server
    BY <1>1, <1>3 DEF Pass
  <2>3. OrderOK(r.order)' /\ ServerOK(r.server)'
    BY <1>5, <2>1, <2>2 DEF OrderOK, ServerOK
  <2>4. Ready("worker", r)'
    BY <1>2, <1>4, <1>5 DEF Ready, OnOrder, BehindBarrier, Refusing, WorkerOwns
  <2>5. QED
    BY <2>3, <2>4 DEF Knows
<1>8. SparesOthers("worker")
  BY DEF Inv, Knows, Ready, OperatorOwns, Claim, SparesOthers, Procs
<1>9. QED
  BY <1>1, <1>2, <1>4, <1>6, <1>7, <1>8, OpFrame DEF Claim

LEMMA RevalidateStep == ASSUME Inv, Revalidate PROVE Inv' /\ Effect
<1> DEFINE r == run["worker"]
<1>1. "worker" \in Procs /\ r \in Pass /\ r.step = "check"
  BY Busy DEF Inv, Revalidate, At, Procs
<1>2. r.order \in Order /\ OrderOK(r.order) /\ WorkerOwns(r)
  BY <1>1 DEF Inv, Knows, Ready, Pass
<1>3. CASE SaveOrder("worker", r.order, "post")
  <2>1. Ready("worker", [r EXCEPT !.order = r.order, !.step = "post"])
    BY <1>1, <1>2 DEF Ready, OnOrder, BehindBarrier, Refusing, WorkerOwns, Pass
  <2>2. QED
    BY <1>1, <1>2, <1>3, <2>1, SaveOrderStep DEF Onward, Steps
<1>4. ASSUME NEW step \in {"requeue", "fail_op"}, Think("worker", step),
             step = "requeue" => Retryable
      PROVE  Inv' /\ Effect
  <2>1. Ready("worker", [r EXCEPT !.step = step])
    BY <1>1, <1>2, <1>4, BoundsAssumption
    DEF Ready, OnOrder, BehindBarrier, Refusing, WorkerOwns, Pass, Retryable
  <2>2. QED
    BY <1>1, <1>4, <2>1, ThinkStep DEF Onward, Steps
<1>5. QED
  BY <1>3, <1>4 DEF Revalidate

LEMMA RequeueOperationStep == ASSUME Inv, RequeueOperation PROVE Inv' /\ Effect
<1> DEFINE r == run["worker"]
<1>1. "worker" \in Procs /\ r \in Pass /\ r.step = "requeue"
  BY Busy DEF Inv, RequeueOperation, At, Procs
<1>2. WorkerOwns(r) /\ r.op \in Operation
  BY <1>1 DEF Inv, Knows, Ready, Pass
<1>3. OpOK([r.op EXCEPT !.status = "pending"])
  BY <1>1, <1>2 DEF OpOK, WorkerOwns, Operation
<1>4. SparesOthers("worker")
  BY <1>1, <1>2 DEF Inv, Knows, Ready, WorkerOwns, OperatorOwns, SparesOthers, Procs
<1>5. Ready("worker", [r EXCEPT !.step = "requeued"])
  BY <1>1 DEF Ready, OnOrder, BehindBarrier, Refusing, WorkerOwns, Pass
<1>6. QED
  BY <1>1, <1>3, <1>4, <1>5, SaveOpStep DEF RequeueOperation, Onward, Steps, Owning

LEMMA FailOperationStep == ASSUME Inv, FailOperation PROVE Inv' /\ Effect
<1> DEFINE r == run["worker"]
<1>1. "worker" \in Procs /\ r \in Pass /\ r.step = "fail_op"
  BY Busy DEF Inv, FailOperation, At, Procs
<1>2. WorkerOwns(r) /\ r.op \in Operation
  BY <1>1 DEF Inv, Knows, Ready, Pass
<1>3. OpOK([r.op EXCEPT !.status = "failed"])
  BY <1>1, <1>2 DEF OpOK, WorkerOwns, Operation
<1>4. SparesOthers("worker")
  BY <1>1, <1>2 DEF Inv, Knows, Ready, WorkerOwns, OperatorOwns, SparesOthers, Procs
<1>5. Ready("worker", [r EXCEPT !.step = "fail"])
  BY <1>1, <1>2 DEF Ready, OnOrder, BehindBarrier, Refusing, WorkerOwns, Pass
<1>6. QED
  BY <1>1, <1>3, <1>4, <1>5, SaveOpStep DEF FailOperation, Onward, Steps, Owning

(* A lost answer is recorded over whatever the operation has become, and   *)
(* the operator waits for that.                                            *)
LEMMA MarkOperationUnknownStep == ASSUME Inv, MarkOperationUnknown PROVE Inv' /\ Effect
<1> DEFINE r == run["worker"]
<1>1. "worker" \in Procs /\ r \in Pass /\ r.step = "unknown_op"
  BY Busy DEF Inv, MarkOperationUnknown, At, Procs
<1>2. WorkerOwns(r) /\ r.op \in Operation
  BY <1>1 DEF Inv, Knows, Ready, Pass
<1>3. OpOK([r.op EXCEPT !.status = "outcome_unknown"])
  BY <1>2 DEF OpOK, Operation
<1>4. SparesOthers("worker")
  BY <1>1, <1>2 DEF Inv, Knows, Ready, WorkerOwns, OperatorOwns, SparesOthers, Procs
<1>5. Ready("worker", [r EXCEPT !.step = "done"])
  BY <1>1 DEF Ready, OnOrder, BehindBarrier, Refusing, WorkerOwns, Pass
<1>6. QED
  BY <1>1, <1>3, <1>4, <1>5, SaveOpStep DEF MarkOperationUnknown, Onward, Steps, Owning

LEMMA CompleteOperationStep == ASSUME Inv, CompleteOperation PROVE Inv' /\ Effect
<1> DEFINE r == run["worker"]
<1>1. "worker" \in Procs /\ r \in Pass /\ r.step = "complete_op"
  BY Busy DEF Inv, CompleteOperation, At, Procs
<1>2. r.order.provider # 0 /\ Bought /\ r.op \in Operation
  BY <1>1 DEF Inv, Knows, Ready, OnOrder, OrderOK, Bought, Pass
<1>3. OpOK([r.op EXCEPT !.status = "completed"])
  BY <1>2 DEF OpOK, Operation
<1>4. SparesOthers("worker")
  BY <1>1, <1>2 DEF Inv, Knows, Ready, OperatorOwns, SparesOthers, Procs
<1>5. Ready("worker", [r EXCEPT !.step = "settle"])
  BY <1>1, <1>2 DEF Ready, OnOrder, BehindBarrier, Refusing, WorkerOwns, Pass
<1>6. QED
  BY <1>1, <1>3, <1>4, <1>5, SaveOpStep DEF CompleteOperation, Onward, Steps, Owning

(* A counted attempt leaves the row what it was. *)
LEMMA CountedOK ==
    ASSUME NEW o \in Order
    PROVE  /\ Counted(o) \in Order /\ (OrderOK(o) => OrderOK(Counted(o)))
           /\ Counted(o).provider = o.provider
BY BoundsAssumption DEF Counted, Order, OrderOK

(* A provider order id makes an order open. *)
LEMMA SubmittedOK ==
    ASSUME NEW o \in Order, NEW n \in Numbers
    PROVE  /\ Submitted(o, n) \in Order /\ Submitted(o, n).provider = n
           /\ n \in Purchases /\ OrderOK(o) => OrderOK(Submitted(o, n))
<1>1. n # 0 /\ n \in 0..MaxPosts
  BY BoundsAssumption DEF Numbers
<1>2. Submitted(o, n) = [o EXCEPT !.provider = n, !.status =
          IF o.status \in {"pending_submit", "outcome_unknown"} THEN "submitted" ELSE o.status]
  BY DEF Submitted
<1>3. QED
  BY <1>1, <1>2 DEF Order, OrderOK, Statuses, Open

LEMMA RequeueOrderStep == ASSUME Inv, RequeueOrder PROVE Inv' /\ Effect
<1> DEFINE r == run["worker"]
           o == Counted(r.order)
<1>1. "worker" \in Procs /\ r \in Pass /\ r.step = "requeued"
  BY Busy DEF Inv, RequeueOrder, At, Procs
<1>2. o \in Order /\ OrderOK(o)
  BY <1>1, CountedOK DEF Inv, Knows, Pass
<1>3. Ready("worker", [r EXCEPT !.order = o, !.step = "done"])
  BY <1>1 DEF Ready, OnOrder, BehindBarrier, Refusing, WorkerOwns, Pass
<1>4. QED
  BY <1>1, <1>2, <1>3, SaveOrderStep DEF RequeueOrder, Onward

LEMMA MarkOrderUnknownStep == ASSUME Inv, MarkOrderUnknown PROVE Inv' /\ Effect
<1> DEFINE r == run["worker"]
           u == [r.order EXCEPT !.status = "outcome_unknown"]
           o == Counted(u)
<1>1. "worker" \in Procs /\ r \in Pass /\ r.step = "unknown"
  BY Busy DEF Inv, MarkOrderUnknown, At, Procs
<1>2. r.order \in Order /\ OrderOK(r.order) /\ WorkerOwns(r)
  BY <1>1 DEF Inv, Knows, Ready, Pass
<1>3. u \in Order /\ OrderOK(u)
  BY <1>2 DEF Order, Statuses, Ambiguous, OrderOK, Open
<1>4. o \in Order /\ OrderOK(o)
  BY <1>3, CountedOK
<1>5. Ready("worker", [r EXCEPT !.order = o, !.step = "unknown_op"])
  BY <1>1, <1>2 DEF Ready, OnOrder, BehindBarrier, Refusing, WorkerOwns, Pass
<1>6. QED
  BY <1>1, <1>4, <1>5, SaveOrderStep DEF MarkOrderUnknown, Onward, Steps

LEMMA FailOrderStep == ASSUME Inv, FailOrder PROVE Inv' /\ Effect
<1> DEFINE r == run["worker"]
           o == [r.order EXCEPT !.status = "failed"]
<1>1. "worker" \in Procs /\ r \in Pass /\ r.step = "fail"
  BY Busy DEF Inv, FailOrder, At, Procs
<1>2. r.order \in Order /\ OrderOK(r.order) /\ Ready("worker", r)
  BY <1>1 DEF Inv, Knows, Pass
<1>3. o \in Order /\ OrderOK(o)
  BY <1>2 DEF Order, Statuses, OrderOK, Open
<1>4. Ready("worker", [r EXCEPT !.order = o, !.step = "fail_server"])
  BY <1>1, <1>2 DEF Ready, OnOrder, BehindBarrier, Refusing, WorkerOwns, Pass
<1>5. QED
  BY <1>1, <1>3, <1>4, SaveOrderStep DEF FailOrder, Onward, Steps

LEMMA PersistAcceptanceStep == ASSUME Inv, PersistAcceptance PROVE Inv' /\ Effect
<1> DEFINE r == run["worker"]
<1>1. "worker" \in Procs /\ r \in Pass /\ r.step = "submitted"
  BY Busy DEF Inv, PersistAcceptance, At, Procs
<1>2. r.order \in Order /\ OrderOK(r.order) /\ r.order.provider # 0
  BY <1>1 DEF Inv, Knows, Ready, OnOrder, Pass
<1>3. Ready("worker", [r EXCEPT !.order = r.order, !.step = "complete_op"])
  BY <1>1, <1>2 DEF Ready, OnOrder, BehindBarrier, Refusing, WorkerOwns, Pass
<1>4. QED
  BY <1>1, <1>2, <1>3, SaveOrderStep DEF PersistAcceptance, Onward, Steps

LEMMA ProgressStep == ASSUME Inv, Progress PROVE Inv' /\ Effect
<1> DEFINE r == run["worker"]
           o == [r.order EXCEPT !.status = "provisioning"]
<1>1. "worker" \in Procs /\ r \in Pass /\ r.step = "progress"
  BY Busy DEF Inv, Progress, At, Procs
<1>2. r.order \in Order /\ OrderOK(r.order) /\ r.order.provider # 0
  BY <1>1 DEF Inv, Knows, Ready, OnOrder, Pass
<1>3. o \in Order /\ OrderOK(o)
  BY <1>2 DEF Order, Statuses, OrderOK, Open
<1>4. Ready("worker", [r EXCEPT !.order = o, !.step = "done"])
      /\ Ready("worker", [r EXCEPT !.step = "done"])
  BY <1>1 DEF Ready, OnOrder, BehindBarrier, Refusing, WorkerOwns, Pass
<1>5. QED
  BY <1>1, <1>3, <1>4, SaveOrderStep, ThinkStep DEF Progress, Onward

(***************************************************************************)
(* The POST.  The worker owns the operation and nothing is bought, so this *)
(* is the first purchase, nobody is at a step that counts on there being   *)
(* none, and the operation is neither pending nor failed.                  *)
(***************************************************************************)
LEMMA PlaceOrderStep == ASSUME Inv, PlaceOrder PROVE Inv' /\ Effect
<1> DEFINE w == run["worker"]
<1>1. "worker" \in Procs /\ w \in Pass /\ w.step = "post"
  BY Busy DEF Inv, PlaceOrder, At, Procs
<1>2. /\ w.order \in Order /\ OrderOK(w.order) /\ w.op \in Operation
      /\ ServerOK(w.server) /\ WorkerOwns(w) /\ ~Bought
  BY <1>1 DEF Inv, Knows, Ready, WorkerOwns, Pass
<1>3. Cardinality(Purchases) + 1 = 1 /\ 1 \in Numbers
  BY <1>2, FirstPurchase
<1>4. ASSUME NEW step \in {"unknown", "requeue", "fail_op"}, UNCHANGED remote,
             Goto("worker", step), step = "requeue" => Retryable
      PROVE  Inv' /\ Effect
  <2>1. Think("worker", step)
    BY <1>4 DEF PlaceOrder, Think
  <2>2. Ready("worker", [w EXCEPT !.step = step])
    BY <1>1, <1>2, <1>4, BoundsAssumption
    DEF Ready, OnOrder, BehindBarrier, Refusing, WorkerOwns, Pass, Retryable
  <2>3. QED
    BY <1>1, <2>1, <2>2, ThinkStep DEF Onward, Steps
<1>5. ASSUME NEW r \in Pass, Resume("worker", r), r.server = w.server,
             remote' = [remote EXCEPT ![1] = "building"],
             \/ r.step = "unknown" /\ r.order = w.order
             \/ r.step = "submitted" /\ r.order = Counted(Submitted(w.order, 1))
      PROVE  Inv' /\ Effect
  <2>1. UNCHANGED <<order, op, server, money, enrolled, crashes>>
    BY DEF PlaceOrder
  <2>2. Purchases = {} /\ Purchases' = {1} /\ remote' \in [Numbers -> {"none", "building", "built", "cancelled"}]
    BY <1>2, <1>3, <1>5 DEF Bought, Purchases, Inv, TypeOK
  <2>3. OrderOK(r.order)'
    <3>1. PICK o \in Order : o = w.order
      BY <1>2
    <3>2. OrderOK(o) /\ Settled' = Settled /\ 1 \in Purchases'
      BY <1>2, <2>1, <2>2, <3>1 DEF Settled, money
    <3>3. OrderOK(o)'
      BY <2>2, <3>2 DEF OrderOK
    <3>4. OrderOK(Submitted(o, 1))' /\ Submitted(o, 1) \in Order
      <4>1. Submitted(o, 1) \in Order /\ Submitted(o, 1).provider = 1
        BY <1>3, SubmittedOK
      <4>2. Submitted(o, 1).settlement = o.settlement
        BY DEF Submitted, Order
      <4>3. QED
        BY <3>2, <3>3, <4>1, <4>2 DEF OrderOK
    <3>5. OrderOK(Counted(Submitted(o, 1)))'
      BY <3>4 DEF OrderOK, Counted, Order
    <3>6. QED
      BY <1>5, <3>1, <3>3, <3>5
  <2>4. r.step = "submitted" => r.order.provider # 0
    BY <1>2, <1>3, <1>5, SubmittedOK, CountedOK
  <2>5. Knows("worker", r)'
    <3>1. WorkerOwns(r)'
      BY <1>1, <1>2, <1>5, <2>1 DEF WorkerOwns
    <3>2. Ready("worker", r)'
      BY <1>5, <2>4, <3>1 DEF Ready, OnOrder, BehindBarrier, Refusing
    <3>3. QED
      BY <1>2, <1>5, <2>1, <2>3, <3>2 DEF Knows, ServerOK, Settled, money
  <2>6. /\ run' \in [Procs -> Pass \cup {Idle}] /\ run'["worker"] = r
        /\ \A q \in Procs \ {"worker"} : run'[q] = run[q]
    <3>1. r.step # "done"
      BY <1>5
    <3>2. QED
      BY <1>1, <1>5, <3>1, ResumeType DEF Inv
  <2>7. \A q \in Procs \ {"worker"} : Knows(q, run[q])'
    <3> SUFFICES ASSUME NEW q \in Procs \ {"worker"}, run[q].step # "done"
                 PROVE  Knows(q, run[q])'
      BY <2>6 DEF Knows
    <3>1. Knows(q, run[q]) /\ run'[q] = run[q]
      BY <2>6 DEF Inv
    <3>2. q = "operator" => run[q].step # "reopen_op"
      BY <1>1, <1>2, <3>1 DEF Knows, Ready, OperatorOwns, WorkerOwns
    <3>3. Ready(q, run[q])'
      BY <2>1, <3>1, <3>2 DEF Knows, Ready, OperatorOwns, Settled, money
    <3>4. QED
      BY <2>1, <2>2, <3>1, <3>3 DEF Knows, OrderOK, ServerOK, Settled, money
  <2>8. (OneOrder /\ MoneyOK /\ OpOK(op) /\ OrderOK(order) /\ ServerOK(server))'
    BY <1>1, <1>2, <2>1, <2>2
    DEF Inv, OneOrder, MoneyOK, OpOK, OrderOK, ServerOK, Settled, Bought, WorkerOwns, money
  <2>9. TypeOK'
    BY <2>1, <2>2, <2>6 DEF Inv, TypeOK, money
  <2>10. Effect
    BY <1>2, <1>3, <2>1, <2>2 DEF Effect, money
  <2>11. QED
    BY <2>5, <2>6, <2>7, <2>8, <2>9, <2>10 DEF Inv
<1>6. CASE remote' = [remote EXCEPT ![1] = "building"] /\ Goto("worker", "unknown")
  BY <1>1, <1>2, <1>5, <1>6 DEF Goto, Pass, Steps
<1>7. CASE /\ remote' = [remote EXCEPT ![1] = "building"]
           /\ Resume("worker", [w EXCEPT !.step = "submitted",
                                         !.order = Counted(Submitted(w.order, 1))])
  <2>1. Counted(Submitted(w.order, 1)) \in Order
    BY <1>2, <1>3, SubmittedOK, CountedOK
  <2>2. QED
    BY <1>1, <1>2, <1>5, <1>7, <2>1 DEF Pass, Steps
<1>8. QED
  <2>1. ASSUME NEW step \in {"unknown", "requeue", "fail_op"},
               Resume("worker", [w EXCEPT !.step = step,
                   !.order = IF step = "submitted" THEN Counted(Submitted(@, 1)) ELSE @])
        PROVE  Goto("worker", step)
    <3>1. [w EXCEPT !.step = step,
              !.order = IF step = "submitted" THEN Counted(Submitted(w.order, 1)) ELSE w.order]
          = [w EXCEPT !.step = step]
      BY <1>1, <2>1 DEF Pass
    <3>2. QED
      BY <2>1, <3>1 DEF Goto
  <2>2. QED
    BY <1>3, <1>4, <1>6, <1>7, <2>1 DEF PlaceOrder

-----------------------------------------------------------------------------
(* Settlement, activation and refusal, run by all three. *)

(* Money moves forward only, so the others may still rely on what they     *)
(* knew of it.                                                             *)
LEMMA MoneyFrame ==
    ASSUME Inv, NEW p \in Procs, run[p] \in Pass, NEW r, r = [run[p] EXCEPT !.step = r.step],
           r.step \in Onward \ Owning, Resume(p, r), Effect,
           hold' \in {"created", "captured", "released"}, charge' \in BOOLEAN, enrolled' \in BOOLEAN,
           Ready(p, r)',
           UNCHANGED <<order, op, server, remote, crashes>>
    PROVE  Inv'
<1>1. r \in Pass \/ r.step = "done"
  BY DEF Pass, Onward
<1>2. /\ run' \in [Procs -> Pass \cup {Idle}]
      /\ run'[p] = IF r.step = "done" THEN Idle ELSE r
      /\ \A q \in Procs \ {p} : run'[q] = run[q]
  BY <1>1, ResumeType DEF Inv
<1>3. Purchases' = Purchases /\ Bought' = Bought
  BY DEF Purchases, Bought
<1>4. /\ Settled => Settled'
      /\ hold # "created" => hold' = hold
      /\ hold' = "released" => hold = "released" \/ ~Bought
      /\ MoneyOK'
  BY <1>3 DEF Effect, Settled, Inv, MoneyOK, TypeOK, Bought
<1>5. \A o : OrderOK(o) => OrderOK(o)'
  BY <1>3, <1>4 DEF OrderOK
<1>6. \A s : ServerOK(s) => ServerOK(s)'
  BY <1>4 DEF ServerOK
<1>7. \A q \in Procs \ {p} : Knows(q, run[q])'
  <2> SUFFICES ASSUME NEW q \in Procs \ {p}, run[q].step # "done"
               PROVE  Knows(q, run[q])'
    BY <1>2 DEF Knows
  <2>1. Knows(q, run[q]) /\ run'[q] = run[q] /\ run[q] \in Pass
    BY <1>2, Busy DEF Inv
  <2>2. PICK x : x = run[q]
    OBVIOUS
  <2>3. OrderOK(x.order) /\ ServerOK(x.server) /\ Ready(q, x)
    BY <2>1, <2>2 DEF Knows
  <2>4. OrderOK(x.order)' /\ ServerOK(x.server)'
    BY <1>5, <1>6, <2>3
  <2>5. x.step \in OnOrder => Bought
    BY <2>3 DEF Ready, OrderOK, Bought
  <2>6. Ready(q, x)'
    BY <1>3, <1>4, <2>3, <2>5 DEF Ready, WorkerOwns, OperatorOwns, OnOrder
  <2>7. QED
    BY <2>1, <2>2, <2>4, <2>6 DEF Knows
<1>8. Knows(p, run[p])'
  <2>1. OrderOK(r.order)' /\ ServerOK(r.server)'
    <3>1. r.order = run[p].order /\ r.server = run[p].server /\ run[p].step # "done"
      BY DEF Pass, Steps
    <3>2. OrderOK(r.order) /\ ServerOK(r.server)
      BY <3>1 DEF Inv, Knows
    <3>3. QED
      BY <1>5, <1>6, <3>2
  <2>2. QED
    BY <1>2, <2>1 DEF Knows, Idle
<1>9. (OneOrder /\ OpOK(op) /\ OrderOK(order) /\ ServerOK(server))'
  BY <1>3, <1>4 DEF Inv, OneOrder, OpOK, OrderOK, ServerOK
<1>10. TypeOK'
  BY <1>2 DEF Inv, TypeOK
<1>11. QED
  BY <1>2, <1>4, <1>7, <1>8, <1>9, <1>10 DEF Inv

LEMMA FailServerStep == ASSUME Inv, NEW p \in Procs, FailServer(p) PROVE Inv' /\ Effect
<1> DEFINE r == run[p]
           s == [r.server EXCEPT !.state = "error"]
<1>1. r \in Pass /\ r.step = "fail_server"
  BY Busy DEF Inv, FailServer, At
<1>2. r.server \in Server /\ ServerOK(r.server) /\ Ready(p, r)
  BY <1>1 DEF Inv, Knows, Pass
<1>3. s \in Server /\ ServerOK(s)
  BY <1>2 DEF Server, ServerOK
<1>4. Ready(p, [r EXCEPT !.server = s, !.step = "release"]) /\ Ready(p, [r EXCEPT !.step = "release"])
  BY <1>1, <1>2 DEF Ready, OnOrder, BehindBarrier, Refusing, WorkerOwns, OperatorOwns, Pass
<1>5. QED
  BY <1>1, <1>3, <1>4, SaveServerStep, ThinkStep DEF FailServer, Onward, Steps

(* Only a refusal gives money back, and nothing is bought then. *)
LEMMA ReleaseHoldStep == ASSUME Inv, NEW p \in Procs, ReleaseHold(p) PROVE Inv' /\ Effect
<1>1. run[p] \in Pass /\ run[p].step = "release"
  BY Busy DEF Inv, ReleaseHold, At
<1>2. hold # "created" \/ ~Bought
  BY <1>1 DEF Inv, Knows, Ready, Refusing
<1>3. PICK r : r = [run[p] EXCEPT !.step = "done"]
  OBVIOUS
<1>4. Resume(p, r) /\ r.step = "done"
  BY <1>1, <1>3 DEF ReleaseHold, Goto, Pass
<1>5. Purchases' = Purchases
  BY DEF ReleaseHold, Purchases
<1>6. Effect /\ hold' \in {"created", "captured", "released"}
  BY <1>2, <1>5 DEF ReleaseHold, Effect, Inv, TypeOK
<1>7. Ready(p, r)'
  BY <1>4 DEF Ready, OnOrder, BehindBarrier, Refusing, WorkerOwns, OperatorOwns
<1>8. QED
  BY <1>1, <1>3, <1>4, <1>6, <1>7, MoneyFrame DEF ReleaseHold, Onward, Owning, Inv, TypeOK

LEMMA ReadHoldStep == ASSUME Inv, NEW p \in Procs, ReadHold(p) PROVE Inv' /\ Effect
<1>1. run[p] \in Pass /\ run[p].step = "settle"
  BY Busy DEF Inv, ReadHold, At
<1>2. run[p].order.provider # 0
  BY <1>1 DEF Inv, Knows, Ready, OnOrder
<1>3. ASSUME NEW step \in {"review", "debit", "charge"}, Think(p, step),
             step = "debit" => hold = "created", step = "charge" => hold = "captured"
      PROVE  Inv' /\ Effect
  <2>1. Ready(p, [run[p] EXCEPT !.step = step])
    BY <1>1, <1>2, <1>3 DEF Ready, OnOrder, BehindBarrier, Refusing, WorkerOwns, OperatorOwns, Pass
  <2>2. QED
    BY <1>1, <1>3, <2>1, ThinkStep DEF Onward, Steps
<1>4. QED
  BY <1>3 DEF ReadHold

(* Giving up, or going on with a step that asks for nothing. *)
LEMMA AsideStep ==
    ASSUME Inv, NEW p \in Procs, run[p] \in Pass,
           NEW step \in {"done", "review", "later", "park"}, Think(p, step)
    PROVE  Inv' /\ Effect
<1>1. Ready(p, [run[p] EXCEPT !.step = step])
  BY DEF Ready, OnOrder, BehindBarrier, Refusing, WorkerOwns, OperatorOwns, Pass
<1>2. QED
  BY <1>1, ThinkStep DEF Onward, Steps

(* The debit: a pass comes here only with a purchase. *)
LEMMA CaptureHoldStep == ASSUME Inv, NEW p \in Procs, CaptureHold(p) PROVE Inv' /\ Effect
<1>1. run[p] \in Pass /\ run[p].step = "debit"
  BY Busy DEF Inv, CaptureHold, At
<1>2. run[p].order.provider # 0 /\ Bought /\ hold # "released"
  BY <1>1 DEF Inv, Knows, Ready, OnOrder, OrderOK, Bought
<1>3. CASE /\ hold' = IF hold = "created" THEN "captured" ELSE hold
           /\ Goto(p, "charge")
           /\ UNCHANGED <<order, op, server, charge, remote, enrolled, crashes>>
  <2>1. PICK r : r = [run[p] EXCEPT !.step = "charge"]
    OBVIOUS
  <2>2. Resume(p, r) /\ r.step = "charge" /\ r.order = run[p].order
    BY <1>1, <1>3, <2>1 DEF Goto, Pass
  <2>3. Purchases' = Purchases /\ hold' = "captured"
    BY <1>2, <1>3 DEF Purchases, Inv, TypeOK
  <2>4. Effect
    BY <1>2, <1>3, <2>3 DEF Effect, Inv, TypeOK
  <2>5. Ready(p, r)'
    BY <1>2, <2>2, <2>3 DEF Ready, OnOrder, BehindBarrier, Refusing, WorkerOwns, OperatorOwns
  <2>6. QED
    BY <1>1, <1>3, <2>1, <2>2, <2>3, <2>4, <2>5, MoneyFrame
    DEF Onward, Steps, Owning, Inv, TypeOK
<1>4. QED
  BY <1>1, <1>3, AsideStep DEF CaptureHold, Unless

LEMMA PostChargeStep == ASSUME Inv, NEW p \in Procs, PostCharge(p) PROVE Inv' /\ Effect
<1>1. run[p] \in Pass /\ run[p].step = "charge"
  BY Busy DEF Inv, PostCharge, At
<1>2. run[p].order.provider # 0 /\ hold = "captured"
  BY <1>1 DEF Inv, Knows, Ready, OnOrder
<1>3. ASSUME NEW step \in {"done", "settled"}, charge' = TRUE, Goto(p, step),
             UNCHANGED <<order, op, server, hold, remote, enrolled, crashes>>
      PROVE  Inv' /\ Effect
  <2>1. PICK r : r = [run[p] EXCEPT !.step = step]
    OBVIOUS
  <2>2. Resume(p, r) /\ r.step = step /\ r.order = run[p].order
    BY <1>1, <1>3, <2>1 DEF Goto, Pass
  <2>3. Purchases' = Purchases
    BY <1>3 DEF Purchases
  <2>4. Effect
    BY <1>2, <1>3, <2>3 DEF Effect
  <2>5. Ready(p, r)'
    BY <1>2, <1>3, <2>2
    DEF Ready, OnOrder, BehindBarrier, Refusing, WorkerOwns, OperatorOwns, Settled
  <2>6. QED
    BY <1>1, <1>3, <2>1, <2>2, <2>4, <2>5, MoneyFrame DEF Onward, Steps, Owning, Inv, TypeOK
<1>4. QED
  BY <1>1, <1>3, AsideStep DEF PostCharge, Unless

(* Handing over. *)
LEMMA EnrolStep == ASSUME Inv, NEW p \in Procs, Enrol(p) PROVE Inv' /\ Effect
<1>1. run[p] \in Pass /\ run[p].step = "enrol"
  BY Busy DEF Inv, Enrol, At
<1>2. charge
  BY <1>1 DEF Inv, Knows, Ready, BehindBarrier, Settled
<1>3. PICK r : r = [run[p] EXCEPT !.step = "done"]
  OBVIOUS
<1>4. Resume(p, r) /\ r.step = "done"
  BY <1>1, <1>3 DEF Enrol, Goto, Pass
<1>5. Effect
  BY <1>2 DEF Enrol, Effect, Purchases, money
<1>6. Ready(p, r)'
  BY <1>4 DEF Ready, OnOrder, BehindBarrier, Refusing, WorkerOwns, OperatorOwns
<1>7. QED
  BY <1>1, <1>3, <1>4, <1>5, <1>6, MoneyFrame DEF Enrol, Onward, Owning, Inv, TypeOK, money

LEMMA RetryLaterStep == ASSUME Inv, NEW p \in Procs, RetryLater(p) PROVE Inv' /\ Effect
<1> DEFINE o == run[p].order
           spent == o.tries + 1 >= MaxTries
           counted == [o EXCEPT !.tries = IF spent THEN MaxTries ELSE @ + 1,
                                !.settlement = IF spent THEN "review" ELSE @]
           step == IF spent THEN AfterReview(p) ELSE "done"
<1>1. run[p] \in Pass /\ run[p].step = "later"
  BY Busy DEF Inv, RetryLater, At
<1>2. o \in Order /\ OrderOK(o)
  BY <1>1 DEF Inv, Knows, Pass
<1>3. counted \in Order /\ OrderOK(counted)
  <2>1. (IF spent THEN MaxTries ELSE o.tries + 1) \in 0..MaxTries
    BY <1>2, BoundsAssumption DEF Order
  <2>2. (IF spent THEN "review" ELSE o.settlement) \in {"pending", "complete", "review"}
    BY <1>2 DEF Order
  <2>3. counted \in Order
    BY <1>2, <2>1, <2>2 DEF Order
  <2>4. QED
    BY <1>2, <2>3 DEF Order, OrderOK
<1>4. step \in {"done", "park"}
  BY DEF AfterReview
<1>5. Ready(p, [run[p] EXCEPT !.order = counted, !.step = step])
  BY <1>1, <1>4 DEF Ready, OnOrder, BehindBarrier, Refusing, WorkerOwns, OperatorOwns, Pass
<1>6. SaveOrder(p, counted, step)
  BY DEF RetryLater
<1>7. QED
  BY <1>1, <1>3, <1>4, <1>5, <1>6, SaveOrderStep DEF Onward, Steps

LEMMA ReviewSettlementStep ==
    ASSUME Inv, NEW p \in Procs, ReviewSettlement(p) PROVE Inv' /\ Effect
<1> DEFINE o == [run[p].order EXCEPT !.settlement = "review"]
<1>1. run[p] \in Pass /\ run[p].step = "review"
  BY Busy DEF Inv, ReviewSettlement, At
<1>2. run[p].order \in Order /\ OrderOK(run[p].order)
  BY <1>1 DEF Inv, Knows, Pass
<1>3. o \in Order /\ OrderOK(o)
  BY <1>2 DEF Order, OrderOK
<1>4. AfterReview(p) \in {"done", "park"}
  BY DEF AfterReview
<1>5. Ready(p, [run[p] EXCEPT !.order = o, !.step = AfterReview(p)])
  BY <1>1, <1>4 DEF Ready, OnOrder, BehindBarrier, Refusing, WorkerOwns, OperatorOwns, Pass
<1>6. QED
  BY <1>1, <1>3, <1>4, <1>5, SaveOrderStep DEF ReviewSettlement, Onward, Steps

LEMMA ParkStep == ASSUME Inv, NEW p \in Procs, Park(p) PROVE Inv' /\ Effect
<1> DEFINE o == [run[p].order EXCEPT !.status = "needs_review"]
<1>1. run[p] \in Pass /\ run[p].step = "park"
  BY Busy DEF Inv, Park, At
<1>2. run[p].order \in Order /\ OrderOK(run[p].order)
  BY <1>1 DEF Inv, Knows, Pass
<1>3. o \in Order /\ OrderOK(o)
  BY <1>2 DEF Order, OrderOK, Statuses, Ambiguous, Open
<1>4. Ready(p, [run[p] EXCEPT !.order = o, !.step = "done"])
  BY <1>1 DEF Ready, OnOrder, BehindBarrier, Refusing, WorkerOwns, OperatorOwns, Pass
<1>5. QED
  BY <1>1, <1>3, <1>4, SaveOrderStep DEF Park, Onward

LEMMA SettleOrderStep == ASSUME Inv, NEW p \in Procs, SettleOrder(p) PROVE Inv' /\ Effect
<1> DEFINE o == [run[p].order EXCEPT !.settlement = "complete", !.tries = 0]
<1>1. run[p] \in Pass /\ run[p].step = "settled"
  BY Busy DEF Inv, SettleOrder, At
<1>2. run[p].order \in Order /\ OrderOK(run[p].order) /\ run[p].order.provider # 0 /\ Settled
  BY <1>1 DEF Inv, Knows, Ready, OnOrder, BehindBarrier, Pass
<1>3. o \in Order /\ OrderOK(o) /\ o.provider # 0
  <2>1. 0 \in 0..MaxTries
    BY BoundsAssumption
  <2>2. o \in Order
    BY <1>2, <2>1 DEF Order
  <2>3. o.provider = run[p].order.provider /\ o.status = run[p].order.status
    BY <1>2 DEF Order
  <2>4. QED
    BY <1>2, <2>2, <2>3 DEF OrderOK
<1>4. Ready(p, [run[p] EXCEPT !.order = o, !.step = "repair"])
  BY <1>1, <1>2, <1>3 DEF Ready, OnOrder, BehindBarrier, Refusing, WorkerOwns, OperatorOwns, Pass
<1>5. QED
  BY <1>1, <1>3, <1>4, SaveOrderStep DEF SettleOrder, Onward, Steps

(* repair_to_completed under a settled order: its operation is not waiting *)
(* for the operator's queue.                                               *)
LEMMA RepairOperationStep ==
    ASSUME Inv, NEW p \in Procs, RepairOperation(p) PROVE Inv' /\ Effect
<1> DEFINE next == CASE run[p].job = "existing" -> "done"
                     [] run[p].job = "vps" -> "activate"
                     [] OTHER -> "provision"
<1>1. run[p] \in Pass /\ run[p].step = "repair"
  BY Busy DEF Inv, RepairOperation, At
<1>2. next \in {"done", "activate", "provision"}
  OBVIOUS
<1>3. OrderOK(run[p].order) /\ ServerOK(run[p].server) /\ run[p].order.provider # 0 /\ Settled /\ Bought
  BY <1>1 DEF Inv, Knows, Ready, OnOrder, BehindBarrier, OrderOK, Bought
<1>4. PICK r : r = [run[p] EXCEPT !.step = next]
  OBVIOUS
<1>5. /\ (r \in Pass \/ r.step = "done") /\ Resume(p, r) /\ r.step = next
      /\ r.order = run[p].order /\ r.server = run[p].server
  BY <1>1, <1>2, <1>4 DEF RepairOperation, Goto, Pass, Steps
<1>6. Purchases' = Purchases /\ Settled' = Settled
  BY DEF RepairOperation, Purchases, Settled, money
<1>7. op' \in Operation /\ OpOK(op')
  BY DEF RepairOperation, Inv, TypeOK, Operation, OpOK
<1>8. Knows(p, r)'
  <2>1. OrderOK(r.order)' /\ ServerOK(r.server)'
    BY <1>3, <1>5, <1>6 DEF OrderOK, ServerOK
  <2>2. Ready(p, r)'
    BY <1>2, <1>3, <1>5, <1>6
    DEF Ready, OnOrder, BehindBarrier, Refusing, WorkerOwns, OperatorOwns
  <2>3. QED
    BY <2>1, <2>2 DEF Knows
<1>9. SparesOthers(p)
  BY <1>3 DEF Inv, Knows, Ready, WorkerOwns, OperatorOwns, SparesOthers, RepairOperation, Procs
<1>10. QED
  BY <1>5, <1>7, <1>8, <1>9, OpFrame DEF RepairOperation

LEMMA ProvisionStep == ASSUME Inv, NEW p \in Procs, Provision(p) PROVE Inv' /\ Effect
<1> DEFINE next == IF p = "worker" THEN "progress" ELSE "decide"
           s == [run[p].server EXCEPT !.state = "provisioning"]
<1>1. run[p] \in Pass /\ run[p].step = "provision"
  BY Busy DEF Inv, Provision, At
<1>2. run[p].server \in Server /\ ServerOK(run[p].server) /\ run[p].order.provider # 0 /\ Settled
  BY <1>1 DEF Inv, Knows, Ready, OnOrder, BehindBarrier, Pass
<1>3. s \in Server /\ ServerOK(s)
  BY <1>2 DEF Server, ServerOK
<1>4. /\ Ready(p, [run[p] EXCEPT !.server = s, !.step = next])
      /\ Ready(p, [run[p] EXCEPT !.step = next])
  BY <1>1, <1>2 DEF Ready, OnOrder, BehindBarrier, Refusing, WorkerOwns, OperatorOwns, Pass
<1>5. next \in Onward
  BY DEF Onward, Steps
<1>6. QED
  BY <1>1, <1>3, <1>4, <1>5, SaveServerStep, ThinkStep DEF Provision

LEMMA ActivateStep == ASSUME Inv, NEW p \in Procs, Activate(p) PROVE Inv' /\ Effect
<1> DEFINE s == [vps |-> TRUE,
                 state |-> IF run[p].server.state \in {"requested", "provisioning"}
                           THEN "running" ELSE run[p].server.state]
<1>1. run[p] \in Pass /\ run[p].step = "activate"
  BY Busy DEF Inv, Activate, At
<1>2. run[p].server \in Server /\ Settled
  BY <1>1 DEF Inv, Knows, Ready, BehindBarrier, Pass
<1>3. s \in Server /\ ServerOK(s)
  BY <1>2 DEF Server, ServerOK
<1>4. Ready(p, [run[p] EXCEPT !.server = s, !.step = "active"])
  BY <1>1, <1>2 DEF Ready, OnOrder, BehindBarrier, Refusing, WorkerOwns, OperatorOwns, Pass
<1>5. SaveServer(p, s, "active")
  BY DEF Activate
<1>6. QED
  BY <1>1, <1>3, <1>4, <1>5, SaveServerStep DEF Onward, Steps

LEMMA MarkActiveStep == ASSUME Inv, NEW p \in Procs, MarkActive(p) PROVE Inv' /\ Effect
<1> DEFINE o == [run[p].order EXCEPT !.status = "active"]
<1>1. run[p] \in Pass /\ run[p].step = "active"
  BY Busy DEF Inv, MarkActive, At
<1>2. run[p].order \in Order /\ OrderOK(run[p].order) /\ Settled
  BY <1>1 DEF Inv, Knows, Ready, BehindBarrier, Pass
<1>3. o \in Order /\ OrderOK(o)
  BY <1>2 DEF Order, OrderOK, Statuses, Open
<1>4. Ready(p, [run[p] EXCEPT !.order = o, !.step = "enrol"])
  BY <1>1, <1>2 DEF Ready, OnOrder, BehindBarrier, Refusing, WorkerOwns, OperatorOwns, Pass
<1>5. CASE SaveOrder(p, o, "enrol")
  BY <1>1, <1>3, <1>4, <1>5, SaveOrderStep DEF Onward, Steps
<1>6. QED
  BY <1>1, <1>5, AsideStep DEF MarkActive

LEMMA SharedStep == ASSUME Inv, NEW p \in Procs, Shared(p) PROVE Inv' /\ Effect
BY ReadHoldStep, CaptureHoldStep, PostChargeStep, RetryLaterStep, ReviewSettlementStep, ParkStep,
   SettleOrderStep, RepairOperationStep, ProvisionStep, ActivateStep, MarkActiveStep, EnrolStep,
   FailServerStep, ReleaseHoldStep
DEF Shared

LEMMA WorkerStep == ASSUME Inv, Worker PROVE Inv' /\ Effect
BY ClaimStep, RevalidateStep, PlaceOrderStep, RequeueOperationStep, RequeueOrderStep,
   MarkOrderUnknownStep, MarkOperationUnknownStep, FailOperationStep, FailOrderStep,
   PersistAcceptanceStep, CompleteOperationStep, ProgressStep, SharedStep
DEF Worker, Procs

-----------------------------------------------------------------------------
(* The reconciler. *)

LEMMA TakeOpenStep == ASSUME Inv, TakeOpen PROVE Inv' /\ Effect
<1>1. order.provider # 0
  BY DEF TakeOpen, Inv, OrderOK
<1>2. QED
  BY <1>1, StartStep
  DEF TakeOpen, Procs, Jobs, Steps, Ready, OnOrder, BehindBarrier, Refusing, WorkerOwns, OperatorOwns

LEMMA TakeUnknownStep == ASSUME Inv, TakeUnknown PROVE Inv' /\ Effect
BY StartStep
DEF TakeUnknown, Procs, Jobs, Steps, Ready, OnOrder, BehindBarrier, Refusing, WorkerOwns, OperatorOwns

LEMMA PollTicketStep == ASSUME Inv, PollTicket PROVE Inv' /\ Effect
<1> DEFINE w == run["reconciler"]
           r == [w EXCEPT !.server = server, !.seen = remote[w.order.provider],
                    !.step = IF w.order.settlement = "complete" THEN "decide" ELSE "settle"]
<1>1. "reconciler" \in Procs /\ w \in Pass /\ w.step = "read"
  BY Busy DEF Inv, PollTicket, At, Procs
<1>2. w.order \in Order /\ OrderOK(w.order) /\ w.order.provider # 0
  BY <1>1 DEF Inv, Knows, Ready, OnOrder, Pass
<1>3. CASE ReadTicket
  <2>1. w.order.provider \in Numbers
    BY <1>2, BoundsAssumption DEF Order, Numbers
  <2>2. r \in Pass
    BY <1>1, <2>1 DEF Pass, Steps, Inv, TypeOK
  <2>3. Knows("reconciler", r)
    <3>1. OrderOK(r.order) /\ ServerOK(r.server)
      BY <1>1, <1>2 DEF Pass, Inv
    <3>2. Ready("reconciler", r)
      BY <1>1, <1>2 DEF Ready, OnOrder, BehindBarrier, Refusing, WorkerOwns, OperatorOwns, Pass, OrderOK
    <3>3. QED
      BY <3>1, <3>2 DEF Knows
  <2>4. QED
    BY <1>1, <1>3, <2>2, <2>3, RowFrame DEF ReadTicket, Inv, TypeOK
<1>4. QED
  BY <1>1, <1>3, AsideStep DEF PollTicket

LEMMA DecideStep == ASSUME Inv, Decide PROVE Inv' /\ Effect
<1> DEFINE r == run["reconciler"]
           p == [r.order EXCEPT !.status = "provisioning"]
           f == [r.order EXCEPT !.status = "failed"]
<1>1. "reconciler" \in Procs /\ r \in Pass /\ r.step = "decide"
  BY Busy DEF Inv, Decide, At, Procs
<1>2. r.order \in Order /\ OrderOK(r.order) /\ r.order.provider # 0 /\ Settled
  BY <1>1 DEF Inv, Knows, Ready, OnOrder, BehindBarrier, Pass
<1>3. p \in Order /\ OrderOK(p) /\ f \in Order /\ OrderOK(f)
  BY <1>2 DEF Order, OrderOK, Statuses, Open
<1>4. ASSUME NEW step \in {"done", "park", "activate"}, SaveOrder("reconciler", p, step)
      PROVE  Inv' /\ Effect
  <2>1. Ready("reconciler", [r EXCEPT !.order = p, !.step = step])
    BY <1>1, <1>2, <1>4 DEF Ready, OnOrder, BehindBarrier, Refusing, WorkerOwns, OperatorOwns, Pass
  <2>2. QED
    BY <1>1, <1>3, <1>4, <2>1, SaveOrderStep DEF Onward, Steps
<1>5. CASE SaveOrder("reconciler", f, "fail_server")
  <2>1. Ready("reconciler", [r EXCEPT !.order = f, !.step = "fail_server"])
    BY <1>1, <1>2 DEF Ready, OnOrder, BehindBarrier, Refusing, WorkerOwns, OperatorOwns, Pass, Settled
  <2>2. QED
    BY <1>1, <1>3, <1>5, <2>1, SaveOrderStep DEF Onward, Steps
<1>6. CASE Think("reconciler", "park")
  BY <1>1, <1>6, AsideStep
<1>7. QED
  BY <1>4, <1>5, <1>6 DEF Decide, Identified

LEMMA ScanStep == ASSUME Inv, Scan PROVE Inv' /\ Effect
<1> DEFINE r == run["reconciler"]
           c == Counted(r.order)
<1>1. "reconciler" \in Procs /\ r \in Pass /\ r.step = "rescan"
  BY Busy DEF Inv, Scan, At, Procs
<1>2. r.order \in Order /\ OrderOK(r.order) /\ c \in Order /\ OrderOK(c)
  BY <1>1, CountedOK DEF Inv, Knows, Pass
<1>3. ASSUME NEW n \in Purchases, SaveOrder("reconciler", Submitted(r.order, n), "attach_op")
      PROVE  Inv' /\ Effect
  <2>1. n \in Numbers /\ n # 0
    BY DEF Purchases, Numbers
  <2>2. Submitted(r.order, n) \in Order /\ OrderOK(Submitted(r.order, n))
        /\ Submitted(r.order, n).provider # 0
    BY <1>2, <2>1, SubmittedOK
  <2>3. Ready("reconciler", [r EXCEPT !.order = Submitted(r.order, n), !.step = "attach_op"])
    BY <1>1, <2>2 DEF Ready, OnOrder, BehindBarrier, Refusing, WorkerOwns, OperatorOwns, Pass
  <2>4. QED
    BY <1>1, <1>3, <2>2, <2>3, SaveOrderStep DEF Onward, Steps
<1>4. ASSUME NEW step \in {"done", "park"}, SaveOrder("reconciler", c, step)
      PROVE  Inv' /\ Effect
  <2>1. Ready("reconciler", [r EXCEPT !.order = c, !.step = step])
    BY <1>1, <1>4 DEF Ready, OnOrder, BehindBarrier, Refusing, WorkerOwns, OperatorOwns, Pass
  <2>2. QED
    BY <1>1, <1>2, <1>4, <2>1, SaveOrderStep DEF Onward, Steps
<1>5. CASE Think("reconciler", "park")
  BY <1>1, <1>5, AsideStep
<1>6. QED
  BY <1>3, <1>4, <1>5 DEF Scan

LEMMA AttachRecoveredStep == ASSUME Inv, AttachRecovered PROVE Inv' /\ Effect
<1> DEFINE w == run["reconciler"]
           next == IF hold = "created" THEN "debit" ELSE "done"
<1>1. "reconciler" \in Procs /\ w \in Pass /\ w.step = "attach_op"
  BY Busy DEF Inv, AttachRecovered, At, Procs
<1>2. OrderOK(w.order) /\ ServerOK(w.server) /\ w.order.provider # 0 /\ Bought
  BY <1>1 DEF Inv, Knows, Ready, OnOrder, OrderOK, Bought
<1>3. PICK r : r = [w EXCEPT !.step = next]
  OBVIOUS
<1>4. /\ (r \in Pass \/ r.step = "done") /\ Resume("reconciler", r) /\ r.step = next
      /\ r.order = w.order /\ r.server = w.server
  BY <1>1, <1>3 DEF AttachRecovered, Goto, Pass, Steps
<1>5. Purchases' = Purchases /\ Settled' = Settled /\ hold' = hold
  BY DEF AttachRecovered, Purchases, Settled, money
<1>6. op' \in Operation /\ OpOK(op')
  BY DEF AttachRecovered, Inv, TypeOK, Operation, OpOK
<1>7. Knows("reconciler", r)'
  <2>1. OrderOK(r.order)' /\ ServerOK(r.server)'
    BY <1>2, <1>4, <1>5 DEF OrderOK, ServerOK
  <2>2. Ready("reconciler", r)'
    BY <1>2, <1>4, <1>5 DEF Ready, OnOrder, BehindBarrier, Refusing
  <2>3. QED
    BY <2>1, <2>2 DEF Knows
<1>8. SparesOthers("reconciler")
  BY <1>2 DEF Inv, Knows, Ready, WorkerOwns, OperatorOwns, SparesOthers, AttachRecovered, Procs
<1>9. QED
  BY <1>1, <1>4, <1>6, <1>7, <1>8, OpFrame DEF AttachRecovered

LEMMA ReconcilerStep == ASSUME Inv, Reconciler PROVE Inv' /\ Effect
BY PollTicketStep, DecideStep, ScanStep, AttachRecoveredStep, SharedStep DEF Reconciler, Procs

-----------------------------------------------------------------------------
(* The operator. *)

(* Every command starts with a fresh look at the rows. *)
LEMMA CommandStep ==
    ASSUME Inv, RetryFailed \/ ResolveExisting \/ ResolveNotCreated \/ ResolveVps
    PROVE  Inv' /\ Effect
<1>1. ASSUME NEW job \in Jobs, NEW step \in {"reopen", "attach"}, Start("operator", job, step)
      PROVE  Inv' /\ Effect
  BY <1>1, StartStep
  DEF Procs, Steps, Ready, OnOrder, BehindBarrier, Refusing, WorkerOwns, OperatorOwns
<1>2. ASSUME NEW job \in Jobs, Start("operator", job, "reopen_op"), ~Bought,
             op.status \in {"failed", "outcome_unknown"}, op.attempts < MaxClaims
      PROVE  Inv' /\ Effect
  BY <1>2, StartStep
  DEF Procs, Steps, Ready, OnOrder, BehindBarrier, Refusing, WorkerOwns, OperatorOwns
<1>3. CASE RetryFailed
  <2>1. op.status = "failed" => ~Bought
    BY DEF Inv, OpOK
  <2>2. QED
    BY <1>1, <1>2, <1>3, <2>1 DEF RetryFailed, Jobs
<1>4. CASE ResolveExisting
  BY <1>1, <1>4 DEF ResolveExisting, Jobs
<1>5. CASE ResolveNotCreated
  BY <1>2, <1>5 DEF ResolveNotCreated, Jobs, Bought
<1>6. CASE ResolveVps
  BY <1>6, StartStep
  DEF ResolveVps, Jobs, Procs, Steps, Ready, OnOrder, BehindBarrier, Refusing, WorkerOwns, OperatorOwns
<1>7. QED
  BY <1>3, <1>4, <1>5, <1>6

LEMMA AttachExistingStep == ASSUME Inv, AttachExisting PROVE Inv' /\ Effect
<1> DEFINE r == run["operator"]
<1>1. "operator" \in Procs /\ r \in Pass /\ r.step = "attach"
  BY Busy DEF Inv, AttachExisting, At, Procs
<1>2. r.order \in Order /\ OrderOK(r.order)
  BY <1>1 DEF Inv, Knows, Pass
<1>3. PICK n \in Purchases :
         SaveOrder("operator", [r.order EXCEPT !.provider = n, !.status = "submitted"], "attach_op")
  BY DEF AttachExisting
<1> DEFINE o == [r.order EXCEPT !.provider = n, !.status = "submitted"]
<1>4. n \in 0..MaxPosts /\ n # 0
  BY BoundsAssumption DEF Purchases, Numbers
<1>5. o \in Order /\ OrderOK(o) /\ o.provider # 0
  BY <1>2, <1>4 DEF Order, OrderOK, Statuses, Open
<1>6. Ready("operator", [r EXCEPT !.order = o, !.step = "attach_op"])
  BY <1>1, <1>5 DEF Ready, OnOrder, BehindBarrier, Refusing, WorkerOwns, OperatorOwns, Pass
<1>7. QED
  BY <1>1, <1>3, <1>5, <1>6, SaveOrderStep DEF Onward, Steps

LEMMA AttachOperationStep == ASSUME Inv, AttachOperation PROVE Inv' /\ Effect
<1> DEFINE r == run["operator"]
<1>1. "operator" \in Procs /\ r \in Pass /\ r.step = "attach_op"
  BY Busy DEF Inv, AttachOperation, At, Procs
<1>2. r.order.provider # 0 /\ Bought /\ r.op \in Operation
  BY <1>1 DEF Inv, Knows, Ready, OnOrder, OrderOK, Bought, Pass
<1>3. OpOK([r.op EXCEPT !.status = "completed"])
  BY <1>2 DEF OpOK, Operation
<1>4. SparesOthers("operator")
  <2>1. run["worker"].step \notin {"check", "post", "requeue", "fail_op"}
    BY <1>2 DEF Inv, Knows, Ready, WorkerOwns, Procs
  <2>2. op' = op \/ op'.status = "completed"
    BY <1>2 DEF AttachOperation, SaveOp, Operation
  <2>3. QED
    BY <2>1, <2>2 DEF SparesOthers
<1>5. Ready("operator", [r EXCEPT !.step = "settle"])
  BY <1>1, <1>2 DEF Ready, OnOrder, BehindBarrier, Refusing, WorkerOwns, OperatorOwns, Pass
<1>6. QED
  BY <1>1, <1>3, <1>4, <1>5, SaveOpStep DEF AttachOperation, Onward, Steps, Owning

(* The operation goes back to the queue: it waits for this verdict, so the *)
(* worker is not in the middle of an attempt, and nothing was bought.      *)
LEMMA ReopenOperationStep == ASSUME Inv, ReopenOperation PROVE Inv' /\ Effect
<1> DEFINE r == run["operator"]
<1>1. "operator" \in Procs /\ r \in Pass /\ r.step = "reopen_op"
  BY Busy DEF Inv, ReopenOperation, At, Procs
<1>2. OperatorOwns(r) /\ r.op \in Operation
  BY <1>1 DEF Inv, Knows, Ready, Pass
<1>3. OpOK([r.op EXCEPT !.status = "pending"])
  BY <1>1, <1>2 DEF OpOK, OperatorOwns, Operation
<1>4. SparesOthers("operator")
  BY <1>1, <1>2 DEF Inv, Knows, Ready, WorkerOwns, OperatorOwns, SparesOthers, Procs
<1>5. Ready("operator", [r EXCEPT !.step = "reopen"])
  BY <1>1 DEF Ready, OnOrder, BehindBarrier, Refusing, WorkerOwns, OperatorOwns, Pass
<1>6. QED
  BY <1>1, <1>3, <1>4, <1>5, SaveOpStep DEF ReopenOperation, Onward, Steps, Owning

LEMMA ReopenOrderStep == ASSUME Inv, ReopenOrder PROVE Inv' /\ Effect
<1> DEFINE r == run["operator"]
           o == [r.order EXCEPT !.status = "pending_submit"]
           next == IF r.job = "retry" /\ r.server.state = "error" THEN "reopen_server" ELSE "done"
<1>1. "operator" \in Procs /\ r \in Pass /\ r.step = "reopen"
  BY Busy DEF Inv, ReopenOrder, At, Procs
<1>2. r.order \in Order /\ OrderOK(r.order)
  BY <1>1 DEF Inv, Knows, Pass
<1>3. o \in Order /\ OrderOK(o)
  BY <1>2 DEF Order, OrderOK, Statuses, Open
<1>4. Ready("operator", [r EXCEPT !.order = o, !.step = next])
  BY <1>1 DEF Ready, OnOrder, BehindBarrier, Refusing, WorkerOwns, OperatorOwns, Pass
<1>5. next \in Onward
  BY DEF Onward, Steps
<1>6. QED
  BY <1>1, <1>3, <1>4, <1>5, SaveOrderStep DEF ReopenOrder

LEMMA ReopenServerStep == ASSUME Inv, ReopenServer PROVE Inv' /\ Effect
<1> DEFINE r == run["operator"]
           s == [r.server EXCEPT !.state = "requested"]
<1>1. "operator" \in Procs /\ r \in Pass /\ r.step = "reopen_server"
  BY Busy DEF Inv, ReopenServer, At, Procs
<1>2. r.server \in Server /\ ServerOK(r.server)
  BY <1>1 DEF Inv, Knows, Pass
<1>3. s \in Server /\ ServerOK(s)
  BY <1>2 DEF Server, ServerOK
<1>4. Ready("operator", [r EXCEPT !.server = s, !.step = "done"])
  BY <1>1 DEF Ready, OnOrder, BehindBarrier, Refusing, WorkerOwns, OperatorOwns, Pass
<1>5. QED
  BY <1>1, <1>3, <1>4, SaveServerStep DEF ReopenServer, Onward

LEMMA OperatorStep == ASSUME Inv, Operator PROVE Inv' /\ Effect
BY AttachExistingStep, AttachOperationStep, ReopenOperationStep, ReopenOrderStep, ReopenServerStep,
   SharedStep
DEF Operator, Procs

-----------------------------------------------------------------------------
(* The provider and the scheduler. *)

LEMMA DeliverStep == ASSUME Inv, NEW n \in Numbers, Deliver(n) PROVE Inv' /\ Effect
<1>1. Purchases' = Purchases /\ Bought' = Bought /\ Settled' = Settled
  BY DEF Deliver, Purchases, Bought, Settled, Inv, TypeOK, money
<1>2. TypeOK'
  BY DEF Deliver, Inv, TypeOK, money
<1>3. \A p \in Procs : Knows(p, run[p])'
  BY <1>1 DEF Deliver, Inv, Knows, OrderOK, ServerOK, Ready, WorkerOwns, OperatorOwns, money
<1>4. (OneOrder /\ MoneyOK /\ OpOK(op) /\ OrderOK(order) /\ ServerOK(server))'
  BY <1>1 DEF Deliver, Inv, OneOrder, MoneyOK, OpOK, OrderOK, ServerOK, money
<1>5. QED
  BY <1>1, <1>2, <1>3, <1>4 DEF Inv, Effect, Deliver, money

LEMMA CrashStep == ASSUME Inv, NEW p \in Procs, Crash(p) PROVE Inv' /\ Effect
<1>1. /\ run' \in [Procs -> Pass \cup {Idle}] /\ run'[p] = Idle
      /\ \A q \in Procs \ {p} : run'[q] = run[q]
  BY DEF Crash, Inv, TypeOK
<1>2. Purchases' = Purchases /\ Bought' = Bought /\ Settled' = Settled
  BY DEF Crash, Purchases, Bought, Settled, money
<1>3. TypeOK'
  BY <1>1, BoundsAssumption DEF Crash, Inv, TypeOK, money
<1>4. \A q \in Procs : Knows(q, run[q])'
  BY <1>1, <1>2
  DEF Crash, Inv, Knows, OrderOK, ServerOK, Ready, WorkerOwns, OperatorOwns, Idle, money
<1>5. (OneOrder /\ MoneyOK /\ OpOK(op) /\ OrderOK(order) /\ ServerOK(server))'
  BY <1>2 DEF Crash, Inv, OneOrder, MoneyOK, OpOK, OrderOK, ServerOK, money
<1>6. QED
  BY <1>2, <1>3, <1>4, <1>5 DEF Inv, Effect, Crash, money

LEMMA InvStep == Inv /\ [Next]_vars => Inv' /\ Effect
<1> SUFFICES ASSUME Inv, [Next]_vars PROVE Inv' /\ Effect
  OBVIOUS
<1>1. CASE UNCHANGED vars
  <2>1. UNCHANGED <<Purchases, Bought, Settled>>
    BY <1>1 DEF vars, Purchases, Bought, Settled, money
  <2>2. QED
    BY <1>1, <2>1
    DEF vars, money, Inv, Effect, TypeOK, OneOrder, MoneyOK, OpOK, OrderOK, ServerOK, Knows, Ready,
        WorkerOwns, OperatorOwns
<1>2. CASE Next
  BY <1>2, TakeIntentStep, WorkerStep, TakeOpenStep, TakeUnknownStep, ReconcilerStep, CommandStep,
     OperatorStep, DeliverStep, CrashStep
  DEF Next
<1>3. QED
  BY <1>1, <1>2

LEMMA InvInvariant == Spec => []Inv
BY InvInit, InvStep, PTL DEF Spec

-----------------------------------------------------------------------------
(* Order, operation and server rows, and what each pass remembers of them, *)
(* keep their types; no counter of claims, attempts or scans passes its    *)
(* cap.                                                                    *)
THEOREM TypeCorrect == Spec => []TypeOK
<1>1. Inv => TypeOK
  BY DEF Inv
<1>2. QED
  BY InvInvariant, <1>1, PTL

(* modules/orders never queues an operation again, nor calls it failed,    *)
(* once the provider has accepted an order for it: so no pass and no       *)
(* `orders retry` asks for a second one.                                   *)
THEOREM BoughtIsNotRetried == Spec => []PurchaseBlocksClaim
<1>1. Inv => PurchaseBlocksClaim
  BY DEF Inv, OpOK, PurchaseBlocksClaim, Bought
<1>2. QED
  BY InvInvariant, <1>1, PTL

(* OrderActivator writes the VPS onto the server only behind the           *)
(* settlement barrier, and no save of an older copy gets around it.        *)
THEOREM NothingAttachedUnpaid == Spec => []AttachedIsPaid
<1>1. Inv => AttachedIsPaid
  BY DEF Inv, ServerOK, Settled, AttachedIsPaid
<1>2. QED
  BY InvInvariant, <1>1, PTL

-----------------------------------------------------------------------------
(* How many orders the provider has. *)
LEMMA CountOne ==
    ASSUME NEW S, IsFiniteSet(S), \A m, n \in S : m = n
    PROVE  Cardinality(S) = IF S = {} THEN 0 ELSE 1
<1>1. CASE S = {}
  BY <1>1, FS_EmptySet
<1>2. CASE S # {}
  <2>1. PICK n : S = {n}
    BY <1>2
  <2>2. QED
    BY <2>1, FS_Singleton
<1>3. QED
  BY <1>1, <1>2

LEMMA BoughtCount ==
    ASSUME OneOrder
    PROVE  Cardinality(Purchases) = IF Bought THEN 1 ELSE 0
<1>1. IsFiniteSet(Numbers)
  BY FS_Interval, BoundsAssumption DEF Numbers
<1>2. IsFiniteSet(Purchases)
  BY <1>1, FS_Subset DEF Purchases
<1>3. QED
  BY <1>2, CountOne DEF OneOrder, Bought

LEMMA RefinementStep ==
    ASSUME Inv, Inv', Effect
    PROVE  [Abstract!Next]_(Abstract!vars)
<1>1. /\ Cardinality(Purchases) = IF Bought THEN 1 ELSE 0
      /\ Cardinality(Purchases)' = IF Bought' THEN 1 ELSE 0
  <2>1. Cardinality(Purchases) = IF Bought THEN 1 ELSE 0
    BY BoughtCount DEF Inv
  <2>2. (Cardinality(Purchases) = IF Bought THEN 1 ELSE 0)'
    BY BoughtCount, PTL DEF Inv
  <2>3. QED
    BY <2>1, <2>2
<1>2. CASE UNCHANGED <<Purchases, hold, charge, enrolled>>
  BY <1>2 DEF Abstract!vars
<1>3. CASE ~Bought /\ (\E n \in Numbers : Purchases' = {n}) /\ UNCHANGED <<hold, charge, enrolled>>
  <2>1. Bought'
    BY <1>3 DEF Bought
  <2>2. QED
    BY <1>1, <1>3, <2>1 DEF Abstract!Next, Abstract!Buy
<1>4. CASE ~Bought /\ hold = "created" /\ hold' = "released" /\ UNCHANGED <<Purchases, charge, enrolled>>
  BY <1>1, <1>4 DEF Abstract!Next, Abstract!Return
<1>5. CASE Bought /\ hold = "created" /\ hold' = "captured" /\ UNCHANGED <<Purchases, charge, enrolled>>
  BY <1>1, <1>5 DEF Abstract!Next, Abstract!Pay
<1>6. CASE hold = "captured" /\ charge' = TRUE /\ UNCHANGED <<Purchases, hold, enrolled>>
  BY <1>6 DEF Abstract!Next, Abstract!Record
<1>7. CASE charge /\ enrolled' = TRUE /\ UNCHANGED <<Purchases, hold, charge>>
  BY <1>7 DEF Abstract!Next, Abstract!Deliver
<1>8. QED
  BY <1>2, <1>3, <1>4, <1>5, <1>6, <1>7 DEF Effect

(***************************************************************************)
(* ImplementsPurchase: three processes with stale rows, retries, lost      *)
(* answers, human resolution and crashes are, to the buyer, one purchase.  *)
(***************************************************************************)
THEOREM OrdersArePurchases == Spec => ImplementsPurchase
<1>1. Init => Abstract!Init
  <2> SUFFICES ASSUME Init PROVE Abstract!Init
    OBVIOUS
  <2>1. Purchases = {}
    BY DEF Init, Purchases
  <2>2. QED
    BY <2>1, FS_EmptySet DEF Init, Abstract!Init
<1>2. Inv /\ Inv' /\ [Next]_vars => [Abstract!Next]_(Abstract!vars)
  BY InvStep, RefinementStep
<1>3. QED
  BY <1>1, <1>2, InvInvariant, PTL DEF Spec, ImplementsPurchase, Abstract!Spec

-----------------------------------------------------------------------------
(***************************************************************************)
(* The provider order id.  Without an operator nothing but the worker's    *)
(* own pass writes the row of an order not submitted, and a copy without   *)
(* the id is never saved again once the row has it.                        *)
(***************************************************************************)
Unnamed(o) == o.status = "pending_submit" /\ o.provider = 0
Named(o) == o.status # "pending_submit" /\ o.provider # 0

(* The worker before the answer to its request, and in the steps with      *)
(* which no order is saved any more; the rest is behind PersistAcceptance. *)
NotSent == {"claim", "check", "post", "requeue", "requeued", "unknown", "fail_op", "fail"}
SavesNoOrder == {"unknown_op", "fail_server", "release"}
Later == Steps \ (NotSent \union SavesNoOrder \union {"submitted"})

(* A pass r of the worker, or of the reconciler, with o stored. *)
WorkerCopy(o, r) ==
    /\ r.step \in NotSent => Unnamed(o) /\ Unnamed(r.order)
    /\ r.step = "submitted" => Unnamed(o) /\ Named(r.order)
    /\ r.step \in Later => Named(o) /\ Named(r.order)
ReconcilerCopy(o, r) ==
    r.step # "done" =>
        /\ o.status # "pending_submit" /\ r.order.status # "pending_submit"
        /\ o.provider # 0 => r.order.provider # 0

Unattended == {"worker", "reconciler"}
CopyOf(p, o, r) == IF p = "worker" THEN WorkerCopy(o, r) ELSE ReconcilerCopy(o, r)

Copies ==
    /\ run["operator"] = Idle
    /\ order.status = "pending_submit" => order.provider = 0
    /\ \A p \in Unattended : CopyOf(p, order, run[p])

Kept == order.provider # 0 => order'.provider = order.provider

LEMMA Resumed ==
    ASSUME Inv, NEW p \in Procs, NEW r, Resume(p, r)
    PROVE  /\ run'[p] = IF r.step = "done" THEN Idle ELSE r
           /\ \A q \in Procs \ {p} : run'[q] = run[q]
BY DEF Inv, TypeOK, Resume

(* A pass goes on as r, and saves no order; or has saved the one it holds. *)
Moves(p, r) == Resume(p, r) /\ order' = order /\ r.order = run[p].order
Saves(p, r) == Resume(p, r) /\ order' = r.order /\ remote' = remote

LEMMA ThinkMoves ==
    ASSUME NEW p \in Procs, run[p] \in Pass, NEW step, Goto(p, step), order' = order
    PROVE  \E r : Moves(p, r) /\ r.step = step
<1>1. PICK r : r = [run[p] EXCEPT !.step = step]
  OBVIOUS
<1>2. r.step = step /\ r.order = run[p].order /\ Resume(p, r)
  BY <1>1 DEF Pass, Goto
<1>3. QED
  BY <1>2 DEF Moves

LEMMA ServerMoves ==
    ASSUME NEW p \in Procs, run[p] \in Pass, NEW s, NEW step, SaveServer(p, s, step)
    PROVE  \E r : Moves(p, r) /\ r.step = step
<1>1. PICK r : r = [run[p] EXCEPT !.server = s, !.step = step]
  OBVIOUS
<1>2. r.step = step /\ r.order = run[p].order /\ Resume(p, r) /\ order' = order
  BY <1>1 DEF Pass, SaveServer
<1>3. QED
  BY <1>2 DEF Moves

LEMMA OrderSaves ==
    ASSUME NEW p \in Procs, run[p] \in Pass, NEW o, NEW step, SaveOrder(p, o, step)
    PROVE  \E r : Saves(p, r) /\ r.order = o /\ r.step = step
<1>1. PICK r : r = [run[p] EXCEPT !.order = o, !.step = step]
  OBVIOUS
<1>2. r.step = step /\ r.order = o /\ Resume(p, r) /\ order' = o /\ remote' = remote
  BY <1>1 DEF Pass, SaveOrder
<1>3. QED
  BY <1>2 DEF Saves

(* No order is saved. *)
LEMMA MoveKeeps ==
    ASSUME Inv, Copies, NEW p \in Unattended, NEW r, Resume(p, r), order' = order,
           CopyOf(p, order, r)
    PROVE  Copies' /\ Kept
<1>1. /\ run'[p] = IF r.step = "done" THEN Idle ELSE r
      /\ \A q \in Procs \ {p} : run'[q] = run[q]
  BY Resumed DEF Unattended, Procs
<1>2. CopyOf(p, order, run'[p])
  BY <1>1 DEF CopyOf, WorkerCopy, ReconcilerCopy, Idle, NotSent, Later, Steps
<1>3. QED
  BY <1>1, <1>2 DEF Copies, CopyOf, WorkerCopy, ReconcilerCopy, Unattended, Procs, Kept, Unnamed, Named

(* The next step is in the same stage, or no order is saved from there on. *)
LEMMA StageKeeps ==
    ASSUME Inv, Copies, NEW p \in Unattended, run[p] \in Pass, NEW r, Moves(p, r),
           p = "worker" => \/ r.step \in SavesNoOrder \union {"done"}
                           \/ run[p].step \in NotSent /\ r.step \in NotSent
                           \/ run[p].step \in Later /\ r.step \in Later
    PROVE  Copies' /\ Kept
<1>1. run[p].step \in Steps /\ r.order = run[p].order
  BY DEF Pass, Moves
<1>2. CopyOf(p, order, r)
  BY <1>1 DEF Copies, CopyOf, WorkerCopy, ReconcilerCopy, Later, NotSent, SavesNoOrder, Steps
<1>3. QED
  BY <1>2, MoveKeeps DEF Moves

(* A pass saves an order. *)
LEMMA SaveKeeps ==
    ASSUME Inv, Inv', Copies, NEW p \in Unattended, run[p] \in Pass, NEW r, Saves(p, r),
           CopyOf(p, r.order, r),
           order.provider # 0 => r.order.provider # 0,
           r.order.status = "pending_submit" => Unnamed(order) /\ r.order.provider = 0,
           p = "worker" /\ r.order.provider # 0 => order.provider # 0 \/ Unnamed(order)
    PROVE  Copies' /\ Kept
<1>1. PICK o : o = r.order
  OBVIOUS
<1>2. Resume(p, r) /\ order' = o /\ remote' = remote
  BY <1>1 DEF Saves
<1>3. /\ run'[p] = IF r.step = "done" THEN Idle ELSE r
      /\ \A q \in Procs \ {p} : run'[q] = run[q]
  BY <1>2, Resumed DEF Unattended, Procs
<1>4. CopyOf(p, order', run'[p])
  BY <1>1, <1>2, <1>3 DEF CopyOf, WorkerCopy, ReconcilerCopy, Idle, NotSent, Later, Steps
<1>5. ASSUME NEW q \in Unattended, q # p
      PROVE  CopyOf(q, order', run'[q])
  <2>1. run'[q] = run[q] /\ CopyOf(q, order, run[q]) /\ CopyOf(p, order, run[p])
    BY <1>3, <1>5 DEF Copies, Unattended, Procs
  <2>2. CASE p = "worker"
    BY <1>1, <1>2, <1>5, <2>1, <2>2 DEF CopyOf, ReconcilerCopy, Unattended, Unnamed
  <2>3. CASE p = "reconciler"
    <3>1. order.status # "pending_submit"
      BY <2>1, <2>3 DEF CopyOf, ReconcilerCopy, Pass, Steps
    <3>2. QED
      BY <1>1, <1>2, <1>5, <2>1, <2>3, <3>1 DEF CopyOf, WorkerCopy, Unattended, Unnamed, Named
  <2>4. QED
    BY <2>2, <2>3 DEF Unattended
<1>6. Kept
  <2>1. Purchases' = Purchases
    BY <1>2 DEF Purchases
  <2>2. SUFFICES ASSUME order.provider # 0 PROVE order'.provider = order.provider
    BY DEF Kept
  <2>3. order.provider \in Purchases /\ order'.provider \in Purchases
    BY <1>1, <1>2, <2>1, <2>2 DEF Inv, OrderOK
  <2>4. QED
    BY <2>3 DEF Inv, OneOrder
<1>7. run'["operator"] = Idle
  BY <1>3 DEF Copies, Unattended, Procs
<1>8. order'.status = "pending_submit" => order'.provider = 0
  BY <1>1, <1>2
<1>9. \A q \in Unattended : CopyOf(q, order', run'[q])
  BY <1>4, <1>5
<1>10. QED
  BY <1>6, <1>7, <1>8, <1>9 DEF Copies, CopyOf, WorkerCopy, ReconcilerCopy, Unnamed, Named

(* The worker behind PersistAcceptance saves one, or the reconciler.       *)
LEMMA SaveLater ==
    ASSUME Inv, Inv', Copies, NEW p \in Unattended, run[p] \in Pass, NEW r, Saves(p, r),
           p = "worker" => run[p].step \in Later /\ r.step \in Later \union SavesNoOrder \union {"done"},
           run[p].order.provider # 0 => r.order.provider # 0,
           r.order.status # "pending_submit" \/ r.order.status = run[p].order.status
    PROVE  Copies' /\ Kept
<1>1. run[p].step # "done" /\ CopyOf(p, order, run[p])
  BY DEF Pass, Steps, Copies
<1>2. CASE p = "worker"
  <2>1. Named(order) /\ Named(r.order)
    BY <1>1, <1>2 DEF CopyOf, WorkerCopy, Named
  <2>2. CopyOf(p, r.order, r)
    BY <1>2, <2>1 DEF CopyOf, WorkerCopy, Later, SavesNoOrder, NotSent, Steps
  <2>3. QED
    BY <2>1, <2>2, SaveKeeps DEF Named
<1>3. CASE p = "reconciler"
  <2>1. r.order.status # "pending_submit" /\ (order.provider # 0 => r.order.provider # 0)
    BY <1>1, <1>3 DEF CopyOf, ReconcilerCopy
  <2>2. CopyOf(p, r.order, r)
    BY <1>3, <2>1 DEF CopyOf, ReconcilerCopy
  <2>3. QED
    BY <1>3, <2>1, <2>2, SaveKeeps
<1>4. QED
  BY <1>2, <1>3 DEF Unattended

-----------------------------------------------------------------------------
LEMMA SharedMoves ==
    ASSUME Inv, Copies, NEW p \in Unattended,
           ReadHold(p) \/ CaptureHold(p) \/ PostCharge(p) \/ RepairOperation(p) \/ Enrol(p)
    PROVE  Copies' /\ Kept
<1>1. PICK step \in {"review", "debit", "charge", "later", "settled", "activate", "provision", "done"} :
          Goto(p, step)
  BY DEF ReadHold, CaptureHold, PostCharge, RepairOperation, Enrol, Think, Unless
<1>2. order' = order
  BY DEF ReadHold, CaptureHold, PostCharge, RepairOperation, Enrol, Think
<1>3. run[p].step \in {"settle", "debit", "charge", "repair", "enrol"}
  BY DEF ReadHold, CaptureHold, PostCharge, RepairOperation, Enrol, At
<1>4. run[p] \in Pass /\ p \in Procs
  BY <1>3, Busy DEF Inv, Unattended, Procs
<1>5. run[p].step \in Later /\ step \in Later \union {"done"}
  BY <1>3 DEF Steps, Later, NotSent, SavesNoOrder
<1>6. PICK r : Moves(p, r) /\ r.step = step
  BY <1>1, <1>2, <1>4, ThinkMoves
<1>7. QED
  BY <1>4, <1>5, <1>6, StageKeeps

LEMMA SharedServer ==
    ASSUME Inv, Copies, NEW p \in Unattended,
           FailServer(p) \/ ReleaseHold(p) \/ Provision(p) \/ Activate(p)
    PROVE  Copies' /\ Kept
<1>1. run[p].step \in {"fail_server", "release", "provision", "activate"}
  BY DEF FailServer, ReleaseHold, Provision, Activate, At
<1>2. run[p] \in Pass /\ p \in Procs
  BY <1>1, Busy DEF Inv, Unattended, Procs
<1>3. PICK step \in {"release", "done", "progress", "decide", "active"} :
          /\ (Goto(p, step) /\ order' = order) \/ \E s \in Server : SaveServer(p, s, step)
          /\ step \in {"release", "done"} \/ run[p].step \in {"provision", "activate"}
  <2>1. \A q \in Server : \A state \in {"error", "provisioning"} : [q EXCEPT !.state = state] \in Server
    BY DEF Server
  <2>2. run[p].server \in Server
    BY <1>2 DEF Pass
  <2>3. CASE FailServer(p)
    BY <2>1, <2>2, <2>3 DEF FailServer, Think
  <2>4. CASE ReleaseHold(p)
    BY <2>4 DEF ReleaseHold
  <2>5. CASE Provision(p)
    BY <2>1, <2>2, <2>5 DEF Provision, Think, At
  <2>6. CASE Activate(p)
    <3>1. [vps |-> TRUE, state |-> IF run[p].server.state \in {"requested", "provisioning"}
                                     THEN "running" ELSE run[p].server.state] \in Server
      BY <2>2 DEF Server
    <3>2. QED
      BY <2>6, <3>1 DEF Activate, At
  <2>7. QED
    BY <2>3, <2>4, <2>5, <2>6
<1>4. PICK r : Moves(p, r) /\ r.step = step
  BY <1>2, <1>3, ThinkMoves, ServerMoves
<1>5. step \in SavesNoOrder \union {"done"} \/ (run[p].step \in Later /\ step \in Later)
  BY <1>3 DEF Later, NotSent, SavesNoOrder, Steps
<1>6. QED
  BY <1>2, <1>4, <1>5, StageKeeps

LEMMA SharedSaves ==
    ASSUME Inv, Inv', Copies, NEW p \in Unattended,
           RetryLater(p) \/ ReviewSettlement(p) \/ Park(p) \/ SettleOrder(p) \/ MarkActive(p)
    PROVE  Copies' /\ Kept
<1>1. run[p].step \in {"later", "review", "park", "settled", "active"}
  BY DEF RetryLater, ReviewSettlement, Park, SettleOrder, MarkActive, At
<1>2. run[p] \in Pass /\ p \in Procs /\ run[p].order \in Order
  BY <1>1, Busy DEF Inv, Unattended, Procs, Pass
<1>3. run[p].step \in Later
  BY <1>1 DEF Later, NotSent, SavesNoOrder, Steps
<1>4. ASSUME NEW o \in Order, NEW step \in {"done", "park", "repair", "enrol"}, SaveOrder(p, o, step),
             o.provider = run[p].order.provider,
             o.status \in {run[p].order.status, "needs_review", "active"}
      PROVE  Copies' /\ Kept
  <2>1. PICK r : Saves(p, r) /\ r.order = o /\ r.step = step
    BY <1>2, <1>4, OrderSaves
  <2>2. r.step \in Later \union {"done"}
    BY <2>1 DEF Later, NotSent, SavesNoOrder, Steps
  <2>3. QED
    BY <1>2, <1>3, <1>4, <2>1, <2>2, SaveLater
<1>5. CASE RetryLater(p)
  <2> DEFINE o == run[p].order
             spent == o.tries + 1 >= MaxTries
             counted == [o EXCEPT !.tries = IF spent THEN MaxTries ELSE @ + 1,
                                  !.settlement = IF spent THEN "review" ELSE @]
  <2>1. SaveOrder(p, counted, IF spent THEN AfterReview(p) ELSE "done")
    BY <1>5 DEF RetryLater
  <2>2. counted \in Order
    <3>1. (IF spent THEN MaxTries ELSE o.tries + 1) \in 0..MaxTries
      BY <1>2, BoundsAssumption DEF Order
    <3>2. QED
      BY <1>2, <3>1 DEF Order
  <2>3. counted.provider = o.provider /\ counted.status = o.status
    BY <1>2 DEF Order
  <2>4. (IF spent THEN AfterReview(p) ELSE "done") \in {"done", "park"}
    BY DEF AfterReview
  <2>5. QED
    BY <1>4, <2>1, <2>2, <2>3, <2>4
<1>6. ASSUME NEW o, NEW step \in {"done", "park", "repair", "enrol"}, SaveOrder(p, o, step),
             \/ o = [run[p].order EXCEPT !.settlement = "review"]
             \/ o = [run[p].order EXCEPT !.status = "needs_review"]
             \/ o = [run[p].order EXCEPT !.settlement = "complete", !.tries = 0]
             \/ o = [run[p].order EXCEPT !.status = "active"]
      PROVE  Copies' /\ Kept
  <2>1. PICK q \in Order : q = run[p].order
    BY <1>2
  <2>2. \/ o = [q EXCEPT !.settlement = "review"]
        \/ o = [q EXCEPT !.settlement = "complete", !.tries = 0]
        \/ \E status \in {"needs_review", "active"} : o = [q EXCEPT !.status = status]
    BY <1>6, <2>1
  <2>3. o \in Order /\ o.provider = q.provider /\ o.status \in {q.status, "needs_review", "active"}
    <3>1. CASE o = [q EXCEPT !.settlement = "review"]
      BY <3>1 DEF Order
    <3>2. CASE o = [q EXCEPT !.settlement = "complete", !.tries = 0]
      <4>1. 0 \in 0..MaxTries
        BY BoundsAssumption
      <4>2. QED
        BY <3>2, <4>1 DEF Order
    <3>3. ASSUME NEW status \in {"needs_review", "active"}, o = [q EXCEPT !.status = status]
          PROVE  o \in Order /\ o.provider = q.provider /\ o.status = status
      BY <3>3 DEF Order, Statuses, Ambiguous
    <3>4. QED
      BY <2>2, <3>1, <3>2, <3>3
  <2>4. QED
    BY <1>4, <1>6, <2>1, <2>3
<1>7. CASE ReviewSettlement(p) \/ Park(p) \/ SettleOrder(p)
  <2>1. AfterReview(p) \in {"done", "park"}
    BY DEF AfterReview
  <2>2. QED
    BY <1>6, <1>7, <2>1 DEF ReviewSettlement, Park, SettleOrder
<1>8. CASE MarkActive(p)
  <2>1. CASE Think(p, "done")
    <3>1. PICK r : Moves(p, r) /\ r.step = "done"
      BY <1>2, <2>1, ThinkMoves DEF Think
    <3>2. QED
      BY <1>2, <3>1, StageKeeps
  <2>2. QED
    BY <1>6, <1>8, <2>1 DEF MarkActive
<1>9. QED
  BY <1>5, <1>7, <1>8

LEMMA SharedKeeps ==
    ASSUME Inv, Inv', Copies, NEW p \in Unattended, Shared(p)
    PROVE  Copies' /\ Kept
BY SharedMoves, SharedServer, SharedSaves DEF Shared

-----------------------------------------------------------------------------
(* Passes begin: of the worker with a row not submitted, and then the      *)
(* reconciler has none on its way; of the reconciler with another.         *)
LEMMA BeginKeeps ==
    ASSUME Inv, Copies, TakeIntent \/ TakeOpen \/ TakeUnknown
    PROVE  Copies' /\ Kept
<1>1. ASSUME NEW p \in Unattended, NEW job, NEW step, Start(p, job, step),
             \/ p = "worker" /\ step \in NotSent /\ order.status = "pending_submit"
             \/ p = "reconciler" /\ order.status # "pending_submit"
      PROVE  Copies' /\ Kept
  <2>1. PICK r : r = [job |-> job, step |-> step, order |-> order, op |-> op,
                      server |-> server, seen |-> "none"]
    OBVIOUS
  <2>2. Resume(p, r) /\ r.order = order /\ r.step = step /\ order' = order
    BY <1>1, <2>1 DEF Start
  <2>3. CopyOf(p, order, r)
    BY <1>1, <2>2 DEF Copies, CopyOf, WorkerCopy, ReconcilerCopy, Unnamed, NotSent, Later
  <2>4. QED
    BY <2>2, <2>3, MoveKeeps
<1>2. CASE TakeIntent
  BY <1>1, <1>2 DEF TakeIntent, Unattended, NotSent
<1>3. CASE TakeOpen
  BY <1>1, <1>3 DEF TakeOpen, Open, Unattended
<1>4. CASE TakeUnknown
  BY <1>1, <1>4 DEF TakeUnknown, Unattended
<1>5. QED
  BY <1>2, <1>3, <1>4

(* Up to the answer the worker works on an operation, or saves the row of  *)
(* an order not submitted as it found it, but for attempts and status.     *)
LEMMA RequestMoves ==
    ASSUME Inv, Copies, Claim \/ RequeueOperation \/ FailOperation \/ MarkOperationUnknown
                        \/ CompleteOperation
    PROVE  Copies' /\ Kept
<1>1. run["worker"].step \in {"claim", "requeue", "fail_op", "unknown_op", "complete_op"}
  BY DEF Claim, RequeueOperation, FailOperation, MarkOperationUnknown, CompleteOperation, At
<1>2. "worker" \in Unattended /\ "worker" \in Procs /\ run["worker"] \in Pass
  BY <1>1, Busy DEF Inv, Unattended, Procs
<1>3. CASE Claim
  <2>1. PICK r : r = [run["worker"] EXCEPT !.op = op', !.step = "check"]
    OBVIOUS
  <2>2. r.step = "check" /\ Moves("worker", r) /\ run["worker"].step = "claim"
    BY <1>2, <1>3, <2>1 DEF Claim, Moves, Pass, At
  <2>3. QED
    BY <1>2, <2>2, StageKeeps DEF NotSent
<1>4. ASSUME NEW status, NEW step, SaveOp("worker", status, step),
             \/ step = "done"
             \/ run["worker"].step \in NotSent /\ step \in NotSent
             \/ run["worker"].step \in Later /\ step \in Later
      PROVE  Copies' /\ Kept
  <2>1. PICK next \in {step, "done"} : Goto("worker", next)
    BY <1>4 DEF SaveOp
  <2>2. PICK r : Moves("worker", r) /\ r.step = next
    BY <1>2, <1>4, <2>1, ThinkMoves DEF SaveOp
  <2>3. QED
    BY <1>2, <1>4, <2>1, <2>2, StageKeeps
<1>5. CASE RequeueOperation
  BY <1>4, <1>5 DEF RequeueOperation, At, NotSent
<1>6. CASE FailOperation
  BY <1>4, <1>6 DEF FailOperation, At, NotSent
<1>7. CASE MarkOperationUnknown
  BY <1>4, <1>7 DEF MarkOperationUnknown
<1>8. CASE CompleteOperation
  BY <1>4, <1>8 DEF CompleteOperation, At, Later, Steps, NotSent, SavesNoOrder
<1>9. QED
  BY <1>3, <1>5, <1>6, <1>7, <1>8

LEMMA RequestSaves ==
    ASSUME Inv, Inv', Copies,
           Revalidate \/ RequeueOrder \/ MarkOrderUnknown \/ FailOrder \/ PersistAcceptance
    PROVE  Copies' /\ Kept
<1> DEFINE w == run["worker"]
<1>1. w.step \in {"check", "requeued", "unknown", "fail", "submitted"}
  BY DEF Revalidate, RequeueOrder, MarkOrderUnknown, FailOrder, PersistAcceptance, At
<1>2. "worker" \in Unattended /\ "worker" \in Procs /\ w \in Pass /\ w.order \in Order
  BY <1>1, Busy DEF Inv, Unattended, Procs, Pass
<1>3. /\ Unnamed(order)
      /\ w.step # "submitted" => Unnamed(w.order)
      /\ w.step = "submitted" => Named(w.order)
  BY <1>1, <1>2 DEF Copies, CopyOf, WorkerCopy, NotSent
<1>4. ASSUME NEW o, NEW step, SaveOrder("worker", o, step),
             \/ Unnamed(o) /\ step \in NotSent \union {"done"}
             \/ o.status # "pending_submit" /\ step \in SavesNoOrder
             \/ Named(o) /\ step \in Later
      PROVE  Copies' /\ Kept
  <2>1. PICK r : Saves("worker", r) /\ r.order = o /\ r.step = step
    BY <1>2, <1>4, OrderSaves
  <2>2. CopyOf("worker", r.order, r)
    BY <1>4, <2>1 DEF CopyOf, WorkerCopy, NotSent, SavesNoOrder, Later, Steps
  <2>3. QED
    BY <1>2, <1>3, <1>4, <2>1, <2>2, SaveKeeps DEF Unnamed, Named
<1>5. CASE Revalidate
  <2>1. w.step = "check"
    BY <1>5 DEF Revalidate, At
  <2>2. CASE SaveOrder("worker", w.order, "post")
    BY <1>3, <1>4, <2>1, <2>2 DEF NotSent
  <2>3. ASSUME NEW step \in {"requeue", "fail_op"}, Think("worker", step)
        PROVE  Copies' /\ Kept
    <3>1. PICK r : Moves("worker", r) /\ r.step = step
      BY <1>2, <2>3, ThinkMoves DEF Think
    <3>2. QED
      BY <1>2, <2>1, <3>1, StageKeeps DEF NotSent
  <2>4. QED
    BY <1>5, <2>2, <2>3 DEF Revalidate
<1>6. CASE RequeueOrder
  <2>1. Unnamed(Counted(w.order))
    BY <1>2, <1>3, <1>6 DEF RequeueOrder, At, Unnamed, Counted, Order
  <2>2. QED
    BY <1>4, <1>6, <2>1 DEF RequeueOrder
<1>7. CASE MarkOrderUnknown
  <2>1. Counted([w.order EXCEPT !.status = "outcome_unknown"]).status # "pending_submit"
    BY <1>2 DEF Counted, Order
  <2>2. QED
    BY <1>4, <1>7, <2>1 DEF MarkOrderUnknown, SavesNoOrder
<1>8. CASE FailOrder
  <2>1. [w.order EXCEPT !.status = "failed"].status # "pending_submit"
    BY <1>2 DEF Order
  <2>2. QED
    BY <1>4, <1>8, <2>1 DEF FailOrder, SavesNoOrder
<1>9. CASE PersistAcceptance
  BY <1>3, <1>4, <1>9 DEF PersistAcceptance, At, Later, Steps, NotSent, SavesNoOrder
<1>10. QED
  BY <1>5, <1>6, <1>7, <1>8, <1>9

LEMMA SubmittedStatus ==
    ASSUME NEW o \in Order, NEW n \in Numbers
    PROVE  Submitted(o, n).status = IF o.status \in {"pending_submit", "outcome_unknown"}
                                    THEN "submitted" ELSE o.status
BY DEF Submitted, Order

(* The answer: the pass learns the id, and the row is still as it found it. *)
LEMMA PlaceKeeps ==
    ASSUME Inv, Copies, PlaceOrder
    PROVE  Copies' /\ Kept
<1> DEFINE w == run["worker"]
           n == Cardinality(Purchases) + 1
<1>1. w.step = "post" /\ "worker" \in Unattended /\ "worker" \in Procs /\ w \in Pass /\ w.order \in Order
  BY Busy DEF PlaceOrder, At, Inv, Unattended, Procs, Pass
<1>2. Unnamed(order) /\ Unnamed(w.order)
  BY <1>1 DEF Copies, CopyOf, WorkerCopy, NotSent
<1>3. order' = order
  BY DEF PlaceOrder
<1>4. ASSUME NEW step \in {"unknown", "requeue", "fail_op"}, Goto("worker", step)
      PROVE  Copies' /\ Kept
  <2>1. PICK r : Moves("worker", r) /\ r.step = step
    BY <1>1, <1>3, <1>4, ThinkMoves
  <2>2. QED
    BY <1>1, <2>1, StageKeeps DEF NotSent
<1>5. CASE n \in Numbers /\ Resume("worker", [w EXCEPT !.step = "submitted",
                                               !.order = Counted(Submitted(@, n))])
  <2>1. PICK r : r = [w EXCEPT !.step = "submitted", !.order = Counted(Submitted(w.order, n))]
    OBVIOUS
  <2>2. r.step = "submitted" /\ r.order = Counted(Submitted(w.order, n)) /\ Resume("worker", r)
    BY <1>1, <1>5, <2>1 DEF Pass
  <2>3. Submitted(w.order, n) \in Order /\ Submitted(w.order, n).provider = n
        /\ Submitted(w.order, n).status = "submitted"
    BY <1>1, <1>2, <1>5, SubmittedOK, SubmittedStatus DEF Unnamed
  <2>4. r.order.provider = n /\ r.order.status = "submitted" /\ n # 0
    BY <1>5, <2>2, <2>3 DEF Counted, Order, Numbers
  <2>5. CopyOf("worker", order, r)
    BY <1>2, <2>2, <2>4 DEF CopyOf, WorkerCopy, Named, NotSent, Later
  <2>6. QED
    BY <1>1, <1>3, <2>2, <2>5, MoveKeeps
<1>6. QED
  BY <1>4, <1>5 DEF PlaceOrder, Goto

LEMMA WorkerKeeps ==
    ASSUME Inv, Inv', Copies, Worker
    PROVE  Copies' /\ Kept
<1>1. CASE Progress
  <2>1. /\ run["worker"].step = "progress" /\ "worker" \in Unattended
        /\ "worker" \in Procs /\ run["worker"] \in Pass /\ run["worker"].order \in Order
    BY <1>1, Busy DEF Progress, At, Inv, Unattended, Procs, Pass
  <2>2. CASE Think("worker", "done")
    BY <2>1, <2>2, ThinkMoves, StageKeeps DEF Think
  <2>3. ASSUME NEW o, SaveOrder("worker", o, "done"),
               o = [run["worker"].order EXCEPT !.status = "provisioning"]
        PROVE  Copies' /\ Kept
    <3>1. o.provider = run["worker"].order.provider /\ o.status = "provisioning"
      BY <2>1, <2>3 DEF Order
    <3>2. PICK r : Saves("worker", r) /\ r.order = o /\ r.step = "done"
      BY <2>1, <2>3, OrderSaves
    <3>3. run["worker"].step \in Later
      BY <2>1 DEF Later, Steps, NotSent, SavesNoOrder
    <3>4. QED
      BY <2>1, <3>1, <3>2, <3>3, SaveLater
  <2>4. QED
    BY <1>1, <2>2, <2>3 DEF Progress
<1>2. QED
  BY <1>1, RequestMoves, RequestSaves, PlaceKeeps, SharedKeeps DEF Worker, Unattended

-----------------------------------------------------------------------------
(* The reconciler saves what it read with another status, or with the id   *)
(* of a proven match.                                                      *)
LEMMA ReconcilerKeeps ==
    ASSUME Inv, Inv', Copies, Reconciler
    PROVE  Copies' /\ Kept
<1> DEFINE r == run["reconciler"]
<1>1. CASE Shared("reconciler")
  BY <1>1, SharedKeeps DEF Unattended
<1>2. CASE PollTicket \/ Decide \/ Scan \/ AttachRecovered
  <2>1. r.step \in {"read", "decide", "rescan", "attach_op"}
    BY <1>2 DEF PollTicket, Decide, Scan, AttachRecovered, At
  <2>2. /\ "reconciler" \in Unattended /\ "reconciler" \in Procs /\ r \in Pass
        /\ r.order \in Order /\ "reconciler" # "worker"
    BY <2>1, Busy DEF Inv, Unattended, Procs, Pass
  <2>3. ASSUME NEW step, Goto("reconciler", step), order' = order
        PROVE  Copies' /\ Kept
    BY <2>2, <2>3, ThinkMoves, StageKeeps
  <2>4. ASSUME NEW o, NEW step, SaveOrder("reconciler", o, step),
               r.order.provider # 0 => o.provider # 0,
               o.status # "pending_submit" \/ o.status = r.order.status
        PROVE  Copies' /\ Kept
    <3>1. PICK s : Saves("reconciler", s) /\ s.order = o /\ s.step = step
      BY <2>2, <2>4, OrderSaves
    <3>2. QED
      BY <2>2, <2>4, <3>1, SaveLater
  <2>5. CASE PollTicket
    <3>1. CASE ReadTicket
      <4>1. PICK s : s = [r EXCEPT !.server = server, !.seen = remote[r.order.provider],
                            !.step = IF r.order.settlement = "complete" THEN "decide" ELSE "settle"]
        OBVIOUS
      <4>2. Moves("reconciler", s)
        BY <2>2, <3>1, <4>1 DEF ReadTicket, Moves, Pass
      <4>3. QED
        BY <2>2, <4>2, StageKeeps
    <3>2. QED
      BY <2>3, <2>5, <3>1 DEF PollTicket, Think
  <2>6. CASE Decide
    <3>1. \A status \in {"provisioning", "failed"} :
             /\ [r.order EXCEPT !.status = status].provider = r.order.provider
             /\ [r.order EXCEPT !.status = status].status # "pending_submit"
      BY <2>2 DEF Order
    <3>2. QED
      BY <2>3, <2>4, <2>6, <3>1 DEF Decide, Identified, Think
  <2>7. CASE Scan
    <3>1. Counted(r.order).provider = r.order.provider /\ Counted(r.order).status = r.order.status
      BY <2>2 DEF Counted, Order
    <3>2. \A n \in Purchases :
             /\ Submitted(r.order, n).provider # 0
             /\ \/ Submitted(r.order, n).status # "pending_submit"
                \/ Submitted(r.order, n).status = r.order.status
      <4>1. \A n \in Purchases : n \in Numbers /\ n # 0
        BY DEF Purchases, Numbers
      <4>2. QED
        BY <2>2, <4>1, SubmittedOK, SubmittedStatus
    <3>3. QED
      BY <2>3, <2>4, <2>7, <3>1, <3>2 DEF Scan, Think
  <2>8. CASE AttachRecovered
    BY <2>3, <2>8 DEF AttachRecovered
  <2>9. QED
    BY <1>2, <2>5, <2>6, <2>7, <2>8
<1>3. QED
  BY <1>1, <1>2 DEF Reconciler

(* An operator who is not on the staff gives no command. *)
LEMMA NoCommand ==
    ASSUME Copies, "operator" \notin Staff
    PROVE  ~(RetryFailed \/ ResolveExisting \/ ResolveNotCreated \/ ResolveVps \/ Operator)
<1>1. ~(RetryFailed \/ ResolveExisting \/ ResolveNotCreated \/ ResolveVps)
  BY DEF RetryFailed, ResolveExisting, ResolveNotCreated, ResolveVps, Start, MayStart
<1>2. run["operator"].step = "done"
  BY DEF Copies, Idle
<1>3. ~Shared("operator")
  BY <1>2 DEF Shared, ReadHold, CaptureHold, PostCharge, RetryLater, ReviewSettlement, Park,
     SettleOrder, RepairOperation, Provision, Activate, MarkActive, Enrol, FailServer, ReleaseHold, At
<1>4. QED
  BY <1>1, <1>2, <1>3
  DEF Operator, AttachExisting, AttachOperation, ReopenOperation, ReopenOrder, ReopenServer, At

LEMMA AsideKeeps ==
    ASSUME Inv, Copies, \/ \E n \in Numbers : Deliver(n)
                        \/ \E p \in Procs : Crash(p)
                        \/ UNCHANGED vars
    PROVE  Copies' /\ Kept
<1>1. order' = order
  BY DEF Deliver, Crash, vars
<1>2. \A p \in Procs : run'[p] \in {run[p], Idle}
  BY DEF Deliver, Crash, vars, Inv, TypeOK
<1>3. \A p \in Unattended : CopyOf(p, order, run'[p])
  BY <1>2 DEF Copies, CopyOf, WorkerCopy, ReconcilerCopy, Unattended, Procs, Idle, NotSent, Later, Steps
<1>4. run'["operator"] = Idle
  BY <1>2 DEF Copies, Procs
<1>5. QED
  BY <1>1, <1>3, <1>4 DEF Copies, CopyOf, WorkerCopy, ReconcilerCopy, Kept, Unnamed, Named

(***************************************************************************)
(* ProviderIdKept.  While worker and reconciler have the orders to         *)
(* themselves, the provider order id is persisted once and never lost or   *)
(* exchanged, although each saves whole rows it read earlier and may die   *)
(* between any two saves (ProviderOrderRepository.save from                *)
(* orders/service.py).  With an operator it is false: order_lost_id.       *)
(***************************************************************************)
THEOREM ProviderIdIsKept ==
    ASSUME "operator" \notin Staff
    PROVE  Spec => ProviderIdKept
<1>1. Init => Copies
  BY DEF Init, Copies, CopyOf, WorkerCopy, ReconcilerCopy, Procs, Unattended, Idle, NotSent, Later, Steps
<1>2. Inv /\ Inv' /\ Copies /\ [Next]_vars => Copies' /\ Kept
  <2> SUFFICES ASSUME Inv, Inv', Copies, [Next]_vars PROVE Copies' /\ Kept
    OBVIOUS
  <2>1. QED
    BY BeginKeeps, WorkerKeeps, ReconcilerKeeps, NoCommand, AsideKeeps DEF Next
<1>3. Kept => [order.provider # 0 => order'.provider = order.provider]_vars
  BY DEF Kept
<1>4. QED
  BY <1>1, <1>2, <1>3, InvInvariant, PTL DEF Spec, ProviderIdKept
=============================================================================

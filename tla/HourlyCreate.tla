---------------------------- MODULE HourlyCreate ----------------------------
(***************************************************************************)
(* How an hourly server comes into being: the customer's confirmation      *)
(* writes server, price snapshot, exchange-rate binding, hold and create   *)
(* operation one commit at a time; the worker asks pooled provider         *)
(* accounts one after the other; the reconciler looks for what it did not  *)
(* hear about.                                                             *)
(*                                                                         *)
(* modules/hourly/service.py over the receipts of                          *)
(* modules/operations/create_attempts_repository.py.  A receipt write      *)
(* locks operation and server, is fenced by the claim generation and       *)
(* checks the phases of the attempts; everything a pass decides on is its  *)
(* copy of the operation as of its own last commit.  A pass may be slow    *)
(* for as long as it likes: a stale claim is taken from it regardless.     *)
(*                                                                         *)
(* One intent: passes handle intents one by one and share nothing.  What   *)
(* follows an accepted create is HourlyServer's and PrepaidHours'.         *)
(***************************************************************************)
EXTENDS Integers, FiniteSets

CONSTANTS
    Accounts,     \* the provider's credential accounts
    Clicks,       \* confirmations under one idempotency key
    Staff,        \* passes of the create worker and of the reconciler
    None,
    MaxGen,       \* bound: claim generations that living passes spend
    MaxCrashes    \* bound: passes and confirmations that die

ASSUME CreateAssumption ==
    /\ IsFiniteSet(Accounts) /\ None \notin Accounts
    /\ Clicks \intersect Staff = {}
    /\ MaxGen \in Nat \ {0} /\ MaxCrashes \in Nat

VARIABLES
    prepaid,   \* IRT wallet and USD price (else wallet and price share a currency)
    server,    \* servers row: state, provider machine, account of the machine
    priced,    \* server_price_snapshots row exists
    quote,     \* prepaid_hourly_periods row of the first hour, and its quote's age
    hold,      \* holds row of server-create:<key>
    op,        \* operations row: status, attempts, and the phase of each account
    posts,     \* create requests an account took on
    built,     \* accounts on which the machine is visible
    run,       \* what each confirmation and pass is doing
    crashes

rows == <<prepaid, server, priced, quote, hold, op>>
world == <<posts, built>>
vars == <<prepaid, server, priced, quote, hold, op, posts, built, run, crashes>>

-----------------------------------------------------------------------------
Idle == [at |-> "idle"]

Phases == {"untried", "sent", "capacity_refused", "refused", "outcome_unknown", "accepted"}

Operation ==
    [status : {"none", "pending", "in_flight", "outcome_unknown", "completed", "failed"},
     gen : Nat, phase : [Accounts -> Phases]]

Busy ==
    [at : {"price", "quote", "hold", "operation", "audit", "quarantine", "release",
           "claim", "select", "post", "unknown", "accept", "complete", "fail",
           "find", "resume"},
     role : {"create", "replay", "work"},
     gen : Nat, account : Accounts \union {None}]

TypeOK ==
    /\ prepaid \in BOOLEAN /\ priced \in BOOLEAN
    /\ server \in [state : {"none", "requested", "provisioning", "error"},
                   machine : Accounts \union {None}, account : Accounts \union {None}]
    /\ quote \in {"none", "fresh", "expired"}
    /\ hold \in {"none", "created", "captured", "released"}
    /\ op \in Operation
    /\ posts \in [Accounts -> 0..2] /\ built \subseteq Accounts
    /\ run \in [Clicks \union Staff -> Busy \union {Idle}]
    /\ crashes \in 0..MaxCrashes

Init ==
    /\ prepaid \in BOOLEAN
    /\ server = [state |-> "none", machine |-> None, account |-> None]
    /\ priced = FALSE /\ quote = "none" /\ hold = "none"
    /\ op = [status |-> "none", gen |-> 0, phase |-> [a \in Accounts |-> "untried"]]
    /\ posts = [a \in Accounts |-> 0] /\ built = {}
    /\ run = [p \in Clicks \union Staff |-> Idle]
    /\ crashes = 0

Go(p, step) == run' = [run EXCEPT ![p].at = step]
End(p) == run' = [run EXCEPT ![p] = Idle]
Begin(p, step, role, gen, a) ==
    run' = [run EXCEPT ![p] =
        [at |-> step, role |-> role, gen |-> gen, account |-> a]]

-----------------------------------------------------------------------------
(* Receipts: modules/operations/create_attempts_repository.py              *)

(* The last attempt, unless it is a documented capacity refusal. *)
Open(o) == {a \in Accounts :
    o.phase[a] \in {"sent", "refused", "outcome_unknown", "accepted"}}

(* Mutant: a lost answer counts as not asked. *)
NoReceiptSent(o) == \A a \in Accounts : o.phase[a] \notin {"sent", "accepted"}

SafePrePost(o) == Open(o) = {}

InCreate == server.state \in {"requested", "provisioning"}
Unaccepted == server.machine = None /\ InCreate

(* _claim_matches, without and with recovery = True. *)
Live(p) == op.gen = run[p].gen /\ op.status = "in_flight"
Recoverable(p) == op.gen = run[p].gen /\ op.status \in {"in_flight", "outcome_unknown"}

(* Commit the operation row and keep its generation. *)
Commit(p, o, step) ==
    /\ op' = o
    /\ run' = [run EXCEPT ![p].gen = o.gen, ![p].at = step]

(* CreateAttemptConflict: the pass stops before it does anything. *)
Fenced(p) == End(p) /\ UNCHANGED <<rows, world, crashes>>

-----------------------------------------------------------------------------
(* The confirmation: create_instance, and a second one under the same key  *)

Confirm(c) ==
    /\ run[c] = Idle /\ server.state = "none"
    /\ \E a \in Accounts :
         server' = [state |-> "requested", machine |-> None, account |-> a]
    /\ Begin(c, "price", "create", 0, None)
    /\ UNCHANGED <<prepaid, priced, quote, hold, op, world, crashes>>

(* _replay_hourly_server repairs a bundle that is not complete, or returns  *)
(* what a failed create still holds.                                        *)
Replay(c) ==
    /\ run[c] = Idle
    /\ \/ /\ server.state = "requested"
          /\ op.status = "none" \/ (prepaid /\ op.status = "pending")
          /\ Begin(c, IF ~priced THEN "price" ELSE IF prepaid THEN "quote" ELSE "hold",
                   "replay", 0, None)
       \/ /\ server.state = "error" /\ op.status = "failed" /\ hold = "created"
          /\ Begin(c, "release", "replay", 0, None)
    /\ UNCHANGED <<rows, world, crashes>>

(* A second snapshot of a server is refused; only a repair looks first. *)
WriteSnapshot(c) ==
    /\ run[c].at = "price"
    /\ ~priced \/ run[c].role = "replay"
    /\ priced' = TRUE
    /\ Go(c, IF prepaid THEN "quote" ELSE "hold")
    /\ UNCHANGED <<prepaid, server, quote, hold, op, world, crashes>>

(* An expired quote still stands for a hold made under it. *)
BindQuote(c) ==
    /\ run[c].at = "quote"
    /\ quote = "expired" => hold \in {"created", "captured"}
    /\ quote' = IF quote = "none" THEN "fresh" ELSE quote
    /\ Go(c, "hold")
    /\ UNCHANGED <<prepaid, server, priced, hold, op, world, crashes>>

ReserveFirstHour(p) ==
    /\ run[p].at = "hold"
    /\ hold \in {"none", "created"}
    /\ hold' = "created"
    /\ Go(p, IF run[p].role = "work" THEN "claim" ELSE "operation")
    /\ UNCHANGED <<prepaid, server, priced, quote, op, world, crashes>>

Register(c) ==
    /\ run[c].at = "operation"
    /\ op' = IF op.status = "none" THEN [op EXCEPT !.status = "pending"] ELSE op
    /\ Go(c, "audit")
    /\ UNCHANGED <<prepaid, server, priced, quote, hold, world, crashes>>

Audit(c) ==
    /\ run[c].at = "audit"
    /\ End(c)
    /\ UNCHANGED <<rows, world, crashes>>

(* An exception in any of these steps: no funds, a step that is refused, a *)
(* failing commit.  Only the creator of a same-currency order cleans up.   *)
Abort(p) ==
    /\ run[p].at \in {"price", "quote", "hold", "operation", "audit"}
    /\ IF run[p].role = "create" /\ ~prepaid THEN Go(p, "quarantine") ELSE End(p)
    /\ UNCHANGED <<rows, world, crashes>>

(* quarantine_partial saves the whole row as it was created. *)
Quarantine(p) ==
    /\ run[p].at = "quarantine"
    /\ server' = [server EXCEPT !.state = "error", !.machine = None]
    /\ Go(p, "release")
    /\ UNCHANGED <<prepaid, priced, quote, hold, op, world, crashes>>

ReleaseCreationHold(p) ==
    /\ run[p].at = "release"
    /\ hold' = IF hold = "created" THEN "released" ELSE hold
    /\ End(p)
    /\ UNCHANGED <<prepaid, server, priced, quote, op, world, crashes>>

-----------------------------------------------------------------------------
(* The create worker: process_server, _process_account_pool                *)

(* Mutant: claims never run out. *)
NeverStale == FALSE

(* A claim is stale after 15 minutes.  Its pass has been killed by then, or *)
(* it is merely slow.                                                       *)
Stale ==
    \/ op.gen < MaxGen
    \/ \A w \in Staff :
         run[w].at \notin {"idle", "find", "resume"} => run[w].gen # op.gen

TakeIntent(w) ==
    /\ run[w] = Idle
    /\ server.state = "requested" /\ server.machine = None /\ priced
    /\ LET o == IF op.status = "none" THEN [op EXCEPT !.status = "pending"] ELSE op
       IN  /\ op' = o
           /\ \/ /\ o.status = "pending"
                 /\ IF ~prepaid THEN Begin(w, "hold", "work", o.gen, None)
                    ELSE IF quote # "none" /\ hold = "created"
                         THEN Begin(w, "claim", "work", o.gen, None)
                         ELSE op # o /\ UNCHANGED run
              \/ /\ o.status = "in_flight" /\ Stale
                 /\ Begin(w, "resume", "work", o.gen, None)
    /\ UNCHANGED <<prepaid, server, priced, quote, hold, world, crashes>>

(* _quarantine_invalid_intent: a same-currency row without its snapshot     *)
(* counts as malformed, also while its creator is about to write it.        *)
QuarantineIntent(w) ==
    /\ run[w] = Idle
    /\ server.state = "requested" /\ ~priced /\ ~prepaid
    /\ op.status \in {"none", "pending"}
    /\ op' = [op EXCEPT !.status = "failed", !.gen = @ + 1]
    /\ Begin(w, "quarantine", "work", op'.gen, None)
    /\ UNCHANGED <<prepaid, server, priced, quote, hold, world, crashes>>

Claim(w) ==
    /\ run[w].at = "claim"
    /\ IF op.status = "pending" /\ Unaccepted /\ SafePrePost(op)
       THEN LET o == [op EXCEPT !.status = "in_flight", !.gen = @ + 1]
            IN  /\ Commit(w, o, "select")
                /\ UNCHANGED <<prepaid, server, priced, quote, hold, world, crashes>>
       ELSE Fenced(w)

(* Mutant: the row keeps the account that the confirmation chose. *)
LeftAlone(a) == server

(* The server row names the account before that account is asked. *)
Retargeted(a) == [server EXCEPT !.account = a]

(* account_for over live usage: any account that has not refused. *)
Candidates(o) == {a \in Accounts : o.phase[a] = "untried"}

(* The chosen account's own facts are checked (one whose facts have moved   *)
(* is passed over) and the attempt is recorded before it is made.           *)
StartAttempt(w) ==
    /\ run[w].at = "select"
    /\ IF Live(w) /\ Unaccepted /\ SafePrePost(op)
       THEN \E a \in Candidates(op) :
                /\ op' = [op EXCEPT !.phase[a] = "sent"]
                /\ server' = Retargeted(a)
                /\ run' = [run EXCEPT ![w].account = a, ![w].at = "post"]
                /\ UNCHANGED <<prepaid, priced, quote, hold, world, crashes>>
       ELSE Fenced(w)

(* The one create call of an attempt.  When the answer is lost, the account *)
(* may have taken the request on.                                           *)
Post(w) ==
    /\ run[w].at = "post"
    /\ LET a == run[w].account
           taken == [posts EXCEPT ![a] = @ + 1]
       IN  \/ /\ posts' = taken /\ built' = built \union {a}
              /\ Go(w, "accept")
           \/ /\ posts' \in {posts, taken} /\ UNCHANGED built
              /\ Go(w, "unknown")
    /\ UNCHANGED <<rows, crashes>>

(* A documented refusal: for want of capacity, and the next account is      *)
(* asked, or of the order itself.                                           *)
RecordRefusal(w) ==
    /\ run[w].at = "post"
    /\ LET a == run[w].account
       IN  IF Live(w) /\ Unaccepted /\ op.phase[a] = "sent"
           THEN \E verdict \in {"capacity_refused", "refused"} :
                    /\ op' = [op EXCEPT !.phase[a] = verdict]
                    /\ run' = [run EXCEPT ![w].account = None,
                           ![w].at = IF verdict = "refused" THEN "fail" ELSE "select"]
                    /\ UNCHANGED <<prepaid, server, priced, quote, hold, world, crashes>>
           ELSE Fenced(w)

RecordUnknown(w) ==
    /\ run[w].at = "unknown"
    /\ LET a == run[w].account
       IN  IF Live(w) /\ op.phase[a] = "sent"
           THEN /\ op' = [op EXCEPT !.status = "outcome_unknown",
                                    !.phase[a] = "outcome_unknown"]
                /\ End(w)
                /\ UNCHANGED <<prepaid, server, priced, quote, hold, world, crashes>>
           ELSE Fenced(w)

RecordAcceptance(w) ==
    /\ run[w].at = "accept"
    /\ LET a == run[w].account
       IN  IF /\ Recoverable(w) /\ op.phase[a] \in {"sent", "outcome_unknown", "accepted"}
              /\ server.account = a /\ server.machine \in {None, a}
              /\ InCreate \/ server.machine # None
           THEN /\ Commit(w, [op EXCEPT !.phase[a] = "accepted"], "complete")
                /\ server' = [server EXCEPT !.machine = a]
                /\ UNCHANGED <<prepaid, priced, quote, hold, world, crashes>>
           ELSE Fenced(w)

(* save_outcome in its four uses. *)
Complete(w) ==
    /\ run[w].at = "complete"
    /\ IF /\ Recoverable(w) /\ \E a \in Accounts : op.phase[a] = "accepted"
          /\ server.machine # None
       THEN /\ op' = [op EXCEPT !.status = "completed"]
            /\ server' = [server EXCEPT !.state = IF @ = "requested" THEN "provisioning" ELSE @]
            /\ End(w)
            /\ UNCHANGED <<prepaid, priced, quote, hold, world, crashes>>
       ELSE Fenced(w)

(* No account is left, or the order was refused. *)
FailOperation(w) ==
    /\ run[w].at \in {"select", "fail"}
    /\ IF /\ Recoverable(w) /\ Unaccepted
          /\ \A a \in Open(op) : op.phase[a] = "refused"
       THEN /\ op' = [op EXCEPT !.status = "failed"]
            /\ server' = [server EXCEPT !.state = "error"]
            /\ Go(w, "release")
            /\ UNCHANGED <<prepaid, priced, quote, hold, world, crashes>>
       ELSE Fenced(w)

(* An account could not be read. *)
RequeueOperation(w) ==
    /\ run[w].at = "select" /\ op.gen < MaxGen
    /\ IF Recoverable(w) /\ SafePrePost(op) /\ Unaccepted
       THEN /\ op' = [op EXCEPT !.status = "pending"]
            /\ End(w)
            /\ UNCHANGED <<prepaid, server, priced, quote, hold, world, crashes>>
       ELSE Fenced(w)

-----------------------------------------------------------------------------
(* The reconciler: reconcile_server, _reconcile_account_pool               *)

(* The worker comes here too, for a requested server that has its machine. *)
Reconcile(w) ==
    /\ run[w] = Idle
    /\ InCreate /\ op.status \in {"in_flight", "outcome_unknown"}
    /\ \E a \in Open(op) :
         IF op.phase[a] = "refused" THEN Stale /\ Begin(w, "resume", "work", op.gen, a)
         ELSE server.account = a /\ Begin(w, "find", "work", op.gen, a)
    /\ UNCHANGED <<rows, world, crashes>>

(* find_by_operation, or get_instance of a recorded machine. *)
Find(w) ==
    /\ run[w].at = "find" /\ run[w].account \in built
    /\ Go(w, "accept")
    /\ UNCHANGED <<rows, world, crashes>>

FindNothing(w) ==
    /\ run[w].at = "find"
    /\ Fenced(w)

(* resume_safe_claim: a new generation shuts the old pass out, and what    *)
(* the receipt proves decides where the intent goes on.                    *)
Resume(w) ==
    /\ run[w].at = "resume"
    /\ IF Recoverable(w) /\ (Open(op) \subseteq {a \in Accounts : op.phase[a] = "refused"}
                                => Unaccepted)
       THEN LET next == [op EXCEPT !.gen = @ + 1]
            IN  /\ \/ /\ SafePrePost(op)
                      /\ op' = [next EXCEPT !.status = "pending"]
                      /\ End(w)
                   \/ \E a \in Open(op) :
                        LET o == CASE op.phase[a] = "refused" ->
                                        [next EXCEPT !.status = "in_flight"]
                                   [] op.phase[a] = "accepted" -> next
                                   [] OTHER -> [next EXCEPT !.status = "outcome_unknown",
                                                            !.phase[a] = "outcome_unknown"]
                        IN  /\ op' = o
                            /\ run' = [run EXCEPT ![w].gen = o.gen, ![w].account = a,
                                   ![w].at = IF op.phase[a] = "refused" THEN "fail" ELSE "find"]
                /\ UNCHANGED <<prepaid, server, priced, quote, hold, world, crashes>>
       ELSE Fenced(w)

-----------------------------------------------------------------------------
(* Around it *)

(* The account shows the machine of a request it took on. *)
Provide(a) ==
    /\ posts[a] > 0 /\ a \notin built
    /\ built' = built \union {a}
    /\ UNCHANGED <<rows, posts, run, crashes>>

Expire ==
    /\ quote = "fresh" /\ quote' = "expired"
    /\ UNCHANGED <<prepaid, server, priced, hold, op, world, run, crashes>>

(* capture_first_hour, called when the machine is ready. *)
CaptureFirstHour ==
    /\ prepaid /\ server.state = "provisioning" /\ server.machine # None
    /\ quote # "none" /\ hold = "created"
    /\ hold' = "captured"
    /\ UNCHANGED <<prepaid, server, priced, quote, op, world, run, crashes>>

Crash(p) ==
    /\ run[p] # Idle /\ crashes < MaxCrashes
    /\ crashes' = crashes + 1
    /\ End(p)
    /\ UNCHANGED <<rows, world>>

-----------------------------------------------------------------------------
Confirming(c) ==
    \/ WriteSnapshot(c) \/ BindQuote(c) \/ ReserveFirstHour(c) \/ Register(c)
    \/ Audit(c) \/ Quarantine(c) \/ ReleaseCreationHold(c)

Working(w) ==
    \/ Quarantine(w) \/ ReserveFirstHour(w) \/ Claim(w) \/ StartAttempt(w) \/ Post(w)
    \/ RecordRefusal(w) \/ RecordUnknown(w) \/ RecordAcceptance(w) \/ Complete(w)
    \/ FailOperation(w) \/ RequeueOperation(w) \/ ReleaseCreationHold(w)
    \/ Resume(w) \/ Find(w) \/ FindNothing(w)

Next ==
    \/ \E c \in Clicks : Confirm(c) \/ Replay(c) \/ Confirming(c) \/ Abort(c) \/ Crash(c)
    \/ \E w \in Staff :
         TakeIntent(w) \/ QuarantineIntent(w) \/ Reconcile(w) \/ Working(w) \/ Abort(w) \/ Crash(w)
    \/ \E a \in Accounts : Provide(a)
    \/ Expire \/ CaptureFirstHour

Spec == Init /\ [][Next]_vars

(***************************************************************************)
(* Both jobs are cron entries, so a requested server is taken and an       *)
(* undecided operation looked at again and again; a pass that started goes *)
(* on; a machine the account shows is not overlooked for ever.             *)
(***************************************************************************)
FairSpec ==
    /\ Spec
    /\ SF_vars(\E w \in Staff : TakeIntent(w))
    /\ SF_vars(\E w \in Staff : Reconcile(w))
    /\ \A w \in Staff : WF_vars(Working(w)) /\ SF_vars(Find(w))

-----------------------------------------------------------------------------
(* Properties *)

(***************************************************************************)
(* The pool keeps its promise although confirmations repeat, passes die,   *)
(* overlap and sleep through their own claim: one machine, on the account  *)
(* asked last, and of a prepaid order no money back while any account may  *)
(* still hold a machine.                                                   *)
(***************************************************************************)
Pool == INSTANCE Fulfilment WITH
    reserving <- prepaid,
    money <- CASE hold = "none" -> "none" [] hold = "created" -> "reserved"
               [] hold = "captured" -> "paid" [] OTHER -> "returned",
    owner <- IF \E a \in Open(op) : op.phase[a] # "refused"
             THEN CHOOSE a \in Open(op) : op.phase[a] # "refused" ELSE None,
    refused <- {a \in Accounts : op.phase[a] \in {"capacity_refused", "refused"}},
    bought <- posts,
    attached <- server.machine

ImplementsFulfilment == Pool!FulfilmentSpec

(***************************************************************************)
(* A prepaid customer's machine can always be found and charged: the row   *)
(* names the account that has it, the server is still open for it, and the *)
(* first hour is set aside or paid.                                        *)
(***************************************************************************)
MachineIsFindable ==
    \A a \in Accounts : prepaid /\ posts[a] > 0 =>
        /\ server.account = a /\ InCreate
        /\ op.phase[a] \in {"sent", "outcome_unknown", "accepted"}
        /\ hold \in {"created", "captured"}

(* An order whose money is set aside while nothing is settled: no outcome  *)
(* recorded, or a machine that shows and is not attached.                  *)
Undecided ==
    /\ prepaid /\ hold = "created"
    /\ \/ op.status \in {"none", "pending", "in_flight"}
       \/ built # {} /\ server.machine = None

(***************************************************************************)
(* Nobody waits for ever on a prepaid order: money that is set aside leads *)
(* to a machine, a refund or a case for review, and a machine that shows   *)
(* is attached to the server.                                              *)
(***************************************************************************)
ReservedIsDecided == []<>~Undecided
=============================================================================

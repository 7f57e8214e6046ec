-------------------------- MODULE PaymentSessions --------------------------
(***************************************************************************)
(* Wallet top-ups: modules/payments.  A customer's click stores the        *)
(* payment session, asks the gateway for an invoice once and binds the     *)
(* invoice to the row.  The gateway's callback, the customer's status      *)
(* check and the worker's reconciliation jobs verify the invoice at the    *)
(* gateway and settle the session: claim it SUCCEEDED, deposit, mark it    *)
(* credited, in three transactions.                                        *)
(*                                                                         *)
(* A payment is one idempotency key: one session row, and one deposit key  *)
(* in the ledger, under which WalletHolds posts at most once.              *)
(***************************************************************************)
EXTENDS Naturals, FiniteSets

CONSTANTS
    Payments,       \* top-ups, by idempotency key
    NoPayment,      \* what an idle process works on
    Tetraminator,   \* those of the Tetraminator gateway; the others are polled
                    \* by PaymentReconciliationService (AtlasPay, ZarinPal)
    Clicks,         \* processes in WalletRechargeService.start
    Checks,         \* processes in a callback or a customer's status check
    Limit,          \* rows that one pass of a reconciliation job lists
    MaxCrashes,     \* bound on killed processes
    LatePayments    \* whether a gateway may take money for an expired invoice

ASSUME ParametersOK ==
    /\ IsFiniteSet(Payments) /\ NoPayment \notin Payments
    /\ Tetraminator \subseteq Payments
    /\ Limit \in Nat \ {0} /\ MaxCrashes \in Nat /\ LatePayments \in BOOLEAN

VARIABLES
    session,    \* the payment_sessions rows
    created,    \* created_at of each row, 0 while there is none
    invoice,    \* what the gateway knows of each payment
    invoices,   \* how many invoices it was asked for and made
    deposits,   \* deposit keys posted to the ledger
    run,        \* where each process stands, on which payment, the row it read
    todo,       \* the rows each job still has to visit
    crashes

gateway == <<invoice, invoices>>
vars == <<session, created, gateway, deposits, run, todo, crashes>>

Jobs == {"tetraminator", "polled"}
GatewayOf(p) == IF p \in Tetraminator THEN "tetraminator" ELSE "polled"
Procs == Clicks \cup Checks \cup Jobs

Final == {"succeeded", "failed"}
Row == [status : {"none", "pending"} \cup Final, bound : BOOLEAN, credited : BOOLEAN]
NoRow == [status |-> "none", bound |-> FALSE, credited |-> FALSE]
NewRow == [status |-> "pending", bound |-> FALSE, credited |-> FALSE]

Steps == {"insert", "post", "bind", "inquire", "succeeded", "failed", "fail",
          "claim", "deposit", "mark"}
Pass == [step : Steps, payment : Payments, row : Row]
Idle == [step |-> "idle", payment |-> NoPayment, row |-> NoRow]

Init ==
    /\ session = [p \in Payments |-> NoRow] /\ created = [p \in Payments |-> 0]
    /\ invoice = [p \in Payments |-> "none"] /\ invoices = [p \in Payments |-> 0]
    /\ deposits = {}
    /\ run = [w \in Procs |-> Idle] /\ todo = [j \in Jobs |-> {}] /\ crashes = 0

-----------------------------------------------------------------------------
(* Process steps.                                                          *)
At(w, step) == run[w].step = step
Mine(w) == run[w].payment
Begin(w, p, step, row) == run' = [run EXCEPT ![w] = [step |-> step, payment |-> p, row |-> row]]
Goto(w, step) == run' = [run EXCEPT ![w].step = step]
Done(w) == run' = [run EXCEPT ![w] = Idle]

(***************************************************************************)
(* SqlAlchemyPaymentSessionRepository.save, under the row lock: a final    *)
(* status and a binding stay, a credited row is returned as it is, any     *)
(* other row is written whole from the object the caller read before.  A   *)
(* save that raises ends the call.                                         *)
(***************************************************************************)
Savable(w, new) ==
    LET current == session[Mine(w)] IN
    /\ current.bound => new.bound
    /\ current.status \in Final => new.status = current.status
    /\ new.credited => new.status = "succeeded"

(* Fault: an older success overwrites the credit marker. *)
FaultMerged(current, new) == new

Merged(current, new) == IF current.credited THEN current ELSE new

Save(w, new, step) ==
    LET saved == Merged(session[Mine(w)], new) IN
    IF Savable(w, new)
      THEN /\ session' = [session EXCEPT ![Mine(w)] = saved]
           /\ IF step = "idle" THEN Done(w) ELSE Begin(w, Mine(w), step, saved)
      ELSE Done(w) /\ UNCHANGED session

-----------------------------------------------------------------------------
(* WalletRechargeService.start.  A known key is replayed or refused, both  *)
(* without a change; an unknown one becomes a row before the gateway is    *)
(* called.                                                                 *)
Click(c, p) ==
    /\ At(c, "idle") /\ session[p].status = "none"
    /\ Begin(c, p, "insert", NewRow)
    /\ UNCHANGED <<session, created, gateway, deposits, todo, crashes>>

Stamp(p) ==
    created' = [created EXCEPT ![p] = Cardinality({q \in Payments : created[q] # 0}) + 1]

(* Fault: the loser of the insert goes on with the winner's row. *)
FaultInsert(c) ==
    /\ At(c, "insert")
    /\ IF session[Mine(c)].status = "none"
         THEN /\ session' = [session EXCEPT ![Mine(c)] = NewRow]
              /\ Stamp(Mine(c))
         ELSE UNCHANGED <<session, created>>
    /\ Goto(c, "post")
    /\ UNCHANGED <<gateway, deposits, todo, crashes>>

(* The unique key lets one of two concurrent clicks insert its row. *)
Insert(c) ==
    /\ At(c, "insert")
    /\ IF session[Mine(c)].status = "none"
         THEN /\ session' = [session EXCEPT ![Mine(c)] = NewRow]
              /\ Stamp(Mine(c))
              /\ Goto(c, "post")
         ELSE Done(c) /\ UNCHANGED <<session, created>>
    /\ UNCHANGED <<gateway, deposits, todo, crashes>>

(***************************************************************************)
(* The one POST.  When its answer is lost or refused the row stays         *)
(* unbound: ambiguous, and never posted again.                             *)
(***************************************************************************)
Post(c) ==
    /\ At(c, "post")
    /\ \/ /\ invoice' = [invoice EXCEPT ![Mine(c)] = "open"]
          /\ invoices' = [invoices EXCEPT ![Mine(c)] = @ + 1]
          /\ Goto(c, "bind") \/ Done(c)
       \/ Done(c) /\ UNCHANGED gateway
    /\ UNCHANGED <<session, created, deposits, todo, crashes>>

(* The invoice is bound to the row; only then has the customer a link. *)
Bind(c) ==
    /\ At(c, "bind")
    /\ Save(c, [run[c].row EXCEPT !.bound = TRUE], "idle")
    /\ UNCHANGED <<created, gateway, deposits, todo, crashes>>

-----------------------------------------------------------------------------
(* The gateway: the customer pays the linked invoice, in full or with      *)
(* another amount, or it expires.                                          *)
Charge(p, result) ==
    /\ invoice' = [invoice EXCEPT ![p] = result]
    /\ UNCHANGED <<session, created, invoices, deposits, run, todo, crashes>>

Pay(p) ==
    /\ session[p].bound
    /\ invoice[p] = "open" \/ (LatePayments /\ invoice[p] = "expired")
    /\ \E result \in {"paid", "mismatched"} : Charge(p, result)
Expire(p) == invoice[p] = "open" /\ Charge(p, "expired")

(***************************************************************************)
(* What an inquiry makes of the invoice.  Tetraminator: paid or unknown,   *)
(* where a payment with another amount is recorded as failed.  The polled  *)
(* gateways: an ended invoice has failed, another amount stays unsettled.  *)
(***************************************************************************)
Verdict(p) ==
    CASE invoice[p] = "paid" -> "succeeded"
      [] invoice[p] = "mismatched" /\ p \in Tetraminator -> "failed"
      [] invoice[p] = "expired" /\ p \notin Tetraminator -> "failed"
      [] OTHER -> "unsettled"

-----------------------------------------------------------------------------
(* Fault: a row that SUCCEEDED without credit is not listed. *)
FaultListed(j) ==
    {p \in Payments : GatewayOf(p) = j /\ session[p].bound /\ session[p].status = "pending"}

(* The reconciliation jobs: the bound rows of the gateway that are         *)
(* PENDING, or SUCCEEDED without credit; of these the oldest Limit.        *)
Listed(j) ==
    {p \in Payments : /\ GatewayOf(p) = j /\ session[p].bound
                      /\ session[p].status \in {"pending", "succeeded"} /\ ~session[p].credited}

Oldest(rows) == {p \in rows : Cardinality({q \in rows : created[q] < created[p]}) < Limit}

ListPending(j) ==
    /\ At(j, "idle") /\ todo[j] = {} /\ Listed(j) # {}
    /\ todo' = [todo EXCEPT ![j] = Oldest(Listed(j))]
    /\ UNCHANGED <<session, created, gateway, deposits, run, crashes>>

Visit(j) ==
    /\ At(j, "idle")
    /\ \E p \in todo[j] :
          /\ \A q \in todo[j] : created[p] <= created[q]
          /\ Begin(j, p, "inquire", NoRow)
          /\ todo' = [todo EXCEPT ![j] = @ \ {p}]
    /\ UNCHANGED <<session, created, gateway, deposits, crashes>>

(***************************************************************************)
(* The gateway's callback and the customer's check look at the row first:  *)
(* a pending one is inquired about, one that succeeded is settled again.   *)
(***************************************************************************)
Check(w, p) ==
    /\ At(w, "idle") /\ session[p].bound
    /\ \/ session[p].status = "pending" /\ Begin(w, p, "inquire", NoRow)
       \/ session[p].status = "succeeded" /\ Begin(w, p, "succeeded", NoRow)
    /\ UNCHANGED <<session, created, gateway, deposits, todo, crashes>>

(* The inquiry fails or is answered with what the gateway knows now. *)
Inquire(w) ==
    /\ At(w, "inquire")
    /\ IF Verdict(Mine(w)) = "unsettled" THEN Done(w) ELSE Goto(w, Verdict(Mine(w)))
    /\ UNCHANGED <<session, created, gateway, deposits, todo, crashes>>
InquiryFails(w) ==
    /\ At(w, "inquire") /\ Done(w)
    /\ UNCHANGED <<session, created, gateway, deposits, todo, crashes>>

(***************************************************************************)
(* PaymentWebhookService.process_callback reads the row again.  A replay   *)
(* changes nothing, a final status refuses the other verdict, a success    *)
(* that was not credited is settled.                                       *)
(***************************************************************************)
ReadSucceeded(w) ==
    LET row == session[Mine(w)] IN
    /\ At(w, "succeeded")
    /\ IF row.status = "pending" \/ (row.status = "succeeded" /\ ~row.credited)
         THEN Begin(w, Mine(w), "claim", [row EXCEPT !.status = "succeeded"])
         ELSE Done(w)
    /\ UNCHANGED <<session, created, gateway, deposits, todo, crashes>>

(* Fault: the failure is parked in a status that has no way out. *)
FaultReadFailed(w) ==
    /\ At(w, "failed")
    /\ Begin(w, Mine(w), "fail", [session[Mine(w)] EXCEPT !.status = "manual_review"])
    /\ UNCHANGED <<session, created, gateway, deposits, todo, crashes>>

ReadFailed(w) ==
    LET row == session[Mine(w)] IN
    /\ At(w, "failed")
    /\ IF row.status = "pending"
         THEN Begin(w, Mine(w), "fail", [row EXCEPT !.status = "failed"])
         ELSE Done(w)
    /\ UNCHANGED <<session, created, gateway, deposits, todo, crashes>>

RecordFailure(w) ==
    /\ At(w, "fail") /\ Save(w, run[w].row, "idle")
    /\ UNCHANGED <<created, gateway, deposits, todo, crashes>>

(* Fault: the deposit is posted before the success is stored. *)
FaultClaim(w) ==
    /\ At(w, "claim") /\ Goto(w, "deposit")
    /\ UNCHANGED <<session, created, gateway, deposits, todo, crashes>>

(***************************************************************************)
(* _credit: the success is claimed under the row lock, the wallet's        *)
(* credit_deposit posts under the deposit key once, the marker follows.    *)
(***************************************************************************)
Claim(w) ==
    /\ At(w, "claim") /\ Save(w, run[w].row, "deposit")
    /\ UNCHANGED <<created, gateway, deposits, todo, crashes>>

Deposit(w) ==
    /\ At(w, "deposit") /\ Goto(w, "mark")
    /\ deposits' = deposits \cup {Mine(w)}
    /\ UNCHANGED <<session, created, gateway, todo, crashes>>

MarkCredited(w) ==
    /\ At(w, "mark") /\ Save(w, [run[w].row EXCEPT !.credited = TRUE], "idle")
    /\ UNCHANGED <<created, gateway, deposits, todo, crashes>>

-----------------------------------------------------------------------------
(* A killed process forgets where it stood; a job's pass is over.          *)
Crash(w) ==
    /\ ~At(w, "idle") /\ crashes < MaxCrashes
    /\ crashes' = crashes + 1 /\ Done(w)
    /\ todo' = [j \in Jobs |-> IF j = w THEN {} ELSE todo[j]]
    /\ UNCHANGED <<session, created, gateway, deposits>>

Settle(w) ==
    \/ Inquire(w) \/ InquiryFails(w) \/ ReadSucceeded(w) \/ ReadFailed(w)
    \/ RecordFailure(w) \/ Claim(w) \/ Deposit(w) \/ MarkCredited(w)

Next ==
    \/ \E c \in Clicks : (\E p \in Payments : Click(c, p)) \/ Insert(c) \/ Post(c) \/ Bind(c)
    \/ \E p \in Payments : Pay(p) \/ Expire(p)
    \/ \E j \in Jobs : ListPending(j) \/ Visit(j) \/ Settle(j)
    \/ \E w \in Checks : (\E p \in Payments : Check(w, p)) \/ Settle(w)
    \/ \E w \in Procs : Crash(w)

Spec == Init /\ [][Next]_vars

(***************************************************************************)
(* The cron starts every job again and again, a pass that has begun goes   *)
(* on, an inquiry does not fail every time.                                *)
(***************************************************************************)
Fairness ==
    \A j \in Jobs :
        /\ WF_vars(ListPending(j)) /\ WF_vars(Visit(j)) /\ WF_vars(Settle(j))
        /\ SF_vars(Inquire(j))

FairSpec == Spec /\ Fairness

-----------------------------------------------------------------------------
(* Properties.                                                             *)

TypeOK ==
    /\ session \in [Payments -> Row] /\ created \in [Payments -> Nat]
    /\ invoice \in [Payments -> {"none", "open", "paid", "mismatched", "expired"}]
    /\ invoices \in [Payments -> Nat] /\ deposits \subseteq Payments
    /\ run \in [Procs -> Pass \cup {Idle}] /\ todo \in [Jobs -> SUBSET Payments]
    /\ crashes \in 0..MaxCrashes

(* However many clicks, replays, lost answers and crashes: one invoice. *)
InvoicedOnce == \A p \in Payments : invoices[p] <= 1

(* Money enters the wallet only for an invoice paid in full, only after    *)
(* the session is SUCCEEDED, and a session marked credited has its         *)
(* deposit, whichever processes settle it and wherever they are killed.    *)
CreditedIsPaid ==
    \A p \in Payments :
        /\ p \in deposits => session[p].status = "succeeded" /\ invoice[p] = "paid"
        /\ session[p].credited => p \in deposits

(* A verdict is final: neither a verdict, nor a binding, nor the credit    *)
(* marker is taken back by a process that read the row before.             *)
VerdictsFinal ==
    [][\A p \in Payments :
          /\ session[p].status \in Final => session'[p].status = session[p].status
          /\ session[p].bound => session'[p].bound
          /\ session[p].credited => session'[p].credited]_vars

(* The safety net: an invoice paid in full whose session did not fail      *)
(* first is credited in the end, though the callback never comes.          *)
PaidIsCredited ==
    \A p \in Payments :
        (invoice[p] = "paid") ~> (session[p].credited \/ session[p].status = "failed")
=============================================================================

----------------------- MODULE PaymentSessionsProofs -----------------------
(***************************************************************************)
(* Theorems about PaymentSessions, for any number of top-ups, clicks,      *)
(* callbacks and crashes and any limit of a pass.                          *)
(*                                                                         *)
(* The properties are not inductive: whether a save, a claim or a deposit  *)
(* is right depends on what the process knew when it began.  Inv adds what *)
(* each process may rely on at each of its steps.                          *)
(***************************************************************************)
EXTENDS PaymentSessions, FiniteSetTheorems, TLAPS

(* The rows: an unbound row was never settled, a verdict "succeeded" and a *)
(* credit marker have their cause.                                         *)
RowOK(p) ==
    /\ session[p].status = "none" => session[p] = NoRow
    /\ ~session[p].bound => session[p] \in {NoRow, NewRow}
    /\ session[p].status = "succeeded" => invoice[p] = "paid"
    /\ session[p].credited => p \in deposits
    /\ p \in deposits => session[p].status = "succeeded"

(* One invoice at most, and none before there is a row. *)
InvoiceOK(p) ==
    /\ invoices[p] <= 1
    /\ session[p].status = "none" => invoices[p] = 0

(* A process of start: its row is fresh, and before the POST there is no   *)
(* invoice.                                                                *)
Starting(w) ==
    /\ run[w].step \in {"insert", "post", "bind"} => run[w].row = NewRow
    /\ run[w].step \in {"post", "bind"} => session[Mine(w)] = NewRow
    /\ run[w].step = "post" => invoices[Mine(w)] = 0

(* Only the process that inserted the row invoices and binds it. *)
Owns(w) == run[w].step \in {"post", "bind"}
OneOwner == \A v, w \in Procs : Owns(v) /\ Owns(w) /\ Mine(v) = Mine(w) => v = w

(* A process that settles: the row is bound, a success was read from a     *)
(* paid invoice, the deposit comes after the claim and before the marker.  *)
Settling(w) ==
    /\ run[w].step \in {"inquire", "succeeded", "failed", "fail", "claim", "deposit", "mark"}
          => session[Mine(w)].bound
    /\ run[w].step \in {"succeeded", "claim", "deposit", "mark"} => invoice[Mine(w)] = "paid"
    /\ run[w].step = "claim" =>
          run[w].row.status = "succeeded" /\ run[w].row.bound /\ ~run[w].row.credited
    /\ run[w].step = "fail" =>
          run[w].row.status = "failed" /\ run[w].row.bound /\ ~run[w].row.credited
    /\ run[w].step \in {"deposit", "mark"} =>
          /\ session[Mine(w)].status = "succeeded"
          /\ run[w].row.status = "succeeded" /\ run[w].row.bound
    /\ run[w].step = "mark" => Mine(w) \in deposits

(* What a job has listed stays bound until it is visited. *)
Due == \A j \in Jobs : \A p \in todo[j] : session[p].bound

Inv ==
    /\ TypeOK /\ Due
    /\ \A p \in Payments : RowOK(p) /\ InvoiceOK(p)
    /\ \A w \in Procs : Starting(w) /\ Settling(w)
    /\ OneOwner

LEMMA InvInit == Init => Inv
BY ParametersOK DEF Init, Inv, TypeOK, Due, RowOK, InvoiceOK, Starting, Settling, OneOwner, Owns, Mine,
    Idle, NoRow, NewRow, Row, Final, Pass, Steps, Procs, Jobs

-----------------------------------------------------------------------------
(* A process that is not idle works on a payment. *)
LEMMA Busy ==
    ASSUME TypeOK, NEW w \in Procs, ~At(w, "idle")
    PROVE  run[w] \in Pass /\ Mine(w) \in Payments /\ run[w].row \in Row
BY DEF TypeOK, At, Idle, Pass, Mine

LEMMA StampType ==
    ASSUME TypeOK, NEW p \in Payments, Stamp(p)
    PROVE  created' \in [Payments -> Nat]
<1>1. IsFiniteSet({q \in Payments : created[q] # 0})
  BY ParametersOK, FS_Subset
<1>2. Cardinality({q \in Payments : created[q] # 0}) + 1 \in Nat
  BY <1>1, FS_CardinalityType
<1>3. QED
  BY <1>2 DEF Stamp, TypeOK

-----------------------------------------------------------------------------
(* Steps that change no row. *)

LEMMA ClickStep ==
    ASSUME Inv, NEW c \in Procs, NEW p \in Payments, Click(c, p)
    PROVE  Inv'
BY DEF Inv, TypeOK, Due, RowOK, InvoiceOK, Starting, Settling, OneOwner, Owns, Mine, At, Click, Begin,
       Pass, Steps, Row, NewRow, Final, Idle, gateway

(* The POST made an invoice: its process was the only owner of a payment   *)
(* without one, and only that process goes on to bind it.                  *)
LEMMA PostStep ==
    ASSUME Inv, NEW c \in Procs, Post(c)
    PROVE  Inv'
<1> DEFINE p == Mine(c)
<1>1. p \in Payments /\ run[c] \in Pass /\ run[c].step = "post"
  BY Busy DEF Inv, Post, At
<1>2. session[p] = NewRow /\ invoices[p] = 0 /\ run[c].row = NewRow
  BY <1>1 DEF Inv, Starting
<1>3. TypeOK'
  BY <1>1 DEF Inv, TypeOK, Post, Goto, Done, Mine, Pass, Steps, Idle, gateway
<1>4. /\ run' \in [Procs -> Pass \cup {Idle}]
      /\ run'[c] = Idle \/ run'[c] = [run[c] EXCEPT !.step = "bind"]
      /\ \A w \in Procs \ {c} : run'[w] = run[w]
      /\ UNCHANGED <<session, deposits>>
  BY <1>1, <1>3 DEF Inv, TypeOK, Post, Goto, Done
<1>5. /\ invoices'[p] \in {0, 1}
      /\ \A q \in Payments \ {p} : invoices'[q] = invoices[q] /\ invoice'[q] = invoice[q]
  BY <1>1, <1>2 DEF Inv, TypeOK, Post, gateway
<1>6. \A q \in Payments : (RowOK(q) /\ InvoiceOK(q))'
  BY <1>2, <1>4, <1>5 DEF Inv, RowOK, InvoiceOK, NewRow
<1>7. \A w \in Procs \ {c} : (Starting(w) /\ Settling(w))'
  <2> SUFFICES ASSUME NEW w \in Procs \ {c}
               PROVE  (Starting(w) /\ Settling(w))'
    OBVIOUS
  <2>1. run'[w] = run[w] /\ (run[w].step = "post" => Mine(w) # p)
    BY <1>1, <1>4 DEF Inv, OneOwner, Owns
  <2>2. run[w] \in Pass \/ run[w] = Idle
    BY DEF Inv, TypeOK
  <2>3. Starting(w)'
    BY <1>4, <1>5, <2>1, <2>2 DEF Inv, Starting, Mine, Pass, Idle
  <2>4. Settling(w)'
    BY <1>2, <1>4, <1>5, <2>1, <2>2 DEF Inv, Settling, Mine, Pass, Idle, NewRow
  <2>5. QED
    BY <2>3, <2>4
<1>8. (Starting(c) /\ Settling(c))'
  BY <1>1, <1>2, <1>4 DEF Starting, Settling, Mine, Idle, Pass
<1>9. OneOwner'
  BY <1>1, <1>4 DEF Inv, OneOwner, Owns, Mine, Idle, Pass
<1>10. Due'
  BY <1>4 DEF Inv, Due, Post
<1>11. QED
  BY <1>3, <1>6, <1>7, <1>8, <1>9, <1>10 DEF Inv

(* The insert: the first of several clicks becomes the one owner. *)
LEMMA InsertStep ==
    ASSUME Inv, NEW c \in Procs, Insert(c)
    PROVE  Inv'
<1> DEFINE p == Mine(c)
<1>1. p \in Payments /\ run[c] \in Pass /\ run[c].step = "insert" /\ run[c].row = NewRow
  BY Busy DEF Inv, Insert, At, Starting
<1>2. CASE session[p].status # "none"
  <2>1. /\ run' = [run EXCEPT ![c] = Idle]
        /\ UNCHANGED <<session, created, invoice, invoices, deposits, todo, crashes>>
    BY <1>2 DEF Insert, Done, gateway
  <2>2. QED
    BY <2>1 DEF Inv, TypeOK, Due, RowOK, InvoiceOK, Starting, Settling, OneOwner, Owns, Mine, Idle,
              Pass
<1>3. CASE session[p].status = "none"
  <2>1. /\ session' = [session EXCEPT ![p] = NewRow]
        /\ Stamp(p)
        /\ run' = [run EXCEPT ![c].step = "post"]
        /\ UNCHANGED <<invoice, invoices, deposits, todo, crashes>>
    BY <1>3 DEF Insert, Goto, gateway
  <2>2. TypeOK'
    <3>1. created' \in [Payments -> Nat]
      BY <1>1, <2>1, StampType DEF Inv
    <3>2. QED
      BY <1>1, <2>1, <3>1 DEF Inv, TypeOK, Pass, Steps, Row, NewRow, Final
  <2>3. /\ session[p] = NoRow /\ invoices[p] = 0 /\ p \notin deposits
        /\ session'[p] = NewRow
        /\ \A q \in Payments \ {p} : session'[q] = session[q]
    BY <1>1, <1>3, <2>1 DEF Inv, TypeOK, RowOK, InvoiceOK
  <2>4. run'[c] = [run[c] EXCEPT !.step = "post"] /\ \A w \in Procs \ {c} : run'[w] = run[w]
    BY <1>1, <2>1 DEF Inv, TypeOK
  <2>5. \A q \in Payments : (RowOK(q) /\ InvoiceOK(q))'
    BY <2>1, <2>3 DEF Inv, RowOK, InvoiceOK, NewRow
  <2>6. \A w \in Procs : Owns(w) => Mine(w) # p
    BY <1>3 DEF Inv, Owns, Starting, NewRow
  <2>7. (Starting(c) /\ Settling(c))'
    BY <1>1, <2>1, <2>3, <2>4 DEF Starting, Settling, Mine, Pass
  <2>8. \A w \in Procs \ {c} : (Starting(w) /\ Settling(w))'
    <3> SUFFICES ASSUME NEW w \in Procs \ {c}
                 PROVE  (Starting(w) /\ Settling(w))'
      OBVIOUS
    <3>1. run'[w] = run[w] /\ (run[w] \in Pass \/ run[w] = Idle)
      BY <2>4 DEF Inv, TypeOK
    <3>2. Starting(w)'
      BY <2>1, <2>3, <2>6, <3>1 DEF Inv, Starting, Owns, Mine, Pass, Idle
    <3>3. Settling(w)'
      BY <2>1, <2>3, <3>1 DEF Inv, Settling, Mine, Pass, Idle, NoRow
    <3>4. QED
      BY <3>2, <3>3
  <2>9. OneOwner'
    BY <1>1, <2>4, <2>6 DEF Inv, OneOwner, Owns, Mine, Pass
  <2>10. Due'
    BY <2>1, <2>3 DEF Inv, TypeOK, Due, NoRow
  <2>11. QED
    BY <2>2, <2>5, <2>7, <2>8, <2>9, <2>10 DEF Inv
<1>4. QED
  BY <1>2, <1>3

-----------------------------------------------------------------------------
(* Steps of the gateway. *)

(* The gateway moves only invoices that are not paid. *)
LEMMA ChargeStep ==
    ASSUME Inv, NEW p \in Payments, invoice[p] # "paid",
           NEW result \in {"paid", "mismatched", "expired"}, Charge(p, result)
    PROVE  Inv'
BY DEF Inv, TypeOK, Due, RowOK, InvoiceOK, Starting, Settling, OneOwner, Owns, Mine, Charge, Pass, Idle

-----------------------------------------------------------------------------
(* Steps that only move one process: it ends, or it goes on with a step    *)
(* that Settling allows.                                                   *)

Moves(w) ==
    /\ run' = [run EXCEPT ![w] = run'[w]]
    /\ run'[w] \in Pass \cup {Idle}
    /\ ~Owns(w)' /\ run'[w].step # "insert"
    /\ Settling(w)'
    /\ UNCHANGED <<session, created, invoice, invoices, deposits>>

LEMMA MoveStep ==
    ASSUME Inv, NEW w \in Procs, Moves(w),
           todo' \in [Jobs -> SUBSET Payments],
           \A j \in Jobs : \A p \in todo'[j] : session[p].bound,
           crashes' \in 0..MaxCrashes
    PROVE  Inv'
BY DEF Inv, TypeOK, Due, RowOK, InvoiceOK, Starting, Settling, OneOwner, Owns, Mine, Moves, Pass, Idle

-----------------------------------------------------------------------------
(* Saves.  Whatever row the object in memory holds, a save that is not     *)
(* refused leaves the stored verdict, binding and credit marker in place.  *)

Grows(old, new) ==
    /\ old.status \in Final => new.status = old.status
    /\ old.bound => new.bound
    /\ old.credited => new.credited

LEMMA SaveGrows ==
    ASSUME TypeOK, NEW w \in Procs, Mine(w) \in Payments, NEW new \in Row, Savable(w, new)
    PROVE  LET saved == Merged(session[Mine(w)], new)
           IN  saved \in Row /\ Grows(session[Mine(w)], saved)
BY DEF TypeOK, Savable, Merged, Grows, Row

(* A verdict, a claim or a marker is saved by a process that settles.      *)
LEMMA SettlingSave ==
    ASSUME Inv, NEW w \in Procs, NEW p \in Payments, Mine(w) = p,
           run[w] \in Pass, ~Owns(w), session[p].bound,
           NEW new \in Row, new.bound, new.status \in Final,
           new.status = "succeeded" => invoice[p] = "paid",
           new.credited => p \in deposits,
           NEW step \in {"idle", "deposit"}, step = "deposit" => new.status = "succeeded",
           Save(w, new, step),
           UNCHANGED <<created, invoice, invoices, deposits, todo, crashes>>
    PROVE  Inv' /\ Grows(session[p], session'[p])
<1> DEFINE saved == Merged(session[p], new)
<1>1. CASE ~Savable(w, new)
  <2>1. run' = [run EXCEPT ![w] = Idle] /\ UNCHANGED session
    BY <1>1 DEF Save, Done
  <2>2. Moves(w)
    BY <2>1 DEF Inv, TypeOK, Moves, Owns, Settling, Idle
  <2>3. QED
    BY <2>1, <2>2, MoveStep DEF Inv, TypeOK, Due, Grows
<1>2. CASE Savable(w, new)
  <2>1. /\ session' = [session EXCEPT ![p] = saved]
        /\ saved \in Row /\ Grows(session[p], saved)
    BY <1>2, SaveGrows DEF Inv, Save
  <2>2. run' = [run EXCEPT ![w] = IF step = "idle" THEN Idle
                    ELSE [step |-> step, payment |-> p, row |-> saved]]
    BY <1>2 DEF Save, Done, Begin
  <2>3. session[p] \in Row /\ session \in [Payments -> Row] /\ run \in [Procs -> Pass \cup {Idle}]
    BY DEF Inv, TypeOK
  <2>4. /\ saved.bound /\ saved.status = new.status
        /\ saved.credited => p \in deposits
    BY <1>2, <2>3 DEF Inv, RowOK, Savable, Merged, Final
  <2>5. TypeOK'
    BY <2>1, <2>2, <2>3 DEF Inv, TypeOK, Pass, Steps
  <2>6. session'[p] = saved /\ \A q \in Payments \ {p} : session'[q] = session[q]
    BY <2>1, <2>3
  <2>7. \A v \in Procs \ {w} : run'[v] = run[v]
    BY <2>2, <2>3
  <2>8. RowOK(p)'
    BY <2>1, <2>4, <2>6 DEF Inv, RowOK, Grows, Final
  <2>9. InvoiceOK(p)'
    BY <2>4, <2>6 DEF Inv, InvoiceOK, Final
  <2>10. \A q \in Payments \ {p} : (RowOK(q) /\ InvoiceOK(q))'
    BY <2>6 DEF Inv, RowOK, InvoiceOK
  <2>11. (Starting(w) /\ Settling(w))'
    BY <2>2, <2>3, <2>4, <2>6 DEF Starting, Settling, Mine, Idle
  <2>12. \A v \in Procs : Owns(v) => Mine(v) # p
    BY DEF Inv, Owns, Starting, NewRow
  <2>13. \A v \in Procs \ {w} : (Starting(v) /\ Settling(v))'
    <3> SUFFICES ASSUME NEW v \in Procs \ {w}
                 PROVE  (Starting(v) /\ Settling(v))'
      OBVIOUS
    <3>1. run'[v] = run[v] /\ (run[v] \in Pass \/ run[v] = Idle)
      BY <2>3, <2>7
    <3>2. Starting(v)'
      BY <2>6, <2>12, <3>1 DEF Inv, Starting, Owns, Mine, Pass, Idle
    <3>3. Settling(v)'
      BY <2>1, <2>6, <3>1 DEF Inv, Settling, Grows, Final, Mine, Pass, Idle
    <3>4. QED
      BY <3>2, <3>3
  <2>14. OneOwner'
    BY <2>2, <2>3, <2>7 DEF Inv, OneOwner, Owns, Mine, Idle
  <2>15. Due'
    BY <2>4, <2>6 DEF Inv, TypeOK, Due
  <2>16. QED
    BY <2>1, <2>5, <2>6, <2>8, <2>9, <2>10, <2>11, <2>13, <2>14, <2>15 DEF Inv
<1>3. QED
  BY <1>1, <1>2

(* The binding is stored on a row that nobody else has touched.            *)
LEMMA BindStep ==
    ASSUME Inv, NEW c \in Procs, NEW p \in Payments, Mine(c) = p, Bind(c)
    PROVE  Inv' /\ Grows(session[p], session'[p])
<1> DEFINE bound == [NewRow EXCEPT !.bound = TRUE]
<1>1. /\ run[c].step = "bind" /\ session[p] = NewRow /\ run[c].row = NewRow
      /\ UNCHANGED <<created, invoice, invoices, deposits, todo, crashes>>
      /\ session \in [Payments -> Row] /\ run \in [Procs -> Pass \cup {Idle}]
  BY DEF Inv, TypeOK, Starting, Bind, At, gateway
<1>2. Savable(c, bound) /\ Merged(session[p], bound) = bound
  BY <1>1 DEF Savable, Merged, NewRow, Final
<1>3. session' = [session EXCEPT ![p] = bound] /\ run' = [run EXCEPT ![c] = Idle]
  BY <1>1, <1>2 DEF Bind, Save, Done
<1>4. /\ session'[p] = bound /\ \A q \in Payments \ {p} : session'[q] = session[q]
      /\ run'[c] = Idle /\ \A v \in Procs \ {c} : run'[v] = run[v]
      /\ bound \in Row /\ bound.status = "pending" /\ bound.bound /\ ~bound.credited
  BY <1>1, <1>3 DEF NewRow, Row
<1>5. TypeOK'
  BY <1>1, <1>3, <1>4 DEF Inv, TypeOK
<1>6. \A q \in Payments : (RowOK(q) /\ InvoiceOK(q))'
  BY <1>1, <1>4 DEF Inv, RowOK, InvoiceOK, NewRow
<1>7. \A v \in Procs \ {c} : (Starting(v) /\ Settling(v))'
  <2> SUFFICES ASSUME NEW v \in Procs \ {c}
               PROVE  (Starting(v) /\ Settling(v))'
    OBVIOUS
  <2>1. run'[v] = run[v] /\ (run[v] \in Pass \/ run[v] = Idle) /\ (Owns(v) => Mine(v) # p)
    BY <1>1, <1>4 DEF Inv, OneOwner, Owns
  <2>2. Starting(v)'
    BY <1>1, <1>4, <2>1 DEF Inv, Starting, Owns, Mine, Pass, Idle
  <2>3. Settling(v)'
    BY <1>1, <1>4, <2>1 DEF Inv, Settling, Mine, Pass, Idle, NewRow
  <2>4. QED
    BY <2>2, <2>3
<1>8. (Starting(c) /\ Settling(c))'
  BY <1>4 DEF Starting, Settling, Idle
<1>9. OneOwner'
  BY <1>4 DEF Inv, OneOwner, Owns, Mine, Idle
<1>10. Due'
  BY <1>1, <1>4 DEF Inv, TypeOK, Due
<1>11. QED
  BY <1>1, <1>4, <1>5, <1>6, <1>7, <1>8, <1>9, <1>10 DEF Inv, Grows, NewRow, Final


-----------------------------------------------------------------------------
(* The processes that settle. *)

(* A job lists bound rows and takes one of them. *)
LEMMA ListStep ==
    ASSUME Inv, NEW j \in Jobs, ListPending(j)
    PROVE  Inv'
<1>1. Oldest(Listed(j)) \subseteq {p \in Payments : session[p].bound}
  BY DEF Oldest, Listed
<1>2. QED
  BY <1>1 DEF ListPending, gateway, Inv, TypeOK, Due, RowOK, InvoiceOK, Starting, Settling, OneOwner,
              Owns, Mine

LEMMA VisitStep ==
    ASSUME Inv, NEW j \in Jobs, Visit(j)
    PROVE  Inv'
<1>1. PICK p \in todo[j] : /\ Begin(j, p, "inquire", NoRow)
                           /\ todo' = [todo EXCEPT ![j] = @ \ {p}]
  BY DEF Visit
<1>2. j \in Procs /\ p \in Payments /\ session[p].bound
  BY DEF Inv, TypeOK, Due, Procs
<1>3. UNCHANGED <<session, created, invoice, invoices, deposits, crashes>>
  BY DEF Visit, gateway
<1>4. Moves(j)
  BY <1>1, <1>2, <1>3 DEF Inv, TypeOK, Moves, Begin, Owns, Settling, Mine, Pass, Steps, Row, NoRow
<1>5. /\ todo' \in [Jobs -> SUBSET Payments]
      /\ \A i \in Jobs : \A q \in todo'[i] : session[q].bound
  BY <1>1 DEF Inv, TypeOK, Due
<1>6. QED
  BY <1>2, <1>3, <1>4, <1>5, MoveStep DEF Inv, TypeOK

LEMMA CheckStep ==
    ASSUME Inv, NEW w \in Procs, NEW p \in Payments, Check(w, p)
    PROVE  Inv'
<1>1. PICK step \in {"inquire", "succeeded"} :
         /\ Begin(w, p, step, NoRow)
         /\ step = "succeeded" => session[p].status = "succeeded"
  BY DEF Check
<1>2. session[p].bound /\ UNCHANGED <<session, created, invoice, invoices, deposits, todo, crashes>>
  BY DEF Check, gateway
<1>3. step = "succeeded" => invoice[p] = "paid"
  BY <1>1 DEF Inv, RowOK
<1>4. Moves(w)
  BY <1>1, <1>2, <1>3
     DEF Inv, TypeOK, Moves, Begin, Owns, Settling, Mine, Pass, Steps, Row, NoRow
<1>5. QED
  BY <1>2, <1>4, MoveStep DEF Inv, TypeOK, Due

(* What the gateway answers, and what the callback reads, is what the next *)
(* step relies on.                                                         *)
LEMMA ReadStep ==
    ASSUME Inv, NEW w \in Procs,
           Inquire(w) \/ InquiryFails(w) \/ ReadSucceeded(w) \/ ReadFailed(w)
    PROVE  Inv'
<1>1. /\ run[w] \in Pass /\ Mine(w) \in Payments /\ session[Mine(w)] \in Row
      /\ session[Mine(w)].bound
      /\ UNCHANGED <<session, created, invoice, invoices, deposits, todo, crashes>>
  BY Busy DEF Inv, TypeOK, Settling, Inquire, InquiryFails, ReadSucceeded, ReadFailed, At, gateway
<1>2. CASE Done(w)
  <2>1. Moves(w)
    BY <1>1, <1>2 DEF Inv, TypeOK, Moves, Done, Idle, Owns, Settling
  <2>2. QED
    BY <1>1, <2>1, MoveStep DEF Inv, TypeOK, Due
<1>3. CASE Inquire(w) /\ ~Done(w)
  <2>1. /\ Verdict(Mine(w)) \in {"succeeded", "failed"}
        /\ Verdict(Mine(w)) = "succeeded" => invoice[Mine(w)] = "paid"
        /\ Goto(w, Verdict(Mine(w)))
    BY <1>3 DEF Inquire, Verdict
  <2>2. Moves(w)
    BY <1>1, <2>1 DEF Inv, TypeOK, Moves, Goto, Owns, Settling, Mine, Pass, Steps
  <2>3. QED
    BY <1>1, <2>2, MoveStep DEF Inv, TypeOK, Due
<1>4. CASE ReadSucceeded(w) /\ ~Done(w)
  <2>1. /\ Begin(w, Mine(w), "claim", [session[Mine(w)] EXCEPT !.status = "succeeded"])
        /\ ~session[Mine(w)].credited /\ invoice[Mine(w)] = "paid"
    BY <1>1, <1>4 DEF ReadSucceeded, At, Inv, RowOK, Settling
  <2>2. Moves(w)
    BY <1>1, <2>1 DEF Inv, TypeOK, Moves, Begin, Owns, Settling, Mine, Pass, Steps, Row, Final
  <2>3. QED
    BY <1>1, <2>2, MoveStep DEF Inv, TypeOK, Due
<1>5. CASE ReadFailed(w) /\ ~Done(w)
  <2>1. /\ Begin(w, Mine(w), "fail", [session[Mine(w)] EXCEPT !.status = "failed"])
        /\ ~session[Mine(w)].credited
    BY <1>1, <1>5 DEF ReadFailed, Inv, RowOK
  <2>2. Moves(w)
    BY <1>1, <2>1 DEF Inv, TypeOK, Moves, Begin, Owns, Settling, Mine, Pass, Steps, Row, Final
  <2>3. QED
    BY <1>1, <2>2, MoveStep DEF Inv, TypeOK, Due
<1>6. QED
  BY <1>2, <1>3, <1>4, <1>5 DEF InquiryFails

LEMMA SaveStep ==
    ASSUME Inv, NEW w \in Procs, NEW p \in Payments, Mine(w) = p,
           RecordFailure(w) \/ Claim(w) \/ MarkCredited(w)
    PROVE  Inv' /\ Grows(session[p], session'[p])
<1>1. /\ run[w] \in Pass /\ run[w].row \in Row /\ ~Owns(w) /\ session[p].bound
      /\ Starting(w) /\ Settling(w)
      /\ UNCHANGED <<created, invoice, invoices, deposits, todo, crashes>>
  BY Busy DEF Inv, Settling, Owns, RecordFailure, Claim, MarkCredited, At, gateway
<1>2. CASE RecordFailure(w)
  <2>1. /\ run[w].row.bound /\ run[w].row.status = "failed" /\ ~run[w].row.credited
        /\ Save(w, run[w].row, "idle")
    BY <1>1, <1>2 DEF RecordFailure, At, Settling
  <2>2. QED
    BY <1>1, <2>1, SettlingSave DEF Final
<1>3. CASE Claim(w)
  <2>1. /\ run[w].row.bound /\ run[w].row.status = "succeeded" /\ ~run[w].row.credited
        /\ invoice[p] = "paid" /\ Save(w, run[w].row, "deposit")
    BY <1>1, <1>3 DEF Claim, At, Settling
  <2>2. QED
    BY <1>1, <2>1, SettlingSave DEF Final
<1>4. CASE MarkCredited(w)
  <2> DEFINE marked == [run[w].row EXCEPT !.credited = TRUE]
  <2>1. /\ marked \in Row /\ marked.bound /\ marked.status = "succeeded"
        /\ invoice[p] = "paid" /\ p \in deposits /\ Save(w, marked, "idle")
    BY <1>1, <1>4 DEF MarkCredited, At, Settling, Row
  <2> HIDE DEF marked
  <2>2. QED
    BY <1>1, <2>1, SettlingSave DEF Final
<1>5. QED
  BY <1>2, <1>3, <1>4

(* The deposit follows the claim: its session is SUCCEEDED for good. *)
LEMMA DepositStep ==
    ASSUME Inv, NEW w \in Procs, NEW p \in Payments, Mine(w) = p, Deposit(w)
    PROVE  Inv'
<1>1. /\ run[w] \in Pass /\ run[w].step = "deposit" /\ session[p].status = "succeeded"
      /\ run' = [run EXCEPT ![w].step = "mark"] /\ deposits' = deposits \cup {p}
      /\ UNCHANGED <<session, created, invoice, invoices, todo, crashes>>
  BY Busy DEF Inv, Settling, Deposit, At, Goto, gateway
<1>2. run'[w] = [run[w] EXCEPT !.step = "mark"] /\ \A v \in Procs \ {w} : run'[v] = run[v]
  BY <1>1 DEF Inv, TypeOK
<1>3. TypeOK' /\ Due'
  BY <1>1 DEF Inv, TypeOK, Due, Pass, Steps
<1>4. \A q \in Payments : (RowOK(q) /\ InvoiceOK(q))'
  BY <1>1 DEF Inv, RowOK, InvoiceOK
<1>5. \A v \in Procs : (Starting(v) /\ Settling(v))'
  BY <1>1, <1>2 DEF Inv, Starting, Settling, Mine, Pass
<1>6. OneOwner'
  BY <1>1, <1>2 DEF Inv, OneOwner, Owns, Mine, Pass
<1>7. QED
  BY <1>3, <1>4, <1>5, <1>6 DEF Inv

(* A killed process leaves nothing behind but the stores. *)
LEMMA CrashStep ==
    ASSUME Inv, NEW w \in Procs, Crash(w)
    PROVE  Inv'
<1>1. UNCHANGED <<session, created, invoice, invoices, deposits>> /\ Done(w)
  BY DEF Crash, gateway
<1>2. Moves(w)
  BY <1>1 DEF Inv, TypeOK, Moves, Done, Idle, Owns, Settling
<1>3. /\ todo' \in [Jobs -> SUBSET Payments] /\ crashes' \in 0..MaxCrashes
      /\ \A j \in Jobs : \A p \in todo'[j] : session[p].bound
  BY ParametersOK DEF Inv, TypeOK, Due, Crash
<1>4. QED
  BY <1>1, <1>2, <1>3, MoveStep DEF Inv, TypeOK


-----------------------------------------------------------------------------
(* Every step keeps the invariant, and every session only grows.           *)
LEMMA InvStep ==
    Inv /\ [Next]_vars => Inv' /\ \A p \in Payments : Grows(session[p], session'[p])
<1> DEFINE Growth == \A p \in Payments : Grows(session[p], session'[p])
<1> SUFFICES ASSUME Inv, [Next]_vars
             PROVE  Inv' /\ Growth
  OBVIOUS
<1>1. ASSUME UNCHANGED session
      PROVE  Growth
  BY <1>1 DEF Grows
<1>2. ASSUME NEW w \in Procs, NEW p \in Payments, Mine(w) = p,
             UNCHANGED session \/ \E new, step : Save(w, new, step),
             Grows(session[p], session'[p])
      PROVE  Growth
  BY <1>2 DEF Save, Grows, Inv, TypeOK
<1>3. ASSUME NEW c \in Clicks, Insert(c)
      PROVE  Growth
  BY <1>3 DEF Insert, Grows, Final, Inv, TypeOK, RowOK, NoRow
<1> HIDE DEF Growth
<1>4. ASSUME NEW w \in Procs, Settle(w)
      PROVE  Inv' /\ Growth
  <2>1. CASE Inquire(w) \/ InquiryFails(w) \/ ReadSucceeded(w) \/ ReadFailed(w)
    BY <1>1, <2>1, ReadStep DEF Inquire, InquiryFails, ReadSucceeded, ReadFailed
  <2>2. CASE RecordFailure(w) \/ Claim(w) \/ MarkCredited(w)
    <3>1. PICK p \in Payments : Mine(w) = p
      BY <2>2, Busy DEF Inv, RecordFailure, Claim, MarkCredited, At
    <3>2. Inv' /\ Grows(session[p], session'[p])
      BY <2>2, <3>1, SaveStep
    <3>3. \E new, step : Save(w, new, step)
      BY <2>2 DEF RecordFailure, Claim, MarkCredited
    <3>4. QED
      BY <1>2, <3>1, <3>2, <3>3
  <2>3. CASE Deposit(w)
    <3>1. PICK p \in Payments : Mine(w) = p
      BY <2>3, Busy DEF Inv, Deposit, At
    <3>2. UNCHANGED session
      BY <2>3 DEF Deposit
    <3>3. QED
      BY <1>1, <2>3, <3>1, <3>2, DepositStep
  <2>4. QED
    BY <1>4, <2>1, <2>2, <2>3 DEF Settle
<1>5. CASE \E c \in Clicks : (\E p \in Payments : Click(c, p)) \/ Insert(c) \/ Post(c) \/ Bind(c)
  <2>1. PICK c \in Clicks : (\E p \in Payments : Click(c, p)) \/ Insert(c) \/ Post(c) \/ Bind(c)
    BY <1>5
  <2>2. c \in Procs
    BY DEF Procs
  <2>3. ASSUME NEW p \in Payments, Click(c, p)
        PROVE  Inv' /\ Growth
    BY <1>1, <2>2, <2>3, ClickStep DEF Click
  <2>4. CASE Insert(c)
    BY <1>3, <2>2, <2>4, InsertStep
  <2>5. CASE Post(c)
    BY <1>1, <2>2, <2>5, PostStep DEF Post
  <2>6. CASE Bind(c)
    <3>1. PICK p \in Payments : Mine(c) = p
      BY <2>2, <2>6, Busy DEF Inv, Bind, At
    <3>2. Inv' /\ Grows(session[p], session'[p])
      BY <2>2, <2>6, <3>1, BindStep
    <3>3. \E new, step : Save(c, new, step)
      BY <2>6 DEF Bind
    <3>4. QED
      BY <1>2, <2>2, <3>1, <3>2, <3>3
  <2>7. QED
    BY <2>1, <2>3, <2>4, <2>5, <2>6
<1>6. CASE \E p \in Payments : Pay(p) \/ Expire(p)
  <2>1. PICK p \in Payments, result \in {"paid", "mismatched", "expired"} :
           invoice[p] # "paid" /\ Charge(p, result)
    BY <1>6 DEF Pay, Expire
  <2>2. QED
    BY <1>1, <2>1, ChargeStep DEF Charge
<1>7. CASE \E j \in Jobs : ListPending(j) \/ Visit(j) \/ Settle(j)
  <2>1. PICK j \in Jobs : ListPending(j) \/ Visit(j) \/ Settle(j)
    BY <1>7
  <2>2. CASE ListPending(j)
    BY <1>1, <2>2, ListStep DEF ListPending
  <2>3. CASE Visit(j)
    BY <1>1, <2>3, VisitStep DEF Visit
  <2>4. CASE Settle(j)
    BY <1>4, <2>4 DEF Procs
  <2>5. QED
    BY <2>1, <2>2, <2>3, <2>4
<1>8. CASE \E w \in Checks : (\E p \in Payments : Check(w, p)) \/ Settle(w)
  <2>1. PICK w \in Checks : (\E p \in Payments : Check(w, p)) \/ Settle(w)
    BY <1>8
  <2>2. w \in Procs
    BY DEF Procs
  <2>3. ASSUME NEW p \in Payments, Check(w, p)
        PROVE  Inv' /\ Growth
    BY <1>1, <2>2, <2>3, CheckStep DEF Check
  <2>4. QED
    BY <1>4, <2>1, <2>2, <2>3
<1>9. CASE \E w \in Procs : Crash(w)
  BY <1>1, <1>9, CrashStep DEF Crash
<1>10. CASE UNCHANGED vars
  <2>1. UNCHANGED session
    BY <1>10 DEF vars
  <2>2. Inv'
    BY <1>10 DEF vars, gateway, Inv, TypeOK, Due, RowOK, InvoiceOK, Starting, Settling, OneOwner,
                 Owns, Mine
  <2>3. QED
    BY <1>1, <2>1, <2>2
<1>11. QED
  BY <1>5, <1>6, <1>7, <1>8, <1>9, <1>10 DEF Next

-----------------------------------------------------------------------------
(* Rows, invoices, deposits and the objects that the processes hold in     *)
(* memory keep their types, through every save, crash and reconciliation   *)
(* pass.                                                                   *)
THEOREM TypeCorrect == Spec => []TypeOK
<1>1. Inv => TypeOK
  BY DEF Inv
<1>2. QED
  BY InvInit, InvStep, <1>1, PTL DEF Spec

(* WalletRechargeService.start asks the gateway for one invoice per        *)
(* payment, whatever clicks race and whichever answer is lost.             *)
THEOREM OneInvoice == Spec => []InvoicedOnce
<1>1. Inv => InvoicedOnce
  BY DEF Inv, InvoiceOK, InvoicedOnce
<1>2. QED
  BY InvInit, InvStep, <1>1, PTL DEF Spec

(* _credit deposits only what the gateway reported paid, only under a      *)
(* stored success, and marks a session credited only after its deposit.    *)
THEOREM CreditsArePaid == Spec => []CreditedIsPaid
<1>1. Inv => CreditedIsPaid
  BY DEF Inv, RowOK, CreditedIsPaid
<1>2. QED
  BY InvInit, InvStep, <1>1, PTL DEF Spec

(* SqlAlchemyPaymentSessionRepository.save never takes back a verdict, a   *)
(* binding or a credit marker, though every caller saves a whole row that  *)
(* it read in an earlier transaction.                                      *)
THEOREM NothingTakenBack == Spec => VerdictsFinal
<1>1. Inv /\ [Next]_vars =>
         [\A p \in Payments :
            /\ session[p].status \in Final => session'[p].status = session[p].status
            /\ session[p].bound => session'[p].bound
            /\ session[p].credited => session'[p].credited]_vars
  BY InvStep DEF Grows
<1>2. QED
  BY InvInit, InvStep, <1>1, PTL DEF Spec, VerdictsFinal

=============================================================================

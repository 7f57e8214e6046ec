-------------------------- MODULE HourlyCreateProofs --------------------------
(***************************************************************************)
(* Theorems about HourlyCreate, for any accounts, confirmations and        *)
(* passes, and any number of claim generations and crashes.                *)
(*                                                                         *)
(* The receipts (the phase of every account, in the operation row) carry   *)
(* the argument: they are written before an account is asked, and what a   *)
(* pass that has slept through its claim can still do is bounded by them.  *)
(***************************************************************************)
EXTENDS HourlyCreate, TLAPS

Passes == Clicks \cup Staff
Places == {"price", "quote", "hold", "operation", "audit", "quarantine", "release", "claim",
           "select", "post", "unknown", "accept", "complete", "fail", "find", "resume"}
Server == [state : {"none", "requested", "provisioning", "error"},
           machine : Accounts \cup {None}, account : Accounts \cup {None}]

(* An account that may hold the machine, and one that has said no. *)
Holding == {"sent", "outcome_unknown", "accepted"}
Holders(o) == {a \in Accounts : o.phase[a] \in Holding}
Refusers(o) == {a \in Accounts : o.phase[a] \in {"capacity_refused", "refused"}}

-----------------------------------------------------------------------------
(* The inductive invariant. *)

RowsOK ==
    /\ prepaid \in BOOLEAN /\ priced \in BOOLEAN
    /\ server \in Server
    /\ quote \in {"none", "fresh", "expired"}
    /\ hold \in {"none", "created", "captured", "released"}
    /\ op \in Operation
    /\ posts \in [Accounts -> 0..2] /\ built \subseteq Accounts
    /\ crashes \in 0..MaxCrashes

(* Before the first confirmation there is nothing. *)
Fresh ==
    server.state = "none" =>
        /\ server.machine = None /\ hold = "none" /\ op.status = "none"
        /\ \A p \in Passes : run[p] = Idle

(* The receipts: one attempt is open at most, none while the operation     *)
(* waits for a pass, none but a refusal once it has failed.                *)
OpOK(o) ==
    /\ \A a, b \in Open(o) : a = b
    /\ o.status \in {"none", "pending"} => Open(o) = {}
    /\ o.status = "failed" => \A a \in Open(o) : o.phase[a] = "refused"

(* The server row names the account of the open attempt; what an account   *)
(* took on, once, has a receipt that says so or leaves it open.            *)
Requested ==
    /\ \A a \in Open(op) : server.account = a
    /\ \A a \in Accounts : posts[a] <= 1 /\ (posts[a] > 0 => op.phase[a] \in Holding)
    /\ \A a \in built : posts[a] > 0

(* The first hour of a prepaid order. *)
MoneyOK ==
    prepaid =>
        /\ hold = "captured" => server.machine # None
        /\ hold = "released" => op.status = "failed"
        /\ op.status \in {"in_flight", "outcome_unknown", "completed"} => hold # "none"
        /\ server.state = "error" => op.status = "failed"

(* What a pass may rely on, however long it sleeps: the account it is      *)
(* about to ask has not been asked by anyone else.                         *)
Knows(r) ==
    /\ r.at \in {"post", "unknown", "accept", "find"} => r.account \in Accounts
    /\ r.at = "post" => posts[r.account] = 0 /\ op.phase[r.account] \in {"sent", "outcome_unknown"}
    /\ r.at = "accept" => r.account \in built
    /\ r.at = "claim" /\ prepaid => hold # "none"
    /\ r.at = "quarantine" => ~prepaid
    /\ r.at = "release" /\ prepaid => op.status = "failed"
Apart ==
    \A p, q \in Passes :
        run[p].at = "post" /\ run[q].at = "post" /\ run[p].account = run[q].account => p = q

Inv ==
    /\ TypeOK /\ Fresh /\ OpOK(op) /\ Requested /\ MoneyOK /\ Apart
    /\ \A p \in Passes : Knows(run[p])

(* What a step does to the purchase as the pool promises it. *)
SameAttempts == Holders(op') = Holders(op) /\ Refusers(op') = Refusers(op) /\ posts' = posts
SameMachine == server'.machine = server.machine
SamePurchase == SameAttempts /\ SameMachine
Effect ==
    /\ prepaid' = prepaid
    /\ \/ hold' = hold /\ SamePurchase
       \/ hold = "none" /\ hold' = "created" /\ SamePurchase
       \/ /\ hold = "created" /\ hold' = "captured" /\ SamePurchase
          /\ server.machine # None
       \/ /\ hold = "created" /\ hold' = "released" /\ SamePurchase
          /\ prepaid => Holders(op) = {}
       \/ ~prepaid /\ hold' = hold /\ SameAttempts /\ server'.machine = None
       \/ \E a \in Accounts :
            /\ hold' = hold
            /\ \/ /\ Holders(op) = {} /\ a \notin Refusers(op) /\ (prepaid => hold = "created")
                  /\ Holders(op') = {a} /\ Refusers(op') = Refusers(op) /\ posts' = posts
                  /\ SameMachine
               \/ /\ Holders(op) = {a} /\ \A b \in Accounts : posts[b] = 0
                  /\ posts' = [posts EXCEPT ![a] = 1]
                  /\ Holders(op') = {a} /\ Refusers(op') = Refusers(op) /\ SameMachine
               \/ /\ Holders(op) = {a} /\ posts[a] = 0
                  /\ Holders(op') = {} /\ Refusers(op') = Refusers(op) \cup {a} /\ posts' = posts
                  /\ SameMachine
               \/ /\ Holders(op) = {a} /\ posts[a] = 1 /\ SameAttempts
                  /\ server'.machine = a

-----------------------------------------------------------------------------
LEMMA TypeParts == TypeOK <=> RowsOK /\ run \in [Passes -> Busy \cup {Idle}]
BY DEF TypeOK, RowsOK, Server, Passes

LEMMA InvInit == Init => Inv
<1> SUFFICES ASSUME Init PROVE Inv
  OBVIOUS
<1>1. op \in Operation
  BY DEF Init, Operation, Phases
<1>2. run \in [Passes -> Busy \cup {Idle}]
  BY DEF Init, Passes
<1>3. RowsOK
  <2>1. server \in Server /\ posts \in [Accounts -> 0..2] /\ 0 \in 0..MaxCrashes
    BY CreateAssumption DEF Init, Server
  <2>2. QED
    BY <1>1, <2>1 DEF Init, RowsOK
<1>4. Open(op) = {}
  BY DEF Init, Open
<1>5. \A p \in Passes : run[p] = Idle
  BY DEF Init, Passes
<1>6. (\A p \in Passes : Knows(run[p])) /\ Apart
  BY <1>5 DEF Idle, Knows, Apart
<1>7. QED
  BY <1>2, <1>3, <1>4, <1>5, <1>6, TypeParts DEF Init, Inv, Fresh, OpOK, Requested, MoneyOK

-----------------------------------------------------------------------------
(* How one pass moves. *)

Moves(p) ==
    /\ run' \in [Passes -> Busy \cup {Idle}]
    /\ \A q \in Passes \ {p} : run'[q] = run[q]

LEMMA InTheMiddle ==
    ASSUME TypeOK, NEW p \in Passes, run[p].at # "idle"
    PROVE  run[p] \in Busy
BY DEF TypeOK, Passes, Idle

LEMMA EndMoves ==
    ASSUME TypeOK, NEW p \in Passes, End(p)
    PROVE  Moves(p) /\ run'[p] = Idle
BY DEF TypeOK, Moves, End, Passes

LEMMA GoMoves ==
    ASSUME TypeOK, NEW p \in Passes, run[p] \in Busy, NEW step \in Places, Go(p, step)
    PROVE  Moves(p) /\ run'[p].at = step /\ run'[p].account = run[p].account
<1>1. run[p] \in Busy /\ [run[p] EXCEPT !.at = step] \in Busy
  BY DEF Busy, Places
<1>2. run' = [run EXCEPT ![p] = [run[p] EXCEPT !.at = step]]
  BY DEF Go
<1>3. QED
  BY <1>1, <1>2 DEF TypeOK, Moves, Passes, Busy

LEMMA BeginMoves ==
    ASSUME TypeOK, NEW p \in Passes, NEW step \in Places, NEW role \in {"create", "replay", "work"},
           NEW gen \in Nat, NEW a \in Accounts \cup {None}, Begin(p, step, role, gen, a)
    PROVE  Moves(p) /\ run'[p].at = step /\ run'[p].account = a
<1>1. [at |-> step, role |-> role, gen |-> gen, account |-> a] \in Busy
  BY DEF Busy, Places
<1>2. QED
  BY <1>1 DEF TypeOK, Moves, Begin, Passes

LEMMA AimMoves ==
    ASSUME TypeOK, NEW p \in Passes, run[p] \in Busy, NEW step \in Places, NEW gen \in Nat,
           NEW a \in Accounts \cup {None},
           \/ run' = [run EXCEPT ![p].account = a, ![p].at = step]
           \/ run' = [run EXCEPT ![p].gen = gen, ![p].account = a, ![p].at = step]
    PROVE  Moves(p) /\ run'[p].at = step /\ run'[p].account = a
<1>1. /\ [run[p] EXCEPT !.account = a, !.at = step] \in Busy
      /\ [run[p] EXCEPT !.gen = gen, !.account = a, !.at = step] \in Busy
  BY DEF Busy, Places
<1>2. \/ run' = [run EXCEPT ![p] = [run[p] EXCEPT !.account = a, !.at = step]]
      \/ run' = [run EXCEPT ![p] = [run[p] EXCEPT !.gen = gen, !.account = a, !.at = step]]
  OBVIOUS
<1>3. QED
  BY <1>1, <1>2 DEF TypeOK, Moves, Passes, Busy

LEMMA CommitMoves ==
    ASSUME TypeOK, NEW p \in Passes, run[p] \in Busy, NEW step \in Places, NEW gen \in Nat,
           run' = [run EXCEPT ![p].gen = gen, ![p].at = step]
    PROVE  Moves(p) /\ run'[p].at = step /\ run'[p].account = run[p].account
<1>1. [run[p] EXCEPT !.gen = gen, !.at = step] \in Busy
  BY DEF Busy, Places
<1>2. run' = [run EXCEPT ![p] = [run[p] EXCEPT !.gen = gen, !.at = step]]
  OBVIOUS
<1>3. QED
  BY <1>1, <1>2 DEF TypeOK, Moves, Passes, Busy
-----------------------------------------------------------------------------
(* The frames: what a step may do to the rows without disturbing anyone.   *)

(* What the others rely on stays true. *)
Spares(p) ==
    /\ prepaid' = prepaid /\ built \subseteq built'
    /\ prepaid =>
        /\ hold # "none" => hold' # "none"
        /\ op.status = "failed" => op'.status = "failed"
    /\ \A q \in Passes \ {p} : run[q].at = "post" =>
        /\ posts'[run[q].account] = 0
        /\ op'.phase[run[q].account] \in {"sent", "outcome_unknown"}

LEMMA StepFrame ==
    ASSUME Inv, NEW p \in Passes, Moves(p), Spares(p), RowsOK', Fresh', OpOK(op'), Requested',
           MoneyOK', Knows(run[p])',
           \A q \in Passes \ {p} :
               run'[p].at = "post" /\ run[q].at = "post" => run'[p].account # run[q].account
    PROVE  Inv'
<1>1. TypeOK'
  BY DEF TypeOK, RowsOK, Server, Moves, Passes
<1>2. \A q \in Passes \ {p} : Knows(run[q])'
  BY DEF Inv, Knows, Moves, Spares
<1>3. Apart'
  BY DEF Inv, Apart, Moves
<1>4. QED
  BY <1>1, <1>2, <1>3 DEF Inv

(* The receipts, the money and the machine stay. *)
LEMMA AsideFrame ==
    ASSUME Inv, NEW p \in Passes, Moves(p), RowsOK', Knows(run[p])', run'[p].at # "post",
           server.state # "none",
           UNCHANGED <<prepaid, server, hold, op, world>>
    PROVE  Inv' /\ Effect
<1>1. Spares(p)
  BY DEF Inv, Spares, Knows, world
<1>2. Fresh' /\ OpOK(op') /\ Requested' /\ MoneyOK'
  BY DEF Inv, Fresh, OpOK, Requested, MoneyOK, world
<1>3. Inv'
  BY <1>1, <1>2, StepFrame
<1>4. Effect
  BY DEF Effect, SamePurchase, SameAttempts, SameMachine, world
<1>5. QED
  BY <1>3, <1>4

(* A step that writes no row at all. *)
LEMMA ThinkFrame ==
    ASSUME Inv, NEW p \in Passes, Moves(p), run[p].at # "idle" \/ server.state # "none",
           Knows(run'[p]), run'[p].at # "post", crashes' \in 0..MaxCrashes,
           UNCHANGED <<rows, world>>
    PROVE  Inv' /\ Effect
<1>1. server.state # "none"
  BY DEF Inv, Fresh, Idle
<1>2. RowsOK' /\ UNCHANGED <<prepaid, server, hold, op, world>>
  BY TypeParts DEF Inv, RowsOK, rows, world
<1>3. Knows(run[p])'
  BY <1>2 DEF Knows, world
<1>4. QED
  BY <1>1, <1>2, <1>3, AsideFrame

LEMMA FencedStep ==
    ASSUME Inv, NEW p \in Passes, run[p].at # "idle", Fenced(p)
    PROVE  Inv' /\ Effect
<1>1. Moves(p) /\ run'[p] = Idle
  BY EndMoves DEF Inv, Fenced
<1>2. Knows(run'[p]) /\ run'[p].at # "post"
  BY <1>1 DEF Knows, Idle
<1>3. crashes' \in 0..MaxCrashes
  BY DEF Fenced, Inv, TypeOK
<1>4. QED
  BY <1>1, <1>2, <1>3, ThinkFrame DEF Fenced

(* The operation's status is saved and the receipts stay, perhaps with the *)
(* state of the server.                                                    *)
LEMMA StatusFrame ==
    ASSUME Inv, NEW p \in Passes, Moves(p), run'[p].at # "post", Knows(run[p])',
           server.state # "none", server'.state # "none",
           server' \in Server, server'.machine = server.machine, server'.account = server.account,
           op' \in Operation, op'.phase = op.phase,
           op'.status \in {"none", "pending"} => Open(op) = {},
           op'.status = "failed" => \A a \in Open(op) : op.phase[a] = "refused",
           prepaid =>
               /\ op.status = "failed" => op'.status = "failed"
               /\ hold = "released" => op'.status = "failed"
               /\ op'.status \in {"in_flight", "outcome_unknown", "completed"} => hold # "none"
               /\ server'.state = "error" => op'.status = "failed",
           UNCHANGED <<prepaid, priced, quote, hold, world, crashes>>
    PROVE  Inv' /\ Effect
<1>1. Open(op') = Open(op)
  BY DEF Open
<1>2. Spares(p)
  BY DEF Inv, Spares, Knows, world
<1>3. OpOK(op') /\ Requested' /\ MoneyOK' /\ Fresh'
  BY <1>1 DEF Inv, OpOK, Requested, MoneyOK, Fresh, world
<1>4. RowsOK'
  BY TypeParts DEF Inv, RowsOK, world
<1>5. Inv'
  BY <1>2, <1>3, <1>4, StepFrame
<1>6. Effect
  BY DEF Effect, SamePurchase, SameAttempts, SameMachine, Holders, Refusers, world
<1>7. QED
  BY <1>5, <1>6

(* An open receipt is answered, or left open, without a refusal; the       *)
(* machine may be written onto the server with it.                         *)
LEMMA ReceiptFrame ==
    ASSUME Inv, NEW p \in Passes, Moves(p), run'[p].at # "post", Knows(run[p])',
           NEW a \in Accounts, op.phase[a] \in Holding, NEW x \in Holding,
           x = "accepted" => a \in built,
           op' \in Operation, op'.phase = [op.phase EXCEPT ![a] = x],
           op'.status \in {op.status, "outcome_unknown"},
           \/ server' = server
           \/ a \in built /\ server' = [server EXCEPT !.machine = a],
           UNCHANGED <<prepaid, priced, quote, hold, world, crashes>>
    PROVE  Inv' /\ Effect
<1>1. op \in Operation /\ server \in Server /\ posts \in [Accounts -> 0..2]
  BY TypeParts DEF Inv, RowsOK
<1>2. a \in Open(op) /\ Open(op') = Open(op)
  BY <1>1 DEF Open, Holding, Operation
<1>3. op.status \in {"in_flight", "outcome_unknown", "completed"}
  BY <1>1, <1>2 DEF Inv, OpOK, Operation, Holding
<1>4. server.state # "none"
  BY <1>3 DEF Inv, Fresh
<1>5. /\ server' \in Server /\ server'.state = server.state /\ server'.account = server.account
      /\ server'.machine \in {server.machine, a}
  BY <1>1 DEF Server
<1>6. Spares(p)
  BY <1>1, <1>3 DEF Inv, Requested, Spares, Knows, Operation, Holding, world
<1>7. OpOK(op')
  BY <1>2, <1>3 DEF Inv, OpOK
<1>8. Requested'
  BY <1>1, <1>2, <1>5 DEF Inv, Requested, Operation, world
<1>9. MoneyOK' /\ Fresh'
  BY <1>3, <1>4, <1>5, CreateAssumption DEF Inv, MoneyOK, Fresh
<1>10. RowsOK'
  BY <1>5, TypeParts DEF Inv, RowsOK, world
<1>11. Inv'
  BY <1>6, <1>7, <1>8, <1>9, <1>10, StepFrame
<1>12. /\ Holders(op') = Holders(op) /\ Refusers(op') = Refusers(op)
       /\ Holders(op) = {a} /\ posts' = posts
  BY <1>1, <1>2 DEF Inv, OpOK, Holders, Refusers, Holding, Open, Operation, world
<1>13. a \in built => posts[a] = 1
  BY <1>1 DEF Inv, Requested
<1>14. Effect
  BY <1>1, <1>12, <1>13 DEF Effect, SamePurchase, SameAttempts, SameMachine, Server
<1>15. QED
  BY <1>11, <1>14

(* The reservation changes and everything else stays. *)
LEMMA HoldFrame ==
    ASSUME Inv, NEW p \in Passes, Moves(p), run'[p].at # "post", Knows(run[p])',
           server.state # "none",
           \/ hold' = hold
           \/ hold = "none" /\ hold' = "created"
           \/ hold = "created" /\ hold' = "released" /\ (prepaid => op.status = "failed"),
           UNCHANGED <<prepaid, server, priced, quote, op, world, crashes>>
    PROVE  Inv' /\ Effect
<1>1. Spares(p)
  BY DEF Inv, Spares, Knows, world
<1>2. RowsOK'
  BY TypeParts DEF Inv, RowsOK, world
<1>3. Fresh' /\ OpOK(op') /\ Requested' /\ MoneyOK'
  BY DEF Inv, Fresh, OpOK, Requested, MoneyOK, world
<1>4. Inv'
  BY <1>1, <1>2, <1>3, StepFrame
<1>5. op.status = "failed" => Holders(op) = {}
  BY DEF Inv, OpOK, Open, Holders, Holding
<1>6. Effect
  BY <1>5 DEF Effect, SamePurchase, SameAttempts, SameMachine, world
<1>7. QED
  BY <1>4, <1>6

-----------------------------------------------------------------------------
(* The confirmation. *)

LEMMA ConfirmStep == ASSUME Inv, NEW c \in Passes, Confirm(c) PROVE Inv' /\ Effect
<1>1. Moves(c) /\ run'[c].at = "price"
  BY BeginMoves DEF Inv, Confirm, Places
<1>2. server' \in Server /\ server'.state = "requested" /\ server'.machine = None
  BY DEF Confirm, Server
<1>3. op.status = "none" /\ server.machine = None /\ hold = "none" /\ Open(op) = {}
  BY DEF Inv, Fresh, OpOK, Confirm
<1>4. \A q \in Passes : run[q].at # "post"
  BY DEF Inv, Fresh, Confirm, Idle
<1>5. RowsOK'
  BY <1>2, TypeParts DEF Inv, Confirm, RowsOK, world
<1>6. Fresh' /\ OpOK(op') /\ Requested' /\ MoneyOK'
  BY <1>2, <1>3 DEF Inv, Confirm, Fresh, OpOK, Requested, MoneyOK, world
<1>7. Knows(run[c])' /\ Spares(c)
  BY <1>1, <1>3, <1>4 DEF Knows, Spares, Confirm, world
<1>8. Inv'
  BY <1>1, <1>4, <1>5, <1>6, <1>7, StepFrame
<1>9. Effect
  BY <1>2, <1>3 DEF Confirm, Effect, SamePurchase, SameAttempts, SameMachine, world
<1>10. QED
  BY <1>8, <1>9

LEMMA ReplayStep == ASSUME Inv, NEW c \in Passes, Replay(c) PROVE Inv' /\ Effect
<1>1. server.state # "none" /\ UNCHANGED <<rows, world, crashes>>
  BY DEF Replay
<1>2. crashes' \in 0..MaxCrashes
  BY <1>1 DEF Inv, TypeOK
<1>3. CASE Begin(c, "release", "replay", 0, None) /\ op.status = "failed"
  <2>1. Moves(c) /\ run'[c].at = "release"
    BY <1>3, BeginMoves DEF Inv, Places
  <2>2. QED
    BY <1>1, <1>2, <1>3, <2>1, ThinkFrame DEF Knows
<1>4. CASE Begin(c, IF ~priced THEN "price" ELSE IF prepaid THEN "quote" ELSE "hold",
                 "replay", 0, None)
  <2>1. PICK step \in {"price", "quote", "hold"} : Begin(c, step, "replay", 0, None)
    BY <1>4
  <2>2. Moves(c) /\ run'[c].at = step
    BY <2>1, BeginMoves DEF Inv, Places
  <2>3. QED
    BY <1>1, <1>2, <2>2, ThinkFrame DEF Knows
<1>5. QED
  BY <1>3, <1>4 DEF Replay

LEMMA WriteSnapshotStep == ASSUME Inv, NEW c \in Passes, WriteSnapshot(c) PROVE Inv' /\ Effect
<1>1. run[c] \in Busy /\ server.state # "none"
  BY InTheMiddle DEF Inv, Fresh, WriteSnapshot, Idle
<1>2. PICK step \in {"quote", "hold"} : Go(c, step)
  BY DEF WriteSnapshot
<1>3. Moves(c) /\ run'[c].at = step
  BY <1>1, <1>2, GoMoves DEF Inv, Places
<1>4. RowsOK' /\ Knows(run[c])'
  BY <1>3, TypeParts DEF Inv, WriteSnapshot, RowsOK, Knows, world
<1>5. QED
  BY <1>1, <1>3, <1>4, AsideFrame DEF WriteSnapshot

LEMMA BindQuoteStep == ASSUME Inv, NEW c \in Passes, BindQuote(c) PROVE Inv' /\ Effect
<1>1. run[c] \in Busy /\ server.state # "none"
  BY InTheMiddle DEF Inv, Fresh, BindQuote, Idle
<1>2. Moves(c) /\ run'[c].at = "hold"
  BY <1>1, GoMoves DEF Inv, BindQuote, Places
<1>3. RowsOK' /\ Knows(run[c])'
  BY <1>2, TypeParts DEF Inv, BindQuote, RowsOK, Knows, world
<1>4. QED
  BY <1>1, <1>2, <1>3, AsideFrame DEF BindQuote

LEMMA ReserveFirstHourStep ==
    ASSUME Inv, NEW p \in Passes, ReserveFirstHour(p) PROVE Inv' /\ Effect
<1>1. run[p] \in Busy /\ server.state # "none"
  BY InTheMiddle DEF Inv, Fresh, ReserveFirstHour, Idle
<1>2. PICK step \in {"claim", "operation"} : Go(p, step)
  BY DEF ReserveFirstHour
<1>3. Moves(p) /\ run'[p].at = step
  BY <1>1, <1>2, GoMoves DEF Inv, Places
<1>4. Knows(run[p])'
  BY <1>3 DEF ReserveFirstHour, Knows
<1>5. QED
  BY <1>1, <1>3, <1>4, HoldFrame DEF ReserveFirstHour

LEMMA ReleaseCreationHoldStep ==
    ASSUME Inv, NEW p \in Passes, ReleaseCreationHold(p) PROVE Inv' /\ Effect
<1>1. run[p] \in Busy /\ server.state # "none"
  BY InTheMiddle DEF Inv, Fresh, ReleaseCreationHold, Idle
<1>2. Moves(p) /\ run'[p] = Idle
  BY EndMoves DEF Inv, ReleaseCreationHold
<1>3. Knows(run[p])' /\ run'[p].at # "post"
  BY <1>2 DEF Knows, Idle
<1>4. prepaid => op.status = "failed"
  BY DEF Inv, Knows, ReleaseCreationHold
<1>5. QED
  BY <1>1, <1>2, <1>3, <1>4, HoldFrame DEF ReleaseCreationHold

LEMMA RegisterStep == ASSUME Inv, NEW c \in Passes, Register(c) PROVE Inv' /\ Effect
<1>1. run[c] \in Busy /\ server.state # "none" /\ server \in Server /\ op \in Operation
  BY InTheMiddle, TypeParts DEF Inv, Fresh, Register, Idle, RowsOK
<1>2. Moves(c) /\ run'[c].at = "audit"
  BY <1>1, GoMoves DEF Inv, Register, Places
<1>3. Knows(run[c])'
  BY <1>2 DEF Knows
<1>4. /\ op' \in Operation /\ op'.phase = op.phase
      /\ op'.status = IF op.status = "none" THEN "pending" ELSE op.status
  BY <1>1 DEF Register, Operation
<1>5. QED
  BY <1>1, <1>2, <1>3, <1>4, StatusFrame DEF Inv, OpOK, MoneyOK, Register

LEMMA AuditStep == ASSUME Inv, NEW c \in Passes, Audit(c) PROVE Inv' /\ Effect
BY FencedStep DEF Audit, Fenced

LEMMA AbortStep == ASSUME Inv, NEW p \in Passes, Abort(p) PROVE Inv' /\ Effect
<1>1. run[p].at # "idle" /\ UNCHANGED <<rows, world, crashes>>
  BY DEF Abort
<1>2. crashes' \in 0..MaxCrashes
  BY <1>1 DEF Inv, TypeOK
<1>3. CASE ~prepaid /\ Go(p, "quarantine")
  <2>1. Moves(p) /\ run'[p].at = "quarantine"
    BY <1>1, <1>3, GoMoves, InTheMiddle DEF Inv, Places
  <2>2. QED
    BY <1>1, <1>2, <1>3, <2>1, ThinkFrame DEF Knows
<1>4. CASE End(p)
  BY <1>1, <1>4, FencedStep DEF Fenced
<1>5. QED
  BY <1>3, <1>4 DEF Abort

LEMMA QuarantineStep == ASSUME Inv, NEW p \in Passes, Quarantine(p) PROVE Inv' /\ Effect
<1>1. run[p] \in Busy /\ server.state # "none" /\ server \in Server /\ ~prepaid
  BY InTheMiddle, TypeParts DEF Inv, Fresh, Quarantine, Idle, Knows, RowsOK
<1>2. Moves(p) /\ run'[p].at = "release"
  BY <1>1, GoMoves DEF Inv, Quarantine, Places
<1>3. /\ server' \in Server /\ server'.state = "error" /\ server'.machine = None
      /\ server'.account = server.account
  BY <1>1 DEF Quarantine, Server
<1>4. Knows(run[p])' /\ Spares(p)
  BY <1>1, <1>2 DEF Inv, Knows, Spares, Quarantine, world
<1>5. RowsOK'
  BY <1>3, TypeParts DEF Inv, RowsOK, Quarantine, world
<1>6. Fresh' /\ OpOK(op') /\ Requested' /\ MoneyOK'
  BY <1>1, <1>3 DEF Inv, Fresh, OpOK, Requested, MoneyOK, Quarantine, world
<1>7. Inv'
  BY <1>2, <1>4, <1>5, <1>6, StepFrame
<1>8. Effect
  BY <1>1, <1>3 DEF Effect, SameAttempts, Quarantine, world
<1>9. QED
  BY <1>7, <1>8

-----------------------------------------------------------------------------
(* The create worker. *)

(* A claim, and what shuts an old claim out: the next generation. *)
LEMMA NextGeneration ==
    ASSUME NEW o \in Operation,
           NEW status \in {"pending", "in_flight", "outcome_unknown", "failed"}
    PROVE  /\ [o EXCEPT !.status = status, !.gen = @ + 1] \in Operation
           /\ [o EXCEPT !.status = status, !.gen = @ + 1].status = status
           /\ [o EXCEPT !.status = status, !.gen = @ + 1].phase = o.phase
           /\ o.gen + 1 \in Nat
           /\ [o EXCEPT !.status = status, !.gen = @ + 1].gen = o.gen + 1
<1>1. o.gen + 1 \in Nat
  BY DEF Operation
<1>2. PICK g \in Nat : g = o.gen + 1
  BY <1>1
<1>3. [o EXCEPT !.status = status, !.gen = g] \in Operation
  BY DEF Operation
<1>4. QED
  BY <1>1, <1>2, <1>3 DEF Operation

LEMMA TakeIntentStep == ASSUME Inv, NEW w \in Passes, TakeIntent(w) PROVE Inv' /\ Effect
<1>1. server \in Server /\ op \in Operation
  BY TypeParts DEF Inv, RowsOK
<1>2. PICK o : o = IF op.status = "none" THEN [op EXCEPT !.status = "pending"] ELSE op
  OBVIOUS
<1>3. /\ o \in Operation /\ o.phase = op.phase /\ o.gen \in Nat
      /\ o.status = IF op.status = "none" THEN "pending" ELSE op.status
  BY <1>1, <1>2 DEF Operation
<1>4. /\ op' = o /\ server.state # "none"
      /\ UNCHANGED <<prepaid, server, priced, quote, hold, world, crashes>>
  BY <1>2 DEF TakeIntent
<1>5. ASSUME Moves(w), Knows(run[w])', run'[w].at # "post"
      PROVE  Inv' /\ Effect
  BY <1>1, <1>3, <1>4, <1>5, StatusFrame DEF Inv, OpOK, MoneyOK
<1>6. CASE UNCHANGED run
  <2>1. Moves(w) /\ run'[w] = Idle
    BY <1>6, TypeParts DEF Inv, TakeIntent, Moves
  <2>2. QED
    BY <1>5, <2>1 DEF Knows, Idle
<1>7. CASE \E step \in {"hold", "claim", "resume"} :
             Begin(w, step, "work", o.gen, None) /\ (step = "claim" => hold = "created")
  <2>1. PICK step \in {"hold", "claim", "resume"} :
             Begin(w, step, "work", o.gen, None) /\ (step = "claim" => hold = "created")
    BY <1>7
  <2>2. Moves(w) /\ run'[w].at = step
    BY <1>3, <2>1, BeginMoves DEF Inv, Places
  <2>3. Knows(run[w])'
    BY <1>4, <2>1, <2>2 DEF Knows
  <2>4. QED
    BY <1>5, <2>2, <2>3
<1>8. QED
  BY <1>2, <1>6, <1>7 DEF TakeIntent

LEMMA QuarantineIntentStep ==
    ASSUME Inv, NEW w \in Passes, QuarantineIntent(w) PROVE Inv' /\ Effect
<1>1. server \in Server /\ op \in Operation
  BY TypeParts DEF Inv, RowsOK
<1>2. op' \in Operation /\ op'.phase = op.phase /\ op'.status = "failed" /\ op'.gen \in Nat
  BY <1>1, NextGeneration DEF QuarantineIntent
<1>3. Moves(w) /\ run'[w].at = "quarantine"
  BY <1>2, BeginMoves DEF Inv, QuarantineIntent, Places
<1>4. Knows(run[w])'
  BY <1>3 DEF Knows, QuarantineIntent
<1>5. Open(op) = {}
  BY DEF Inv, OpOK, QuarantineIntent
<1>6. QED
  BY <1>1, <1>2, <1>3, <1>4, <1>5, StatusFrame DEF QuarantineIntent

LEMMA ClaimStep == ASSUME Inv, NEW w \in Passes, Claim(w) PROVE Inv' /\ Effect
<1>1. run[w].at = "claim" /\ run[w] \in Busy /\ server.state # "none"
  BY InTheMiddle DEF Inv, Fresh, Claim, Idle
<1>2. server \in Server /\ op \in Operation
  BY TypeParts DEF Inv, RowsOK
<1>3. CASE op.status = "pending" /\ Unaccepted /\ SafePrePost(op)
  <2>1. /\ op' = [op EXCEPT !.status = "in_flight", !.gen = @ + 1]
        /\ run' = [run EXCEPT ![w].gen = op'.gen, ![w].at = "select"]
        /\ UNCHANGED <<prepaid, server, priced, quote, hold, world, crashes>>
    BY <1>3 DEF Claim, Commit
  <2>2. op' \in Operation /\ op'.phase = op.phase /\ op'.status = "in_flight" /\ op'.gen \in Nat
    BY <1>2, <2>1, NextGeneration
  <2>3. Moves(w) /\ run'[w].at = "select"
    BY <1>1, <2>1, <2>2, CommitMoves DEF Inv, Places
  <2>4. Knows(run[w])'
    BY <2>3 DEF Knows
  <2>5. prepaid => hold # "none" /\ hold # "released" /\ server.state # "error"
    BY <1>1, <1>3 DEF Inv, Knows, MoneyOK
  <2>6. QED
    BY <1>1, <1>2, <1>3, <2>1, <2>2, <2>3, <2>4, <2>5, StatusFrame
<1>4. CASE Fenced(w)
  BY <1>1, <1>4, FencedStep
<1>5. QED
  BY <1>3, <1>4 DEF Claim

LEMMA StartAttemptStep == ASSUME Inv, NEW w \in Passes, StartAttempt(w) PROVE Inv' /\ Effect
<1>1. run[w].at = "select" /\ run[w] \in Busy /\ server.state # "none"
  BY InTheMiddle DEF Inv, Fresh, StartAttempt, Idle
<1>2. server \in Server /\ op \in Operation /\ posts \in [Accounts -> 0..2]
  BY TypeParts DEF Inv, RowsOK
<1>3. CASE Fenced(w)
  BY <1>1, <1>3, FencedStep
<1>4. CASE Live(w) /\ Unaccepted /\ SafePrePost(op)
  <2>1. PICK a \in Candidates(op) :
            /\ op' = [op EXCEPT !.phase[a] = "sent"]
            /\ server' = [server EXCEPT !.account = a]
            /\ run' = [run EXCEPT ![w].account = a, ![w].at = "post"]
            /\ UNCHANGED <<prepaid, priced, quote, hold, world, crashes>>
    BY <1>4 DEF StartAttempt, Fenced, Retargeted
  <2>2. a \in Accounts /\ op.phase[a] = "untried" /\ posts[a] = 0 /\ \A b \in Accounts : posts[b] = 0
    BY <1>2, <1>4 DEF Candidates, SafePrePost, Open, Inv, Requested, Holding
  <2>3. /\ op' \in Operation /\ op'.status = op.status
        /\ op'.phase = [op.phase EXCEPT ![a] = "sent"]
    BY <1>2, <2>1, <2>2 DEF Operation, Phases
  <2>4. /\ server' \in Server /\ server'.account = a
        /\ server'.state = server.state /\ server'.machine = server.machine
    BY <1>2, <2>1, <2>2 DEF Server
  <2>5. Open(op') = {a} /\ op.status = "in_flight"
    BY <1>2, <1>4, <2>2, <2>3 DEF SafePrePost, Open, Operation, Live
  <2>6. Moves(w) /\ run'[w].at = "post" /\ run'[w].account = a
    BY <1>1, <2>1, <2>2, AimMoves DEF Inv, Places
  <2>7. \A q \in Passes : run[q].at # "post"
    BY <1>4 DEF Inv, Knows, SafePrePost, Open
  <2>8. Spares(w)
    BY <2>1, <2>3, <2>7 DEF Spares, world
  <2>9. Knows(run[w])'
    BY <1>2, <2>1, <2>2, <2>3, <2>6 DEF Knows, Operation, world
  <2>10. RowsOK'
    BY <2>1, <2>3, <2>4, TypeParts DEF Inv, RowsOK, world
  <2>11. OpOK(op') /\ Fresh'
    BY <1>1, <2>3, <2>4, <2>5 DEF OpOK, Fresh
  <2>12. Requested'
    BY <1>2, <2>1, <2>2, <2>3, <2>4, <2>5 DEF Inv, Requested, Operation, world
  <2>13. MoneyOK'
    BY <2>1, <2>3, <2>4 DEF Inv, MoneyOK
  <2>14. Inv'
    BY <2>6, <2>7, <2>8, <2>9, <2>10, <2>11, <2>12, <2>13, StepFrame
  <2>15. prepaid => hold = "created"
    BY <1>2, <1>4, <2>5, TypeParts DEF Inv, MoneyOK, Unaccepted, RowsOK
  <2>16. /\ Holders(op) = {} /\ Holders(op') = {a}
         /\ a \notin Refusers(op) /\ Refusers(op') = Refusers(op)
    BY <1>2, <1>4, <2>2, <2>3 DEF Holders, Refusers, Holding, SafePrePost, Open, Operation
  <2>17. Effect
    BY <2>1, <2>2, <2>4, <2>15, <2>16 DEF Effect, SameMachine, world
  <2>18. QED
    BY <2>14, <2>17
<1>5. QED
  BY <1>3, <1>4 DEF StartAttempt

LEMMA PostStep == ASSUME Inv, NEW w \in Passes, Post(w) PROVE Inv' /\ Effect
<1> DEFINE a == run[w].account
<1>1. run[w].at = "post" /\ run[w] \in Busy /\ server.state # "none"
  BY InTheMiddle DEF Inv, Fresh, Post, Idle
<1>2. op \in Operation /\ posts \in [Accounts -> 0..2] /\ built \subseteq Accounts
  BY TypeParts DEF Inv, RowsOK
<1>3. a \in Accounts /\ posts[a] = 0 /\ op.phase[a] \in {"sent", "outcome_unknown"}
  BY <1>1 DEF Inv, Knows
<1>4. a \in Open(op) /\ Open(op) = {a}
  BY <1>3 DEF Inv, OpOK, Open
<1>5. \A b \in Accounts : posts[b] = 0
  BY <1>2, <1>3, <1>4 DEF Inv, Requested, Open, Holding
<1>6. built = {}
  BY <1>2, <1>5 DEF Inv, Requested
<1>7. PICK step \in {"accept", "unknown"} :
         /\ Go(w, step)
         /\ posts' \in {posts, [posts EXCEPT ![a] = 1]}
         /\ built' \in {{}, {a}}
         /\ step = "accept" => built' = {a}
         /\ built' = {a} => posts' = [posts EXCEPT ![a] = 1]
  BY <1>2, <1>3, <1>6 DEF Post
<1>8. Moves(w) /\ run'[w].at = step /\ run'[w].account = a
  BY <1>1, <1>7, GoMoves DEF Inv, Places
<1>9. Knows(run[w])'
  BY <1>3, <1>7, <1>8 DEF Knows
<1>10. Spares(w)
  BY <1>1, <1>2, <1>3, <1>6, <1>7 DEF Inv, Apart, Knows, Spares, Post, rows
<1>11. posts' \in [Accounts -> 0..2] /\ built' \subseteq Accounts /\ RowsOK'
  BY <1>2, <1>3, <1>7, TypeParts DEF Inv, RowsOK, Post, rows
<1>12. Fresh' /\ OpOK(op') /\ MoneyOK'
  BY <1>1 DEF Inv, Fresh, OpOK, MoneyOK, Post, rows
<1>13. Requested'
  BY <1>2, <1>3, <1>5, <1>7 DEF Inv, Requested, Post, rows, Holding
<1>14. Inv'
  BY <1>7, <1>8, <1>9, <1>10, <1>11, <1>12, <1>13, StepFrame
<1>15. Holders(op) = {a}
  BY <1>3, <1>4 DEF Holders, Open, Holding
<1>16. Effect
  BY <1>3, <1>5, <1>7, <1>15
  DEF Effect, SamePurchase, SameAttempts, SameMachine, Post, rows
<1>17. QED
  BY <1>14, <1>16

LEMMA RecordRefusalStep == ASSUME Inv, NEW w \in Passes, RecordRefusal(w) PROVE Inv' /\ Effect
<1> DEFINE a == run[w].account
<1>1. run[w].at = "post" /\ run[w] \in Busy /\ server.state # "none"
  BY InTheMiddle DEF Inv, Fresh, RecordRefusal, Idle
<1>2. op \in Operation /\ posts \in [Accounts -> 0..2] /\ built \subseteq Accounts
  BY TypeParts DEF Inv, RowsOK
<1>3. CASE Fenced(w)
  BY <1>1, <1>3, FencedStep
<1>4. CASE Live(w) /\ Unaccepted /\ op.phase[a] = "sent"
  <2>1. PICK verdict \in {"capacity_refused", "refused"} :
            /\ op' = [op EXCEPT !.phase[a] = verdict]
            /\ run' = [run EXCEPT ![w].account = None,
                   ![w].at = IF verdict = "refused" THEN "fail" ELSE "select"]
            /\ UNCHANGED <<prepaid, server, priced, quote, hold, world, crashes>>
    BY <1>4 DEF RecordRefusal
  <2>2. a \in Accounts /\ posts[a] = 0 /\ a \in Open(op) /\ Open(op) = {a}
    BY <1>1, <1>4 DEF Inv, Knows, Open, OpOK
  <2>3. \A b \in Accounts : posts[b] = 0
    BY <1>2, <2>2 DEF Inv, Requested, Open, Holding
  <2>4. /\ op' \in Operation /\ op'.status = op.status
        /\ op'.phase = [op.phase EXCEPT ![a] = verdict]
    BY <1>2, <2>1, <2>2 DEF Operation, Phases
  <2>5. Open(op') \subseteq {a} /\ op'.phase[a] = verdict
    BY <1>2, <2>2, <2>4 DEF Open, Operation
  <2>6. PICK step \in {"fail", "select"} :
            run' = [run EXCEPT ![w].account = None, ![w].at = step]
    BY <2>1
  <2>7. Moves(w) /\ run'[w].at = step
    BY <1>1, <2>6, AimMoves DEF Inv, Places
  <2>8. \A q \in Passes \ {w} : run[q].at # "post"
    BY <1>1, <2>2 DEF Inv, Apart, Knows, Open
  <2>9. Spares(w) /\ Knows(run[w])'
    BY <2>1, <2>4, <2>7, <2>8 DEF Spares, Knows, world
  <2>10. RowsOK'
    BY <2>1, <2>4, TypeParts DEF Inv, RowsOK, world
  <2>11. OpOK(op') /\ Fresh' /\ MoneyOK'
    BY <1>1, <1>4, <2>1, <2>4, <2>5 DEF Inv, OpOK, Fresh, MoneyOK, Live
  <2>12. Requested'
    BY <1>2, <2>1, <2>2, <2>3, <2>5 DEF Inv, Requested, world
  <2>13. Inv'
    BY <2>7, <2>9, <2>10, <2>11, <2>12, StepFrame
  <2>14. /\ Holders(op) = {a} /\ Holders(op') = {}
         /\ Refusers(op') = Refusers(op) \cup {a}
    <3>1. Holders(op) = {a} /\ Holders(op') = {}
      BY <1>4, <2>2, <2>5 DEF Holders, Holding, Open
    <3>2. Refusers(op') = Refusers(op) \cup {a}
      BY <1>2, <2>2, <2>4 DEF Refusers, Operation
    <3>3. QED
      BY <3>1, <3>2
  <2>15. Effect
    BY <2>1, <2>2, <2>14 DEF Effect, SameMachine, world
  <2>16. QED
    BY <2>13, <2>15
<1>5. QED
  BY <1>3, <1>4 DEF RecordRefusal

LEMMA RecordUnknownStep == ASSUME Inv, NEW w \in Passes, RecordUnknown(w) PROVE Inv' /\ Effect
<1> DEFINE a == run[w].account
<1>1. run[w].at = "unknown" /\ a \in Accounts /\ op \in Operation
  BY TypeParts DEF Inv, Knows, RecordUnknown, RowsOK
<1>2. CASE Fenced(w)
  BY <1>1, <1>2, FencedStep
<1>3. CASE Live(w) /\ op.phase[a] = "sent"
  <2>1. /\ op' = [op EXCEPT !.status = "outcome_unknown", !.phase[a] = "outcome_unknown"]
        /\ End(w)
        /\ UNCHANGED <<prepaid, server, priced, quote, hold, world, crashes>>
    BY <1>3 DEF RecordUnknown
  <2>2. /\ op' \in Operation /\ op'.status = "outcome_unknown"
        /\ op'.phase = [op.phase EXCEPT ![a] = "outcome_unknown"]
    BY <1>1, <2>1 DEF Operation, Phases
  <2>3. Moves(w) /\ run'[w] = Idle
    BY <2>1, EndMoves DEF Inv
  <2>4. Knows(run[w])' /\ run'[w].at # "post"
    BY <2>3 DEF Knows, Idle
  <2>5. QED
    BY <1>1, <1>3, <2>1, <2>2, <2>3, <2>4, ReceiptFrame DEF Holding
<1>4. QED
  BY <1>2, <1>3 DEF RecordUnknown

LEMMA RecordAcceptanceStep ==
    ASSUME Inv, NEW w \in Passes, RecordAcceptance(w) PROVE Inv' /\ Effect
<1> DEFINE a == run[w].account
<1>1. run[w].at = "accept" /\ run[w] \in Busy /\ a \in built /\ a \in Accounts /\ op \in Operation
  BY InTheMiddle, TypeParts DEF Inv, Knows, RecordAcceptance, RowsOK
<1>2. CASE Fenced(w)
  BY <1>1, <1>2, FencedStep
<1>3. CASE op.phase[a] \in {"sent", "outcome_unknown", "accepted"} /\ ~Fenced(w)
  <2>1. /\ op' = [op EXCEPT !.phase[a] = "accepted"]
        /\ run' = [run EXCEPT ![w].gen = op'.gen, ![w].at = "complete"]
        /\ server' = [server EXCEPT !.machine = a]
        /\ UNCHANGED <<prepaid, priced, quote, hold, world, crashes>>
    BY <1>3 DEF RecordAcceptance, Commit
  <2>2. /\ op' \in Operation /\ op'.status = op.status /\ op'.gen \in Nat
        /\ op'.phase = [op.phase EXCEPT ![a] = "accepted"]
    BY <1>1, <2>1 DEF Operation, Phases
  <2>3. Moves(w) /\ run'[w].at = "complete"
    BY <1>1, <2>1, <2>2, CommitMoves DEF Inv, Places
  <2>4. Knows(run[w])'
    BY <2>3 DEF Knows
  <2>5. QED
    BY <1>1, <1>3, <2>1, <2>2, <2>3, <2>4, ReceiptFrame DEF Holding
<1>4. QED
  BY <1>2, <1>3 DEF RecordAcceptance

LEMMA CompleteStep == ASSUME Inv, NEW w \in Passes, Complete(w) PROVE Inv' /\ Effect
<1>1. run[w].at = "complete" /\ server.state # "none"
  BY DEF Inv, Fresh, Complete, Idle
<1>2. server \in Server /\ op \in Operation
  BY TypeParts DEF Inv, RowsOK
<1>3. CASE Fenced(w)
  BY <1>1, <1>3, FencedStep
<1>4. CASE Recoverable(w) /\ ~Fenced(w)
  <2>1. /\ op' = [op EXCEPT !.status = "completed"]
        /\ server' = [server EXCEPT !.state = IF @ = "requested" THEN "provisioning" ELSE @]
        /\ End(w)
        /\ UNCHANGED <<prepaid, priced, quote, hold, world, crashes>>
    BY <1>4 DEF Complete
  <2>2. op' \in Operation /\ op'.phase = op.phase /\ op'.status = "completed"
    BY <1>2, <2>1 DEF Operation
  <2>3. /\ server' \in Server /\ server'.machine = server.machine
        /\ server'.account = server.account /\ server'.state \in {server.state, "provisioning"}
    BY <1>2, <2>1 DEF Server
  <2>4. Moves(w) /\ run'[w] = Idle
    BY <2>1, EndMoves DEF Inv
  <2>5. Knows(run[w])' /\ run'[w].at # "post"
    BY <2>4 DEF Knows, Idle
  <2>6. prepaid => hold # "none" /\ hold # "released" /\ server.state # "error" /\ op.status # "failed"
    BY <1>4 DEF Inv, MoneyOK, Recoverable
  <2>7. QED
    BY <1>1, <2>1, <2>2, <2>3, <2>4, <2>5, <2>6, StatusFrame
<1>5. QED
  BY <1>3, <1>4 DEF Complete

LEMMA FailOperationStep == ASSUME Inv, NEW w \in Passes, FailOperation(w) PROVE Inv' /\ Effect
<1>1. run[w].at \in {"select", "fail"} /\ run[w] \in Busy /\ server.state # "none"
  BY InTheMiddle DEF Inv, Fresh, FailOperation, Idle
<1>2. server \in Server /\ op \in Operation
  BY TypeParts DEF Inv, RowsOK
<1>3. CASE Fenced(w)
  BY <1>1, <1>3, FencedStep
<1>4. CASE (\A a \in Open(op) : op.phase[a] = "refused") /\ ~Fenced(w)
  <2>1. /\ op' = [op EXCEPT !.status = "failed"]
        /\ server' = [server EXCEPT !.state = "error"]
        /\ Go(w, "release")
        /\ UNCHANGED <<prepaid, priced, quote, hold, world, crashes>>
    BY <1>4 DEF FailOperation
  <2>2. op' \in Operation /\ op'.phase = op.phase /\ op'.status = "failed"
    BY <1>2, <2>1 DEF Operation
  <2>3. /\ server' \in Server /\ server'.machine = server.machine
        /\ server'.account = server.account /\ server'.state = "error"
    BY <1>2, <2>1 DEF Server
  <2>4. Moves(w) /\ run'[w].at = "release"
    BY <1>1, <2>1, GoMoves DEF Inv, Places
  <2>5. Knows(run[w])'
    BY <2>2, <2>4 DEF Knows
  <2>6. QED
    BY <1>1, <1>4, <2>1, <2>2, <2>3, <2>4, <2>5, StatusFrame
<1>5. QED
  BY <1>3, <1>4 DEF FailOperation

LEMMA RequeueOperationStep ==
    ASSUME Inv, NEW w \in Passes, RequeueOperation(w) PROVE Inv' /\ Effect
<1>1. run[w].at = "select" /\ server.state # "none"
  BY DEF Inv, Fresh, RequeueOperation, Idle
<1>2. server \in Server /\ op \in Operation
  BY TypeParts DEF Inv, RowsOK
<1>3. CASE Fenced(w)
  BY <1>1, <1>3, FencedStep
<1>4. CASE Recoverable(w) /\ SafePrePost(op) /\ ~Fenced(w)
  <2>1. /\ op' = [op EXCEPT !.status = "pending"]
        /\ End(w)
        /\ UNCHANGED <<prepaid, server, priced, quote, hold, world, crashes>>
    BY <1>4 DEF RequeueOperation
  <2>2. op' \in Operation /\ op'.phase = op.phase /\ op'.status = "pending"
    BY <1>2, <2>1 DEF Operation
  <2>3. Moves(w) /\ run'[w] = Idle
    BY <2>1, EndMoves DEF Inv
  <2>4. Knows(run[w])' /\ run'[w].at # "post"
    BY <2>3 DEF Knows, Idle
  <2>5. prepaid => hold # "released" /\ server.state # "error" /\ op.status # "failed"
    BY <1>4 DEF Inv, MoneyOK, Recoverable
  <2>6. QED
    BY <1>1, <1>2, <1>4, <2>1, <2>2, <2>3, <2>4, <2>5, StatusFrame DEF SafePrePost
<1>5. QED
  BY <1>3, <1>4 DEF RequeueOperation

-----------------------------------------------------------------------------
(* The reconciler. *)

LEMMA ReconcileStep == ASSUME Inv, NEW w \in Passes, Reconcile(w) PROVE Inv' /\ Effect
<1>1. server.state # "none" /\ op.gen \in Nat /\ UNCHANGED <<rows, world, crashes>>
  BY TypeParts DEF Reconcile, InCreate, Inv, RowsOK, Operation
<1>2. crashes' \in 0..MaxCrashes
  BY <1>1 DEF Inv, TypeOK
<1>3. PICK a \in Accounts, step \in {"resume", "find"} : Begin(w, step, "work", op.gen, a)
  BY DEF Reconcile, Open
<1>4. Moves(w) /\ run'[w].at = step /\ run'[w].account = a
  BY <1>1, <1>3, BeginMoves DEF Inv, Places
<1>5. Knows(run'[w])
  BY <1>4 DEF Knows
<1>6. QED
  BY <1>1, <1>2, <1>4, <1>5, ThinkFrame

LEMMA FindStep == ASSUME Inv, NEW w \in Passes, Find(w) PROVE Inv' /\ Effect
<1>1. run[w].at = "find" /\ run[w] \in Busy /\ run[w].account \in built
  BY InTheMiddle DEF Inv, Find
<1>2. run[w].account \in Accounts /\ crashes' \in 0..MaxCrashes
  BY <1>1, TypeParts DEF Inv, RowsOK, Find
<1>3. Moves(w) /\ run'[w].at = "accept" /\ run'[w].account = run[w].account
  BY <1>1, GoMoves DEF Inv, Find, Places
<1>4. Knows(run'[w])
  BY <1>1, <1>2, <1>3 DEF Knows
<1>5. QED
  BY <1>1, <1>2, <1>3, <1>4, ThinkFrame DEF Find

LEMMA ResumeStep == ASSUME Inv, NEW w \in Passes, Resume(w) PROVE Inv' /\ Effect
<1>1. run[w].at = "resume" /\ run[w] \in Busy /\ server.state # "none"
  <2>1. run[w].at = "resume"
    BY DEF Resume
  <2>2. QED
    BY <2>1, InTheMiddle DEF Inv, Fresh, Idle
<1>2. server \in Server /\ op \in Operation
  BY TypeParts DEF Inv, RowsOK
<1>3. CASE Fenced(w)
  BY <1>1, <1>3, FencedStep
<1>4. ASSUME Recoverable(w), ~Fenced(w) PROVE Inv' /\ Effect
  <2>1. /\ op.status \in {"in_flight", "outcome_unknown"}
        /\ prepaid => hold # "none" /\ hold # "released" /\ server.state # "error"
    BY <1>4 DEF Inv, MoneyOK, Recoverable
  <2>2. UNCHANGED <<prepaid, server, priced, quote, hold, world, crashes>>
    BY <1>4 DEF Resume
  <2>3. CASE /\ SafePrePost(op) /\ End(w)
             /\ op' = [op EXCEPT !.gen = @ + 1, !.status = "pending"]
    <3>1. op' \in Operation /\ op'.phase = op.phase /\ op'.status = "pending"
      BY <1>2, <2>3, NextGeneration DEF Operation
    <3>2. Moves(w) /\ run'[w] = Idle
      BY <2>3, EndMoves DEF Inv
    <3>3. Knows(run[w])' /\ run'[w].at # "post"
      BY <3>2 DEF Knows, Idle
    <3>4. QED
      BY <1>1, <1>2, <2>1, <2>2, <2>3, <3>1, <3>2, <3>3, StatusFrame DEF SafePrePost
  <2>4. ASSUME NEW a \in Open(op), NEW step \in {"fail", "find"},
               run' = [run EXCEPT ![w].gen = op'.gen, ![w].account = a, ![w].at = step],
               \/ /\ op.phase[a] = "refused"
                  /\ op' = [op EXCEPT !.gen = @ + 1, !.status = "in_flight"]
               \/ op.phase[a] = "accepted" /\ op' = [op EXCEPT !.gen = @ + 1]
               \/ /\ op.phase[a] \in {"sent", "outcome_unknown"}
                  /\ op' = [op EXCEPT !.gen = @ + 1, !.status = "outcome_unknown",
                                      !.phase[a] = "outcome_unknown"]
        PROVE  Inv' /\ Effect
    <3>1. a \in Accounts /\ op.gen + 1 \in Nat
      BY <1>2 DEF Open, Operation
    <3>2. op' \in Operation /\ op'.gen \in Nat
      BY <1>2, <2>4, <3>1 DEF Operation, Phases
    <3>3. Moves(w) /\ run'[w].at = step /\ run'[w].account = a
      <4>1. PICK g \in Nat : g = op'.gen
        BY <3>2
      <4>2. run' = [run EXCEPT ![w].gen = g, ![w].account = a, ![w].at = step]
        BY <2>4, <4>1
      <4>3. TypeOK /\ step \in Places /\ a \in Accounts \cup {None}
        BY <3>1 DEF Inv, Places
      <4>4. QED
        BY <1>1, <4>2, <4>3, AimMoves
    <3>4. Knows(run[w])'
      BY <3>1, <3>3 DEF Knows
    <3>5. CASE op.phase[a] \in {"refused", "accepted"}
      <4>1. op'.phase = op.phase /\ op'.status \in {op.status, "in_flight"}
        BY <1>2, <2>4, <3>5 DEF Operation
      <4>2. QED
        BY <1>1, <1>2, <2>1, <2>2, <3>2, <3>3, <3>4, <4>1, StatusFrame
    <3>6. CASE op.phase[a] \in {"sent", "outcome_unknown"}
      <4>1. /\ op'.phase = [op.phase EXCEPT ![a] = "outcome_unknown"]
            /\ op'.status = "outcome_unknown"
        BY <1>2, <2>4, <3>6 DEF Operation
      <4>2. QED
        BY <2>2, <3>1, <3>2, <3>3, <3>4, <3>6, <4>1, ReceiptFrame DEF Holding
    <3>7. QED
      BY <3>5, <3>6 DEF Open
  <2>5. QED
    BY <1>4, <2>3, <2>4 DEF Resume, Open
<1>5. QED
  BY <1>3, <1>4 DEF Resume

-----------------------------------------------------------------------------
(* The provider, the clock, the capture of the first hour, and death. *)

(* Rows and world move on and every pass sleeps. *)
LEMMA StillFrame ==
    ASSUME Inv, RowsOK', server.state # "none", hold # "none" => hold' # "none",
           prepaid /\ hold' = "captured" => server.machine # None,
           hold' = "released" => hold = "released",
           built \subseteq built', \A a \in built' : posts[a] > 0,
           UNCHANGED <<prepaid, server, op, posts, run>>
    PROVE  Inv'
<1>1. TypeOK'
  BY DEF Inv, TypeOK, RowsOK, Server
<1>2. Fresh' /\ OpOK(op') /\ Requested' /\ MoneyOK' /\ Apart'
  BY DEF Inv, Fresh, OpOK, Requested, MoneyOK, Apart
<1>3. \A p \in Passes : Knows(run[p])'
  BY DEF Inv, Knows
<1>4. QED
  BY <1>1, <1>2, <1>3 DEF Inv

LEMMA ProvideStep == ASSUME Inv, NEW a \in Accounts, Provide(a) PROVE Inv' /\ Effect
<1>1. a \in Open(op) /\ server.state # "none"
  BY DEF Provide, Inv, Requested, Holding, Open, OpOK, Fresh
<1>2. RowsOK'
  BY TypeParts DEF Inv, RowsOK, Provide, rows
<1>3. Inv'
  BY <1>1, <1>2, StillFrame DEF Provide, Inv, MoneyOK, Requested, rows
<1>4. Effect
  BY DEF Effect, SamePurchase, SameAttempts, SameMachine, Provide, rows
<1>5. QED
  BY <1>3, <1>4

LEMMA ExpireStep == ASSUME Inv, Expire PROVE Inv' /\ Effect
<1>1. TypeOK'
  BY DEF Inv, TypeOK, Expire, world
<1>2. Fresh' /\ OpOK(op') /\ Requested' /\ MoneyOK' /\ Apart' /\ \A p \in Passes : Knows(run[p])'
  BY DEF Inv, Fresh, OpOK, Requested, MoneyOK, Apart, Knows, Expire, world
<1>3. Effect
  BY DEF Effect, SamePurchase, SameAttempts, SameMachine, Expire, world
<1>4. QED
  BY <1>1, <1>2, <1>3 DEF Inv

LEMMA CaptureFirstHourStep == ASSUME Inv, CaptureFirstHour PROVE Inv' /\ Effect
<1>1. RowsOK'
  BY TypeParts DEF Inv, RowsOK, CaptureFirstHour, world
<1>2. Inv'
  BY <1>1, StillFrame DEF CaptureFirstHour, Inv, Requested, world
<1>3. Effect
  BY DEF Effect, SamePurchase, SameAttempts, SameMachine, CaptureFirstHour, world
<1>4. QED
  BY <1>2, <1>3

LEMMA CrashStep == ASSUME Inv, NEW p \in Passes, Crash(p) PROVE Inv' /\ Effect
<1>1. Moves(p) /\ run'[p] = Idle
  BY EndMoves DEF Inv, Crash
<1>2. Knows(run'[p]) /\ run'[p].at # "post" /\ server.state # "none"
  BY <1>1 DEF Inv, Fresh, Crash, Knows, Idle
<1>3. crashes' \in 0..MaxCrashes
  BY CreateAssumption DEF Crash, Inv, TypeOK
<1>4. QED
  BY <1>1, <1>2, <1>3, ThinkFrame DEF Crash

-----------------------------------------------------------------------------
LEMMA ConfirmingStep == ASSUME Inv, NEW c \in Passes, Confirming(c) PROVE Inv' /\ Effect
BY WriteSnapshotStep, BindQuoteStep, ReserveFirstHourStep, RegisterStep, AuditStep, QuarantineStep,
   ReleaseCreationHoldStep DEF Confirming

LEMMA WorkingStep == ASSUME Inv, NEW w \in Passes, Working(w) PROVE Inv' /\ Effect
<1>1. FindNothing(w) => Inv' /\ Effect
  BY FencedStep DEF FindNothing
<1>2. QED
  BY <1>1, QuarantineStep, ReserveFirstHourStep, ClaimStep, StartAttemptStep, PostStep,
     RecordRefusalStep, RecordUnknownStep, RecordAcceptanceStep, CompleteStep, FailOperationStep,
     RequeueOperationStep, ReleaseCreationHoldStep, ResumeStep, FindStep DEF Working

LEMMA InvStep == Inv /\ [Next]_vars => Inv' /\ Effect
<1> SUFFICES ASSUME Inv, [Next]_vars PROVE Inv' /\ Effect
  OBVIOUS
<1>1. CASE UNCHANGED vars
  <2>1. TypeOK' /\ Effect
    BY <1>1 DEF vars, Inv, TypeOK, Effect, SamePurchase, SameAttempts, SameMachine
  <2>2. Fresh' /\ OpOK(op') /\ Requested' /\ MoneyOK' /\ Apart'
    BY <1>1 DEF vars, Inv, Fresh, OpOK, Requested, MoneyOK, Apart
  <2>3. \A p \in Passes : Knows(run[p])'
    BY <1>1 DEF vars, Inv, Knows
  <2>4. QED
    BY <2>1, <2>2, <2>3 DEF Inv
<1>2. CASE \E c \in Clicks : Confirm(c) \/ Replay(c) \/ Confirming(c) \/ Abort(c) \/ Crash(c)
  BY <1>2, ConfirmStep, ReplayStep, ConfirmingStep, AbortStep, CrashStep DEF Passes
<1>3. CASE \E w \in Staff :
         TakeIntent(w) \/ QuarantineIntent(w) \/ Reconcile(w) \/ Working(w) \/ Abort(w) \/ Crash(w)
  BY <1>3, TakeIntentStep, QuarantineIntentStep, ReconcileStep, WorkingStep, AbortStep, CrashStep
  DEF Passes
<1>4. CASE (\E a \in Accounts : Provide(a)) \/ Expire \/ CaptureFirstHour
  BY <1>4, ProvideStep, ExpireStep, CaptureFirstHourStep
<1>5. QED
  BY <1>1, <1>2, <1>3, <1>4 DEF Next

LEMMA InvInvariant == Spec => []Inv
BY InvInit, InvStep, PTL DEF Spec

-----------------------------------------------------------------------------
(* The rows of one intent, the receipts and what every pass holds keep     *)
(* their types; no account takes on more than one create request.          *)
THEOREM TypeCorrect == Spec => [](TypeOK /\ \A a \in Accounts : posts[a] <= 1)
<1>1. Inv => TypeOK /\ \A a \in Accounts : posts[a] <= 1
  BY DEF Inv, Requested
<1>2. QED
  BY InvInvariant, <1>1, PTL

(***************************************************************************)
(* process_server records the attempt and names the account on the server  *)
(* before it asks, and the receipts keep every later decision away from a  *)
(* machine that may exist: it can always be found, and it is paid for.     *)
(***************************************************************************)
THEOREM EveryMachineFindable == Spec => []MachineIsFindable
<1>1. Inv => MachineIsFindable
  <2> SUFFICES ASSUME Inv, NEW a \in Accounts, prepaid, posts[a] > 0
               PROVE  /\ server.account = a /\ InCreate
                      /\ op.phase[a] \in {"sent", "outcome_unknown", "accepted"}
                      /\ hold \in {"created", "captured"}
    BY DEF MachineIsFindable
  <2>1. op.phase[a] \in Holding /\ a \in Open(op) /\ server.account = a
    BY DEF Inv, Requested, Open, Holding
  <2>2. op.status \in {"in_flight", "outcome_unknown", "completed"}
    BY <2>1, TypeParts DEF Inv, OpOK, Holding, RowsOK, Operation
  <2>3. server.state \in {"requested", "provisioning"} /\ hold \in {"created", "captured"}
    BY <2>2, TypeParts DEF Inv, MoneyOK, Fresh, RowsOK, Server
  <2>4. QED
    BY <2>1, <2>3 DEF InCreate, Holding
<1>2. QED
  BY InvInvariant, <1>1, PTL

-----------------------------------------------------------------------------
(* How the receipts are read by Fulfilment. *)
Owner(o) == IF \E a \in Open(o) : o.phase[a] # "refused"
            THEN CHOOSE a \in Open(o) : o.phase[a] # "refused" ELSE None

LEMMA OwnerHolds ==
    ASSUME NEW o, OpOK(o)
    PROVE  /\ Holders(o) = {} => Owner(o) = None
           /\ \A a \in Accounts : Holders(o) = {a} => Owner(o) = a
           /\ Holders(o) = {} \/ \E a \in Accounts : Holders(o) = {a}
<1>1. \A a : a \in Holders(o) <=> a \in Open(o) /\ o.phase[a] # "refused"
  BY DEF Holders, Holding, Open
<1>2. Holders(o) = {} => Owner(o) = None
  BY <1>1 DEF Owner
<1>3. ASSUME NEW a \in Accounts, Holders(o) = {a} PROVE Owner(o) = a
  BY <1>1, <1>3 DEF Owner
<1>4. ASSUME NEW a \in Holders(o) PROVE Holders(o) = {a} /\ a \in Accounts
  BY <1>1, <1>4 DEF OpOK, Holders
<1>5. QED
  BY <1>2, <1>3, <1>4

LEMMA RefinementStep ==
    ASSUME Inv, Inv', Effect
    PROVE  [Pool!FulfilmentNext]_(Pool!fulfilmentVars)
<1>1. OpOK(op) /\ OpOK(op') /\ posts \in [Accounts -> 0..2] /\ None \notin Accounts
  BY TypeParts, CreateAssumption DEF Inv, RowsOK
<1>2. Holders(op') = Holders(op) => Owner(op') = Owner(op)
  BY <1>1, OwnerHolds
<1>3. CASE UNCHANGED <<prepaid, hold>> /\ SamePurchase
  BY <1>2, <1>3
  DEF Pool!fulfilmentVars, SamePurchase, SameAttempts, SameMachine, Owner, Refusers
<1>4. CASE UNCHANGED prepaid /\ hold = "none" /\ hold' = "created" /\ SamePurchase
  BY <1>2, <1>4
  DEF Pool!FulfilmentNext, Pool!Reserve, SamePurchase, SameAttempts, SameMachine, Owner, Refusers
<1>5. CASE /\ UNCHANGED prepaid /\ hold = "created" /\ hold' = "captured" /\ SamePurchase
           /\ server.machine # None
  BY <1>2, <1>5
  DEF Pool!FulfilmentNext, Pool!Pay, SamePurchase, SameAttempts, SameMachine, Owner, Refusers
<1>6. CASE /\ UNCHANGED prepaid /\ hold = "created" /\ hold' = "released" /\ SamePurchase
           /\ prepaid => Holders(op) = {}
  <2>1. CASE prepaid
    <3>1. Owner(op) = None
      BY <1>1, <1>6, <2>1, OwnerHolds
    <3>2. QED
      BY <1>2, <1>6, <3>1
      DEF Pool!FulfilmentNext, Pool!Return, SamePurchase, SameAttempts, SameMachine, Owner, Refusers
  <2>2. CASE ~prepaid
    BY <1>2, <1>6, <2>2
    DEF Pool!FulfilmentNext, Pool!Forget, SamePurchase, SameAttempts, SameMachine, Owner, Refusers
  <2>3. QED
    BY <2>1, <2>2
<1>7. CASE ~prepaid /\ UNCHANGED <<prepaid, hold>> /\ SameAttempts /\ server'.machine = None
  BY <1>2, <1>7 DEF Pool!FulfilmentNext, Pool!Forget, SameAttempts, Owner, Refusers
<1>8. ASSUME NEW a \in Accounts, UNCHANGED <<prepaid, hold>>,
             /\ Holders(op) = {} /\ a \notin Refusers(op) /\ (prepaid => hold = "created")
             /\ Holders(op') = {a} /\ Refusers(op') = Refusers(op) /\ posts' = posts /\ SameMachine
      PROVE  Pool!FulfilmentNext
  <2>1. Owner(op) = None /\ Owner(op') = a
    BY <1>1, <1>8, OwnerHolds
  <2>2. Pool!Ask(a)
    BY <1>8, <2>1 DEF Pool!Ask, SameMachine, Owner, Refusers
  <2>3. QED
    BY <2>2 DEF Pool!FulfilmentNext
<1>9. ASSUME NEW a \in Accounts, UNCHANGED <<prepaid, hold>>,
             /\ Holders(op) = {a} /\ \A b \in Accounts : posts[b] = 0
             /\ posts' = [posts EXCEPT ![a] = 1]
             /\ Holders(op') = {a} /\ Refusers(op') = Refusers(op) /\ SameMachine
      PROVE  Pool!FulfilmentNext
  <2>1. Owner(op) = a /\ Owner(op') = a
    BY <1>1, <1>9, OwnerHolds
  <2>2. Pool!Make(a)
    BY <1>9, <2>1 DEF Pool!Make, SameMachine, Owner, Refusers
  <2>3. QED
    BY <2>2 DEF Pool!FulfilmentNext
<1>10. ASSUME NEW a \in Accounts, UNCHANGED <<prepaid, hold>>,
              /\ Holders(op) = {a} /\ posts[a] = 0
              /\ Holders(op') = {} /\ Refusers(op') = Refusers(op) \cup {a} /\ posts' = posts
              /\ SameMachine
       PROVE  Pool!FulfilmentNext
  <2>1. Owner(op) = a /\ Owner(op') = None
    BY <1>1, <1>10, OwnerHolds
  <2>2. Pool!Refuse(a)
    BY <1>10, <2>1 DEF Pool!Refuse, SameMachine, Owner, Refusers
  <2>3. QED
    BY <2>2 DEF Pool!FulfilmentNext
<1>11. ASSUME NEW a \in Accounts, UNCHANGED <<prepaid, hold>>,
              Holders(op) = {a} /\ posts[a] = 1 /\ SameAttempts /\ server'.machine = a
       PROVE  Pool!FulfilmentNext
  <2>1. Owner(op) = a /\ Owner(op') = a
    BY <1>1, <1>2, <1>11, OwnerHolds DEF SameAttempts
  <2>2. Pool!Attach
    BY <1>1, <1>11, <2>1 DEF Pool!Attach, SameAttempts, Owner, Refusers
  <2>3. QED
    BY <2>2 DEF Pool!FulfilmentNext
<1>12. QED
  BY <1>3, <1>4, <1>5, <1>6, <1>7, <1>8, <1>9, <1>10, <1>11 DEF Effect

(***************************************************************************)
(* ImplementsFulfilment: confirmations that repeat and fail half-way,      *)
(* passes that die, overlap and outlive their claim are, to the customer,  *)
(* one reservation, one machine on the account asked last, one payment or  *)
(* one refund.                                                             *)
(***************************************************************************)
THEOREM CreationsAreFulfilments == Spec => ImplementsFulfilment
<1>1. Init => Pool!FulfilmentInit
  BY DEF Init, Pool!FulfilmentInit, Open
<1>2. Inv /\ Inv' /\ [Next]_vars => [Pool!FulfilmentNext]_(Pool!fulfilmentVars)
  BY InvStep, RefinementStep
<1>3. QED
  BY <1>1, <1>2, InvInvariant, PTL DEF Spec, ImplementsFulfilment, Pool!FulfilmentSpec
=============================================================================

-------------------------- MODULE PrepaidHoursProofs --------------------------
(***************************************************************************)
(* Proofs about PrepaidHours, for any lengths of hour, window and grace,   *)
(* any rates and any number of overlapping passes: every covered hour was  *)
(* debited its bound amount, an hour is charged only when it falls due,    *)
(* and - while passes do not overlap - a deletion waits for a full grace.  *)
(*                                                                         *)
(* A debit and its coverage are two transactions.  HoursOK says what the   *)
(* stored rows promise at any instant between them, PassOK what a pass     *)
(* that is on its way from one to the other knows of the rows; neither     *)
(* needs the advisory lock: a binding, a debit and a paid hour only grow.  *)
(***************************************************************************)
EXTENDS PrepaidHours, TLAPS

(***************************************************************************)
(* Coverage ends at the start of an hour.  The hours before it are paid    *)
(* for; a debited hour has its bound amount, follows the coverage at once  *)
(* and is not further away than the renewal window.                        *)
(***************************************************************************)
HoursOK(paid, per, led) ==
    /\ paid \in Starts \union {Never}
    /\ per[0] # Unbound
    /\ \A s \in Starts :
           /\ s < paid => per[s].status = "paid" /\ led[s] # 0
           /\ led[s] # 0 => /\ led[s] = per[s].rate /\ (s <= paid \/ s = 0)
                            /\ s <= Horizon + Window

(* The part of a pass that renews, and the hour it is about. *)
Renewing == {"repair", "list", "bind", "charge", "mark"}

(***************************************************************************)
(* What a pass knows: the minute it took as now is this one or the last;   *)
(* the hour it renews was the next one then and in the window; it is bound *)
(* before it is charged and debited before it is marked.                   *)
(***************************************************************************)
PassOK(ps, paid, per, led, t) ==
    /\ ps.at \in Renewing =>
           IF ps.late THEN ps.moment \in {t - 1, t} ELSE ps.moment = t
    /\ ps.at \in {"bind", "charge", "mark"} =>
           /\ ps.rec.paid \in Starts /\ ps.rec.paid <= paid
           /\ ps.rec.paid - Window <= ps.moment /\ ps.moment < ps.rec.paid + Hour
    /\ ps.at \in {"charge", "mark"} => per[ps.rec.paid] # Unbound
    /\ ps.at = "mark" => led[ps.rec.paid] # 0

(* The inductive invariant. *)
Inv ==
    /\ TypeOK
    /\ HoursOK(row.paid, period, ledger)
    /\ \A p \in Passes : PassOK(pass[p], row.paid, period, ledger, now)
    /\ sweep = "cover" => ledger[0] # 0

-----------------------------------------------------------------------------
(* Hours follow one another. *)

LEMMA Multiples ==
    ASSUME NEW a \in Nat, NEW b \in Nat \ {0}
    PROVE  a % b = 0 <=> \E k \in Nat : a = k * b
<1>1. ASSUME a % b = 0 PROVE \E k \in Nat : a = k * b
  BY <1>1
<1>2. ASSUME NEW k \in Nat PROVE (k * b) % b = 0
  OBVIOUS
<1>3. QED
  BY <1>1, <1>2

LEMMA StartsGoOn ==
    ASSUME NEW s \in Starts, s + Hour \in Times
    PROVE  s + Hour \in Starts
<1>1. s \in Nat /\ Hour \in Nat \ {0} /\ s + Hour \in Nat
  BY TimeAssumption DEF Starts, Times
<1>2. PICK k \in Nat : s = k * Hour
  BY <1>1, Multiples DEF Starts
<1>3. (k + 1) * Hour = k * Hour + Hour /\ k + 1 \in Nat
  BY <1>1
<1>4. s + Hour = (k + 1) * Hour
  BY <1>2, <1>3
<1>5. (s + Hour) % Hour = 0
  BY <1>1, <1>3, <1>4, Multiples
<1>6. QED
  BY <1>5 DEF Starts

(* No hour starts within another. *)
LEMMA StartsApart ==
    ASSUME NEW s \in Starts, NEW t \in Starts, t < s + Hour
    PROVE  t <= s
<1>1. s \in Nat /\ t \in Nat /\ Hour \in Nat \ {0}
  BY TimeAssumption DEF Starts, Times
<1>2. PICK j \in Nat : s = j * Hour
  BY <1>1, Multiples DEF Starts
<1>3. PICK k \in Nat : t = k * Hour
  BY <1>1, Multiples DEF Starts
<1>4. CASE k <= j
  <2>1. k * Hour <= j * Hour
    BY <1>1, <1>4
  <2>2. QED
    BY <1>2, <1>3, <2>1
<1>5. CASE j + 1 <= k
  <2>1. (j + 1) * Hour <= k * Hour
    BY <1>1, <1>5
  <2>2. (j + 1) * Hour = j * Hour + Hour
    BY <1>1
  <2>3. QED
    BY <1>1, <1>2, <1>3, <2>1, <2>2
<1>6. QED
  BY <1>4, <1>5

LEMMA StartsFacts ==
    /\ 0 \in Starts
    /\ \A s \in Starts : s \in Nat /\ s \in Times
    /\ Hour \in Nat \ {0} /\ Horizon \in Nat \ {0} /\ Window \in Nat \ {0} /\ Window < Hour
    /\ Times \subseteq Nat
<1>1. Hour \in Nat \ {0} /\ Horizon \in Nat \ {0} /\ Window \in Nat \ {0} /\ Window < Hour
  BY TimeAssumption
<1>2. 0 % Hour = 0
  <2>1. 0 = 0 * Hour
    BY <1>1
  <2>2. QED
    BY <1>1, <2>1, Multiples
<1>3. 0 \in Times
  BY <1>1 DEF Times
<1>4. QED
  BY <1>1, <1>2, <1>3 DEF Starts, Times

-----------------------------------------------------------------------------
(* What every step keeps: coverage, bindings and debits only grow. *)

Grows(paid, per, led, paid2, per2, led2) ==
    /\ paid <= paid2
    /\ \A s \in Starts : /\ per[s] # Unbound => per2[s] # Unbound
                         /\ led[s] # 0 => led2[s] # 0

LEMMA InstantsOfRow ==
    ASSUME NEW r \in Row
    PROVE  r.paid \in Int /\ r.zero \in Int
<1>1. Times \union {Never} \subseteq Int
  BY StartsFacts DEF Never
<1>2. r.paid \in Times \union {Never} /\ r.zero \in Times \union {Never}
  BY DEF Row
<1>3. QED
  BY <1>1, <1>2

LEMMA NothingShrinks ==
    ASSUME TypeOK, row'.paid = row.paid, period' = period, ledger' = ledger
    PROVE  Grows(row.paid, period, ledger, row'.paid, period', ledger')
<1>1. row.paid \in Int
  BY InstantsOfRow DEF TypeOK
<1>2. QED
  BY <1>1 DEF Grows

(* So what a pass knows stays true while others step. *)
LEMMA KnownStays ==
    ASSUME NEW ps \in Pass \union {Idle},
           NEW paid \in Int, NEW per, NEW led, NEW paid2 \in Int, NEW per2, NEW led2, NEW t,
           PassOK(ps, paid, per, led, t), Grows(paid, per, led, paid2, per2, led2)
    PROVE  PassOK(ps, paid2, per2, led2, t)
<1>1. \A s \in Starts : s \in Int
  BY StartsFacts
<1>2. ASSUME ps.at \in {"bind", "charge", "mark"}
      PROVE  /\ ps.rec.paid \in Starts /\ ps.rec.paid <= paid2
             /\ ps.rec.paid - Window <= ps.moment /\ ps.moment < ps.rec.paid + Hour
  <2>1. /\ ps.rec.paid \in Starts /\ ps.rec.paid <= paid
        /\ ps.rec.paid - Window <= ps.moment /\ ps.moment < ps.rec.paid + Hour
    BY <1>2 DEF PassOK
  <2>2. ps.rec.paid <= paid2
    BY <1>1, <2>1 DEF Grows
  <2>3. QED
    BY <2>1, <2>2
<1>3. ASSUME ps.at \in {"charge", "mark"} PROVE per2[ps.rec.paid] # Unbound
  <2>1. ps.rec.paid \in Starts /\ per[ps.rec.paid] # Unbound
    BY <1>3 DEF PassOK
  <2>2. QED
    BY <2>1 DEF Grows
<1>4. ASSUME ps.at = "mark" PROVE led2[ps.rec.paid] # 0
  <2>1. ps.rec.paid \in Starts /\ led[ps.rec.paid] # 0
    BY <1>4 DEF PassOK
  <2>2. QED
    BY <2>1 DEF Grows
<1>5. QED
  BY <1>2, <1>3, <1>4 DEF PassOK

(* A step of one pass, or of none of them. *)
LEMMA OnePassMoves ==
    ASSUME Inv, NEW p \in Passes, NEW n \in Pass \union {Idle},
           pass' = [pass EXCEPT ![p] = n], now' = now, row'.paid \in Int,
           Grows(row.paid, period, ledger, row'.paid, period', ledger'),
           PassOK(n, row'.paid, period', ledger', now)
    PROVE  /\ pass' \in [Passes -> Pass \union {Idle}]
           /\ \A q \in Passes : PassOK(pass[q], row.paid, period, ledger, now)'
<1>1. pass \in [Passes -> Pass \union {Idle}] /\ row.paid \in Int
  BY InstantsOfRow DEF Inv, TypeOK
<1>2. pass' \in [Passes -> Pass \union {Idle}]
  BY <1>1
<1>3. ASSUME NEW q \in Passes PROVE PassOK(pass'[q], row'.paid, period', ledger', now')
  <2>1. CASE q = p
    BY <1>1, <2>1
  <2>2. CASE q # p
    <3>1. pass'[q] = pass[q] /\ PassOK(pass[q], row.paid, period, ledger, now)
      BY <1>1, <2>2 DEF Inv
    <3>2. PassOK(pass[q], row'.paid, period', ledger', now)
      BY <1>1, <3>1, KnownStays
    <3>3. QED
      BY <3>1, <3>2
  <2>3. QED
    BY <2>1, <2>2
<1>4. QED
  BY <1>2, <1>3

LEMMA NoPassMoves ==
    ASSUME Inv, pass' = pass, now' = now, row'.paid \in Int,
           Grows(row.paid, period, ledger, row'.paid, period', ledger')
    PROVE  /\ pass' \in [Passes -> Pass \union {Idle}]
           /\ \A q \in Passes : PassOK(pass[q], row.paid, period, ledger, now)'
<1>1. pass \in [Passes -> Pass \union {Idle}] /\ row.paid \in Int
  BY InstantsOfRow DEF Inv, TypeOK
<1>2. ASSUME NEW q \in Passes PROVE PassOK(pass[q], row'.paid, period', ledger', now)
  BY <1>1, KnownStays DEF Inv
<1>3. QED
  BY <1>1, <1>2

(***************************************************************************)
(* mark_paid of a debited hour: coverage moves by the hour, or nothing     *)
(* does.                                                                   *)
(***************************************************************************)
LEMMA MarkingOK ==
    ASSUME TypeOK, HoursOK(row.paid, period, ledger), NEW s \in Starts, ledger[s] # 0,
           MarkPaid(s), ledger' = ledger
    PROVE  /\ row' \in Row /\ row'.state = row.state /\ row'.zero = row.zero
           /\ period' \in [Starts -> [rate : Rates, status : {"pending", "paid"}] \union {Unbound}]
           /\ HoursOK(row'.paid, period', ledger')
           /\ Grows(row.paid, period, ledger, row'.paid, period', ledger')
<1>1. CASE ~MarkablePaid(s)
  <2>1. row' = row /\ period' = period
    BY <1>1 DEF MarkPaid
  <2>2. QED
    BY <2>1, NothingShrinks DEF TypeOK
<1>2. CASE MarkablePaid(s)
  <2>1. /\ period' = [period EXCEPT ![s].status = "paid"]
        /\ row' = [row EXCEPT !.paid = s + Hour]
    BY <1>2 DEF MarkPaid
  <2>2. /\ s \in Nat /\ s <= Horizon + Window
        /\ period[s].status = "pending" /\ (row.paid = s \/ (row.paid = -1 /\ s = 0))
    BY <1>2, StartsFacts DEF MarkablePaid, HoursOK, Never
  <2>3. s + Hour \in Times /\ s + Hour \in Starts /\ s + Hour \in Nat
    <3>1. s + Hour \in Times
      BY <2>2, StartsFacts DEF Times
    <3>2. QED
      BY <3>1, StartsGoOn, StartsFacts
  <2>4. row' \in Row /\ row'.paid = s + Hour /\ row'.state = row.state /\ row'.zero = row.zero
    BY <2>1, <2>3 DEF TypeOK, Row
  <2>5. /\ period[s] \in [rate : Rates, status : {"pending", "paid"}]
        /\ period \in [Starts -> [rate : Rates, status : {"pending", "paid"}] \union {Unbound}]
    BY <2>2 DEF TypeOK, Unbound
  <2>6. /\ period'[s] = [rate |-> period[s].rate, status |-> "paid"]
        /\ \A t \in Starts \ {s} : period'[t] = period[t]
    BY <2>1, <2>5
  <2>7. period' \in [Starts -> [rate : Rates, status : {"pending", "paid"}] \union {Unbound}]
    BY <2>1, <2>5, <2>6
  <2>8. period'[s] # Unbound /\ period'[s].rate = period[s].rate /\ period'[s].status = "paid"
    BY <2>6 DEF Unbound
  <2>9. \A t \in Starts : t < s + Hour => t < row.paid \/ t = s
    <3>1. SUFFICES ASSUME NEW t \in Starts, t < s + Hour PROVE t < row.paid \/ t = s
      OBVIOUS
    <3>2. t <= s /\ t \in Nat
      BY <3>1, StartsApart, StartsFacts
    <3>3. QED
      BY <2>2, <3>2
  <2>10. ASSUME NEW t \in Starts
         PROVE  /\ t < s + Hour => period'[t].status = "paid" /\ ledger[t] # 0
                /\ ledger[t] # 0 => /\ ledger[t] = period'[t].rate /\ (t <= s + Hour \/ t = 0)
                                    /\ t <= Horizon + Window
    <3>0. t \in Nat
      BY StartsFacts
    <3>1. CASE t = s
      BY <2>2, <2>8, <3>0, <3>1, StartsFacts DEF HoursOK
    <3>2. CASE t # s
      BY <2>2, <2>6, <2>9, <3>0, <3>2, StartsFacts DEF HoursOK
    <3>3. QED
      BY <3>1, <3>2
  <2>11. period'[0] # Unbound
    BY <2>6, <2>8, StartsFacts DEF HoursOK
  <2>12. HoursOK(row'.paid, period', ledger')
    BY <2>3, <2>4, <2>10, <2>11 DEF HoursOK
  <2>13. Grows(row.paid, period, ledger, row'.paid, period', ledger')
    BY <2>2, <2>4, <2>6, <2>8, StartsFacts DEF Grows
  <2>14. QED
    BY <2>4, <2>7, <2>12, <2>13
<1>3. QED
  BY <1>1, <1>2


-----------------------------------------------------------------------------
(* The types that no other fact leans on. *)
Rest ==
    /\ remote \in {"building", "running", "stopped"}
    /\ balance \in 0..MaxBalance
    /\ locked \in Passes \union {Nobody}
    /\ burnt \subseteq ({"unpaid", "zero"} \X (Times \union {Never}))
    /\ ran \in BOOLEAN
    /\ rich \in 0..Horizon
    /\ {lost, faults, flips} \subseteq Nat /\ lost + faults + flips <= MaxTrouble

Periods == [Starts -> [rate : Rates, status : {"pending", "paid"}] \union {Unbound}]

(* What has to be shown of a step of pass p. *)
LEMMA PassStepKeeps ==
    ASSUME Inv, NEW p \in Passes, NEW n \in Pass \union {Idle},
           pass' = [pass EXCEPT ![p] = n], now' = now, sweep' = sweep, Rest',
           row' \in Row, period' \in Periods, ledger' \in [Starts -> Rates \union {0}],
           HoursOK(row'.paid, period', ledger'),
           Grows(row.paid, period, ledger, row'.paid, period', ledger'),
           PassOK(n, row'.paid, period', ledger', now)
    PROVE  Inv'
<1>1. row'.paid \in Int
  BY InstantsOfRow
<1>2. /\ pass' \in [Passes -> Pass \union {Idle}]
      /\ \A q \in Passes : PassOK(pass[q], row.paid, period, ledger, now)'
  BY <1>1, OnePassMoves
<1>3. now' \in 0..Horizon /\ sweep' \in Sweep \union {"idle"}
  BY DEF Inv, TypeOK
<1>4. TypeOK'
  BY <1>2, <1>3 DEF TypeOK, Rest, Periods
<1>5. sweep' = "cover" => ledger'[0] # 0
  BY StartsFacts DEF Inv, Grows
<1>6. QED
  BY <1>2, <1>4, <1>5 DEF Inv

(* The common case: the step leaves coverage, bindings and debits alone. *)
LEMMA PassOnlyKeeps ==
    ASSUME Inv, NEW p \in Passes, NEW n \in Pass \union {Idle},
           pass' = [pass EXCEPT ![p] = n], now' = now, sweep' = sweep, Rest',
           row' \in Row, row'.paid = row.paid, UNCHANGED <<period, ledger>>,
           PassOK(n, row.paid, period, ledger, now)
    PROVE  Inv'
<1>1. HoursOK(row'.paid, period', ledger')
  BY DEF Inv
<1>2. Grows(row.paid, period, ledger, row'.paid, period', ledger')
  BY NothingShrinks DEF Inv
<1>3. period' \in Periods /\ ledger' \in [Starts -> Rates \union {0}]
  BY DEF Inv, TypeOK, Periods
<1>4. PassOK(n, row'.paid, period', ledger', now)
  OBVIOUS
<1>5. QED
  BY <1>1, <1>2, <1>3, <1>4, PassStepKeeps

(* And what of a step of something else. *)
LEMMA OtherStepKeeps ==
    ASSUME Inv, pass' = pass, now' = now, sweep' \in Sweep \union {"idle"}, Rest',
           row' \in Row, period' \in Periods, ledger' \in [Starts -> Rates \union {0}],
           HoursOK(row'.paid, period', ledger'),
           Grows(row.paid, period, ledger, row'.paid, period', ledger'),
           sweep' = "cover" => ledger'[0] # 0
    PROVE  Inv'
<1>1. row'.paid \in Int
  BY InstantsOfRow
<1>2. /\ pass' \in [Passes -> Pass \union {Idle}]
      /\ \A q \in Passes : PassOK(pass[q], row.paid, period, ledger, now)'
  BY <1>1, NoPassMoves
<1>3. now' \in 0..Horizon
  BY DEF Inv, TypeOK
<1>4. TypeOK'
  BY <1>2, <1>3 DEF TypeOK, Rest, Periods
<1>5. QED
  BY <1>2, <1>4 DEF Inv

LEMMA OtherOnlyKeeps ==
    ASSUME Inv, pass' = pass, now' = now, sweep' \in Sweep \union {"idle"}, Rest',
           row' \in Row, row'.paid = row.paid, UNCHANGED <<period, ledger>>,
           sweep' = "cover" => ledger[0] # 0
    PROVE  Inv'
<1>1. HoursOK(row'.paid, period', ledger')
  BY DEF Inv
<1>2. Grows(row.paid, period, ledger, row'.paid, period', ledger')
  BY NothingShrinks DEF Inv
<1>3. period' \in Periods /\ ledger' \in [Starts -> Rates \union {0}]
  BY DEF Inv, TypeOK, Periods
<1>4. QED
  BY <1>1, <1>2, <1>3, OtherStepKeeps

(* A pass past the renewal, or at its end, has nothing to know. *)
LEMMA PastRenewal ==
    ASSUME NEW ps, ps.at \notin Renewing, NEW paid, NEW per, NEW led, NEW t
    PROVE  PassOK(ps, paid, per, led, t)
BY DEF PassOK, Renewing

LEMMA InitOK == Init => Inv
<1>1. SUFFICES ASSUME Init PROVE Inv
  OBVIOUS
<1>2. NoRow \in Row /\ NoRow.paid = -1 /\ NoRow.paid = Never
  BY DEF NoRow, Row, Never, Alive
<1>3. PICK rate \in Rates :
          /\ period = [s \in Starts |-> IF s = 0 THEN [rate |-> rate, status |-> "pending"]
                                                 ELSE Unbound]
          /\ balance \in rate..MaxBalance
  BY <1>1 DEF Init
<1>4. rate \in Nat \ {0}
  BY MoneyAssumption
<1>5. period[0] = [rate |-> rate, status |-> "pending"] /\ period[0] # Unbound
  BY <1>3, <1>4, StartsFacts DEF Unbound
<1>6. period \in Periods
  BY <1>3 DEF Periods
<1>7. Rest
  <2>1. balance \in 0..MaxBalance
    BY <1>3, <1>4, MoneyAssumption
  <2>2. /\ remote = "building" /\ locked = Nobody /\ burnt = {} /\ ran = FALSE
        /\ rich = 0 /\ lost = 0 /\ faults = 0 /\ flips = 0
    BY <1>1 DEF Init
  <2>3. 0 \in 0..Horizon /\ {lost, faults, flips} \subseteq Nat /\ lost + faults + flips <= MaxTrouble
    BY <2>2, TroubleAssumption, StartsFacts
  <2>4. QED
    BY <2>1, <2>2, <2>3 DEF Rest
<1>8. TypeOK
  <2>1. pass \in [Passes -> Pass \union {Idle}]
    BY <1>1 DEF Init
  <2>2. ledger \in [Starts -> Rates \union {0}]
    BY <1>1 DEF Init
  <2>3. now \in 0..Horizon /\ row \in Row /\ sweep \in Sweep \union {"idle"}
    BY <1>1, <1>2, StartsFacts DEF Init
  <2>4. QED
    BY <1>6, <1>7, <2>1, <2>2, <2>3 DEF TypeOK, Rest, Periods
<1>9. \A s \in Starts : ledger[s] = 0 /\ ~(s < NoRow.paid)
  BY <1>1, <1>2, StartsFacts DEF Init
<1>10. HoursOK(row.paid, period, ledger)
  BY <1>1, <1>2, <1>5, <1>9 DEF Init, HoursOK
<1>11. \A p \in Passes : PassOK(pass[p], row.paid, period, ledger, now)
  <2>1. Idle.at \notin Renewing
    BY DEF Idle, Renewing
  <2>2. QED
    BY <1>1, <2>1, PastRenewal DEF Init
<1>12. QED
  BY <1>1, <1>8, <1>10, <1>11 DEF Inv, Init

-----------------------------------------------------------------------------
(* The steps of the customer, the machine and the clock. *)

LEMMA TypeParts ==
    ASSUME Inv
    PROVE  /\ now \in 0..Horizon /\ row \in Row /\ period \in Periods
           /\ ledger \in [Starts -> Rates \union {0}]
           /\ pass \in [Passes -> Pass \union {Idle}] /\ sweep \in Sweep \union {"idle"}
           /\ Rest
           /\ HoursOK(row.paid, period, ledger)
BY DEF Inv, TypeOK, Rest, Periods

LEMMA CustomerKeeps ==
    ASSUME Inv, TopUp \/ Spend \/ PowerOn \/ SwitchOff \/ AskDeletion
    PROVE  Inv'
<1>1. pass' = pass /\ now' = now /\ sweep' = sweep /\ UNCHANGED <<period, ledger>>
  BY DEF TopUp, Spend, PowerOn, SwitchOff, AskDeletion, moneyVars
<1>2. row' \in Row /\ row'.paid = row.paid
  BY TypeParts DEF TopUp, Spend, PowerOn, SwitchOff, AskDeletion, rowVars, Row, Alive
<1>3. balance' \in 0..MaxBalance
  BY TypeParts, MoneyAssumption DEF TopUp, Spend, PowerOn, SwitchOff, AskDeletion, moneyVars, Rest
<1>4. remote' \in {"building", "running", "stopped"}
  BY TypeParts DEF TopUp, Spend, PowerOn, SwitchOff, AskDeletion, rowVars, Rest
<1>5. UNCHANGED <<locked, burnt, ran, rich, lost, faults, flips>>
  BY DEF TopUp, Spend, PowerOn, SwitchOff, AskDeletion, boundVars
<1>6. Rest'
  BY <1>3, <1>4, <1>5, TypeParts DEF Rest
<1>7. sweep' \in Sweep \union {"idle"} /\ (sweep' = "cover" => ledger[0] # 0)
  BY <1>1 DEF Inv, TypeOK
<1>8. QED
  BY <1>1, <1>2, <1>6, <1>7, OtherOnlyKeeps

LEMMA MachineKeeps ==
    ASSUME Inv, Build \/ Flip
    PROVE  Inv'
<1>1. pass' = pass /\ now' = now /\ sweep' = sweep /\ row' = row /\ UNCHANGED <<period, ledger>>
  BY DEF Build, Flip, moneyVars
<1>2. remote' \in {"building", "running", "stopped"}
  BY DEF Build, Flip
<1>3. UNCHANGED <<balance, locked, burnt, ran, rich>>
  BY DEF Build, Flip, boundVars, moneyVars
<1>4. {lost, faults, flips}' \subseteq Nat /\ (lost + faults + flips <= MaxTrouble)'
  BY TypeParts, TroubleAssumption DEF Build, Flip, boundVars, Rest, MoreTrouble
<1>5. Rest'
  BY <1>2, <1>3, <1>4, TypeParts DEF Rest
<1>6. sweep' \in Sweep \union {"idle"} /\ (sweep' = "cover" => ledger[0] # 0)
  BY <1>1 DEF Inv, TypeOK
<1>7. QED
  BY <1>1, <1>5, <1>6, OtherOnlyKeeps, TypeParts

(* The minute moves on for every pass at once, and none is left behind by two. *)
LEMMA TickKeeps ==
    ASSUME Inv, Tick
    PROVE  Inv'
<1>1. /\ row' = row /\ period' = period /\ ledger' = ledger /\ sweep' = sweep
      /\ now' = now + 1 /\ now < Horizon
      /\ UNCHANGED <<remote, balance, locked, burnt, rich, lost, faults, flips>> /\ ran' = FALSE
  BY DEF Tick, rowVars, moneyVars, boundVars
<1>2. now \in Nat /\ now' \in 0..Horizon
  BY <1>1, TypeParts, StartsFacts
<1>3. Rest'
  BY <1>1, TypeParts DEF Rest
<1>4. ASSUME NEW p \in Passes
      PROVE  /\ pass'[p] \in Pass \union {Idle}
             /\ PassOK(pass'[p], row.paid, period, ledger, now')
  <2>1. pass'[p] = IF pass[p] = Idle THEN Idle ELSE [pass[p] EXCEPT !.late = TRUE]
    BY DEF Tick
  <2>2. CASE pass[p] = Idle
    <3>1. pass'[p] = Idle /\ Idle.at \notin Renewing
      BY <2>1, <2>2 DEF Idle, Renewing
    <3>2. QED
      BY <3>1, PastRenewal
  <2>3. CASE pass[p] # Idle
    <3>1. PICK n : n = pass'[p]
      OBVIOUS
    <3>2. pass[p] \in Pass /\ ~pass[p].late
      BY <2>3, TypeParts DEF Tick
    <3>3. /\ n \in Pass /\ n.late = TRUE /\ n.at = pass[p].at
          /\ n.moment = pass[p].moment /\ n.rec = pass[p].rec
      BY <2>1, <2>3, <3>1, <3>2 DEF Pass
    <3>4. PassOK(pass[p], row.paid, period, ledger, now)
      BY DEF Inv
    <3>5. n.at \in Renewing => n.moment \in {now' - 1, now'}
      BY <1>1, <1>2, <3>2, <3>3, <3>4 DEF PassOK
    <3>6. PassOK(n, row.paid, period, ledger, now')
      BY <3>3, <3>4, <3>5 DEF PassOK
    <3>7. QED
      BY <3>1, <3>3, <3>6
  <2>4. QED
    BY <2>2, <2>3
<1>5. pass' \in [Passes -> Pass \union {Idle}]
  BY <1>4 DEF Tick
<1>6. TypeOK'
  BY <1>1, <1>2, <1>3, <1>5, TypeParts DEF TypeOK, Rest, Periods
<1>7. QED
  BY <1>1, <1>4, <1>6, TypeParts DEF Inv

-----------------------------------------------------------------------------
(* The steps of the state reconciler. *)

LEMMA SweepKeeps ==
    ASSUME Inv, SweepLooks \/ SweepChecks \/ SweepSaves
    PROVE  Inv'
<1>1. pass' = pass /\ now' = now /\ UNCHANGED <<period, ledger>>
  BY DEF SweepLooks, SweepChecks, SweepSaves, moneyVars
<1>2. row' \in Row /\ row'.paid = row.paid
  BY TypeParts DEF SweepLooks, SweepChecks, SweepSaves, rowVars, Row, Alive
<1>3. UNCHANGED <<remote, balance, locked, burnt, ran, rich, lost, faults, flips>>
  BY DEF SweepLooks, SweepChecks, SweepSaves, rowVars, moneyVars, boundVars
<1>4. Rest'
  BY <1>3, TypeParts DEF Rest
<1>5. sweep' \in Sweep \union {"idle"} /\ sweep' # "cover"
  BY DEF SweepLooks, SweepChecks, SweepSaves, SweepTo, SweepEnds, Sweep
<1>6. QED
  BY <1>1, <1>2, <1>4, <1>5, OtherOnlyKeeps

(* The hold of the first hour is captured at its bound amount. *)
LEMMA CaptureKeeps ==
    ASSUME Inv, SweepCaptures
    PROVE  Inv'
<1>1. /\ pass' = pass /\ now' = now /\ row' = row /\ period' = period
      /\ UNCHANGED <<remote, locked, burnt, ran, rich, lost, faults, flips>>
  BY DEF SweepCaptures, rowVars, boundVars
<1>2. CASE ledger[0] = 0 /\ balance < period[0].rate
  <2>1. sweep' = "idle" /\ ledger' = ledger /\ balance' = balance
    BY <1>2 DEF SweepCaptures, SweepEnds
  <2>2. Rest'
    BY <1>1, <2>1, TypeParts DEF Rest
  <2>3. QED
    BY <1>1, <2>1, <2>2, OtherOnlyKeeps, TypeParts
<1>3. CASE ~(ledger[0] = 0 /\ balance < period[0].rate)
  <2>1. /\ ledger' = [ledger EXCEPT ![0] = period[0].rate]
        /\ balance' = IF ledger[0] = 0 THEN balance - period[0].rate ELSE balance
        /\ sweep' = "cover"
    BY <1>3 DEF SweepCaptures, SweepTo
  <2>2. period[0].rate \in Rates /\ period[0].rate \in Nat \ {0}
    <3>1. period[0] \in [rate : Rates, status : {"pending", "paid"}]
      BY TypeParts, StartsFacts DEF Periods, HoursOK
    <3>2. QED
      BY <3>1, MoneyAssumption
  <2>3. balance' \in 0..MaxBalance
    BY <1>3, <2>1, <2>2, TypeParts, MoneyAssumption DEF Rest
  <2>4. Rest'
    BY <1>1, <2>3, TypeParts DEF Rest
  <2>5. /\ ledger' \in [Starts -> Rates \union {0}] /\ ledger'[0] = period[0].rate
        /\ \A s \in Starts \ {0} : ledger'[s] = ledger[s]
    BY <2>1, <2>2, TypeParts, StartsFacts
  <2>6. HoursOK(row'.paid, period', ledger')
    <3>1. 0 <= Horizon + Window
      BY StartsFacts
    <3>2. QED
      BY <1>1, <2>2, <2>5, <3>1, TypeParts DEF HoursOK
  <2>7. Grows(row.paid, period, ledger, row'.paid, period', ledger')
    BY <1>1, <2>2, <2>5, InstantsOfRow, TypeParts DEF Grows
  <2>8. sweep' \in Sweep \union {"idle"} /\ ledger'[0] # 0
    BY <2>1, <2>2, <2>5 DEF Sweep
  <2>9. QED
    BY <1>1, <2>4, <2>5, <2>6, <2>7, <2>8, OtherStepKeeps, TypeParts
<1>4. QED
  BY <1>2, <1>3

LEMMA CoverKeeps ==
    ASSUME Inv, SweepCovers
    PROVE  Inv'
<1>1. /\ pass' = pass /\ now' = now /\ ledger' = ledger /\ MarkPaid(0)
      /\ UNCHANGED <<remote, balance, locked, burnt, ran, rich, lost, faults, flips>>
  BY DEF SweepCovers, boundVars
<1>2. ledger[0] # 0
  BY DEF SweepCovers, Inv
<1>3. /\ row' \in Row /\ period' \in Periods
      /\ HoursOK(row'.paid, period', ledger')
      /\ Grows(row.paid, period, ledger, row'.paid, period', ledger')
  BY <1>1, <1>2, StartsFacts, MarkingOK DEF Inv, Periods
<1>4. Rest'
  BY <1>1, TypeParts DEF Rest
<1>5. sweep' \in Sweep \union {"idle"} /\ sweep' # "cover"
  BY DEF SweepCovers, SweepTo, SweepEnds, Sweep
<1>6. ledger' \in [Starts -> Rates \union {0}]
  BY <1>1, TypeParts
<1>7. QED
  BY <1>1, <1>3, <1>4, <1>5, <1>6, OtherStepKeeps

-----------------------------------------------------------------------------
(* The steps of a pass: the renewal. *)

(* Where a pass may be sent: its record moves, and may forget. *)
LEMMA PassAt ==
    ASSUME Inv, NEW p \in Passes, NEW place, At(p, place), place # "idle"
    PROVE  pass[p] \in Pass /\ pass[p].at = place
BY TypeParts DEF At, Idle

LEMMA CrashKeeps ==
    ASSUME Inv, NEW p \in Passes, Crash(p)
    PROVE  Inv'
<1>1. /\ pass' = [pass EXCEPT ![p] = Idle] /\ now' = now /\ sweep' = sweep /\ row' = row
      /\ UNCHANGED <<period, ledger, remote, balance, burnt, ran, rich, faults, flips>>
      /\ lost' = lost + 1 /\ lost + faults + flips < MaxTrouble
      /\ locked' \in {locked, Nobody}
  BY DEF Crash, rowVars, moneyVars, MoreTrouble
<1>2. {lost, faults, flips}' \subseteq Nat /\ (lost + faults + flips <= MaxTrouble)'
  BY <1>1, TypeParts, TroubleAssumption DEF Rest
<1>3. Rest'
  BY <1>1, <1>2, TypeParts DEF Rest
<1>4. PassOK(Idle, row.paid, period, ledger, now)
  BY PastRenewal DEF Idle, Renewing
<1>5. QED
  BY <1>1, <1>3, <1>4, PassOnlyKeeps, TypeParts

LEMMA BeginKeeps ==
    ASSUME Inv, NEW p \in Passes, Begin(p)
    PROVE  Inv'
<1>1. PICK won \in BOOLEAN :
          /\ ~won /\ locked = Nobody => MoreTrouble
          /\ lost' = IF ~won /\ locked = Nobody THEN lost + 1 ELSE lost
          /\ locked' = IF won THEN p ELSE locked
          /\ pass' = [pass EXCEPT ![p] =
                 [at |-> CASE ~won -> "survey"
                           [] won /\ ChargedPending = {} -> "list"
                           [] won /\ ChargedPending # {} -> "repair",
                  moment |-> IF won THEN now ELSE 0, rec |-> NoRow, zero |-> Never,
                  unpaid |-> FALSE, verdict |-> "none", late |-> FALSE]]
  BY DEF Begin
<1>2. /\ now' = now /\ sweep' = sweep /\ row' = row /\ ran' = TRUE
      /\ UNCHANGED <<period, ledger, remote, balance, burnt, rich, faults, flips>>
  BY DEF Begin, rowVars, moneyVars
<1>3. Rest'
  <2>1. {lost, faults, flips}' \subseteq Nat /\ (lost + faults + flips <= MaxTrouble)'
    BY <1>1, <1>2, TypeParts, TroubleAssumption DEF Rest, MoreTrouble
  <2>2. locked' \in Passes \union {Nobody}
    BY <1>1, TypeParts DEF Rest
  <2>3. QED
    BY <1>2, <2>1, <2>2, TypeParts DEF Rest
<1>4. PICK place : place = CASE ~won -> "survey"
                             [] won /\ ChargedPending = {} -> "list"
                             [] won /\ ChargedPending # {} -> "repair"
  OBVIOUS
<1>5. place \in {"survey", "list", "repair"} /\ (place # "survey" => won)
  BY <1>4
<1>6. PICK n : n = [at |-> place, moment |-> IF won THEN now ELSE 0, rec |-> NoRow,
                    zero |-> Never, unpaid |-> FALSE, verdict |-> "none", late |-> FALSE]
  OBVIOUS
<1>7. pass' = [pass EXCEPT ![p] = n]
  BY <1>1, <1>4, <1>6
<1>8. now \in Times /\ 0 \in Times
  BY TypeParts, StartsFacts DEF Times
<1>9. NoRow \in Row
  BY DEF NoRow, Row, Never, Alive
<1>10. n \in Pass /\ n.at = place /\ n.late = FALSE /\ n.moment = IF won THEN now ELSE 0
  BY <1>5, <1>6, <1>8, <1>9 DEF Pass
<1>11. PassOK(n, row.paid, period, ledger, now)
  BY <1>5, <1>10 DEF PassOK, Renewing
<1>12. QED
  BY <1>2, <1>3, <1>7, <1>10, <1>11, PassOnlyKeeps, TypeParts

LEMMA RepairKeeps ==
    ASSUME Inv, NEW p \in Passes, Repair(p)
    PROVE  Inv'
<1>1. /\ pass' = [pass EXCEPT ![p].at = "list"] /\ now' = now /\ sweep' = sweep
      /\ ledger' = ledger
      /\ UNCHANGED <<remote, balance, locked, burnt, ran, rich, lost, faults, flips>>
  BY DEF Repair, Goto, boundVars
<1>2. PICK s \in ChargedPending : MarkPaid(s)
  BY DEF Repair
<1>3. s \in Starts /\ ledger[s] # 0
  BY DEF ChargedPending
<1>4. /\ row' \in Row /\ period' \in Periods
      /\ HoursOK(row'.paid, period', ledger')
      /\ Grows(row.paid, period, ledger, row'.paid, period', ledger')
  BY <1>1, <1>2, <1>3, MarkingOK DEF Inv, Periods
<1>5. Rest'
  BY <1>1, TypeParts DEF Rest
<1>6. pass[p] \in Pass /\ pass[p].at = "repair"
  BY PassAt DEF Repair
<1>7. PICK n : n = [pass[p] EXCEPT !.at = "list"]
  OBVIOUS
<1>8. n \in Pass /\ n.at = "list" /\ n.late = pass[p].late /\ n.moment = pass[p].moment
  BY <1>6, <1>7 DEF Pass
<1>9. PassOK(n, row'.paid, period', ledger', now)
  <2>1. PassOK(pass[p], row.paid, period, ledger, now)
    BY DEF Inv
  <2>2. QED
    BY <1>6, <1>8, <2>1 DEF PassOK, Renewing
<1>10. pass' = [pass EXCEPT ![p] = n] /\ ledger' \in [Starts -> Rates \union {0}]
  BY <1>1, <1>7, TypeParts
<1>11. QED
  BY <1>1, <1>4, <1>5, <1>8, <1>9, <1>10, PassStepKeeps

(* The renewal over, for whatever reason: the pass knows nothing any more. *)
LEMMA RenewalOver ==
    ASSUME Inv, NEW p \in Passes, pass[p] \in Pass, NEW unpaid \in BOOLEAN, Renewed(p, unpaid)
    PROVE  \E n \in Pass : /\ pass' = [pass EXCEPT ![p] = n] /\ n.at = "survey"
                           /\ locked' = Nobody
                           /\ \A paid, per, led, t : PassOK(n, paid, per, led, t)
<1>1. PICK n : n = [pass[p] EXCEPT !.at = "survey", !.unpaid = unpaid, !.moment = 0, !.rec = NoRow]
  OBVIOUS
<1>2. NoRow \in Row /\ 0 \in Times
  BY StartsFacts DEF NoRow, Row, Never, Alive
<1>3. n \in Pass /\ n.at = "survey"
  BY <1>1, <1>2 DEF Pass
<1>4. pass' = [pass EXCEPT ![p] = n] /\ locked' = Nobody
  BY <1>1, TypeParts DEF Renewed
<1>5. \A paid, per, led, t : PassOK(n, paid, per, led, t)
  BY <1>3, PastRenewal DEF Renewing
<1>6. QED
  BY <1>3, <1>4, <1>5

LEMMA FailedIsOver ==
    ASSUME NEW p \in Passes, Failed(p)
    PROVE  \E unpaid \in BOOLEAN : Renewed(p, unpaid)
<1>1. (pass[p].moment >= Rec(p).paid) \in BOOLEAN
  OBVIOUS
<1>2. QED
  BY <1>1, Zenon DEF Failed

LEMMA ListKeeps ==
    ASSUME Inv, NEW p \in Passes, List(p)
    PROVE  Inv'
<1>1. /\ now' = now /\ sweep' = sweep /\ row' = row
      /\ UNCHANGED <<period, ledger, remote, balance, burnt, ran, rich, lost, faults, flips>>
  BY DEF List, rowVars, moneyVars, boundVars
<1>2. pass[p] \in Pass /\ pass[p].at = "list"
  BY PassAt DEF List
<1>3. CASE \E unpaid \in BOOLEAN : Renewed(p, unpaid)
  <2>1. PICK n \in Pass : /\ pass' = [pass EXCEPT ![p] = n] /\ locked' = Nobody
                          /\ PassOK(n, row.paid, period, ledger, now)
    BY <1>2, <1>3, RenewalOver
  <2>2. Rest'
    BY <1>1, <2>1, TypeParts DEF Rest
  <2>3. QED
    BY <1>1, <2>1, <2>2, PassOnlyKeeps, TypeParts
<1>4. CASE /\ Due(row, pass[p].moment) /\ row.paid # Never /\ pass[p].moment < row.paid + Hour
           /\ pass' = [pass EXCEPT ![p].at = "bind", ![p].rec = row] /\ locked' = locked
  <2>1. Rest'
    BY <1>1, <1>4, TypeParts DEF Rest
  <2>2. PICK n : n = [pass[p] EXCEPT !.at = "bind", !.rec = row]
    OBVIOUS
  <2>3. /\ n \in Pass /\ n.at = "bind" /\ n.rec = row
        /\ n.late = pass[p].late /\ n.moment = pass[p].moment
    BY <1>2, <2>2, TypeParts DEF Pass
  <2>4. row.paid \in Starts
    BY <1>4, TypeParts DEF HoursOK
  <2>5. PassOK(pass[p], row.paid, period, ledger, now)
    BY DEF Inv
  <2>6. row.paid <= row.paid /\ row.paid - Window <= n.moment /\ n.moment < row.paid + Hour
    BY <1>4, <2>3, <2>4, StartsFacts DEF Due
  <2>7. PassOK(n, row.paid, period, ledger, now)
    BY <1>2, <2>3, <2>4, <2>5, <2>6 DEF PassOK, Renewing
  <2>8. pass' = [pass EXCEPT ![p] = n]
    BY <1>4, <2>2, TypeParts
  <2>9. QED
    BY <1>1, <2>1, <2>3, <2>7, <2>8, PassOnlyKeeps, TypeParts
<1>5. QED
  <2>1. row.paid \in Int /\ pass[p].moment \in Nat
    BY <1>2, InstantsOfRow, StartsFacts, TypeParts DEF Pass
  <2>2. row.paid = Never \/ pass[p].moment >= row.paid + Hour \/ pass[p].moment < row.paid + Hour
    BY <2>1, StartsFacts
  <2>3. QED
    BY <1>3, <1>4, <2>2 DEF List

(* What a pass at work on an hour knows of it. *)
LEMMA HourAtHand ==
    ASSUME Inv, NEW p \in Passes, At(p, "bind") \/ At(p, "charge") \/ At(p, "mark")
    PROVE  /\ pass[p] \in Pass /\ Rec(p).paid \in Starts
           /\ Rec(p).paid \in Nat /\ now \in Nat /\ now <= Horizon /\ row.paid \in Int
           /\ Rec(p).paid <= row.paid
           /\ Rec(p).paid - Window <= now /\ now <= Rec(p).paid + Hour
           /\ Rec(p).paid <= Horizon + Window
           /\ ledger[Rec(p).paid] = 0 => row.paid = Rec(p).paid
<1>1. pass[p] \in Pass /\ pass[p].at \in {"bind", "charge", "mark"}
  BY PassAt DEF At
<1>2. PassOK(pass[p], row.paid, period, ledger, now)
  BY DEF Inv
<1>3. /\ pass[p].rec.paid \in Starts /\ pass[p].rec.paid <= row.paid
      /\ pass[p].rec.paid - Window <= pass[p].moment /\ pass[p].moment < pass[p].rec.paid + Hour
      /\ pass[p].moment \in {now - 1, now}
  BY <1>1, <1>2, TypeParts DEF PassOK, Renewing
<1>4. pass[p].rec.paid \in Nat /\ now \in Nat /\ now <= Horizon /\ row.paid \in Int
  BY <1>3, InstantsOfRow, StartsFacts, TypeParts
<1>5. /\ pass[p].rec.paid - Window <= now /\ now <= pass[p].rec.paid + Hour
      /\ pass[p].rec.paid <= Horizon + Window
  BY <1>3, <1>4, StartsFacts
<1>6. ledger[pass[p].rec.paid] = 0 => ~(pass[p].rec.paid < row.paid)
  BY <1>3, TypeParts DEF HoursOK
<1>7. ledger[pass[p].rec.paid] = 0 => row.paid = pass[p].rec.paid
  BY <1>3, <1>4, <1>6
<1>8. QED
  BY <1>1, <1>3, <1>4, <1>5, <1>7 DEF Rec

LEMMA BindKeeps ==
    ASSUME Inv, NEW p \in Passes, Bind(p)
    PROVE  Inv'
<1>s. PICK s : s = Rec(p).paid
  OBVIOUS
<1>1. /\ now' = now /\ sweep' = sweep /\ row' = row
      /\ UNCHANGED <<ledger, remote, balance, burnt, ran, rich, lost, flips>>
  BY DEF Bind, rowVars
<1>2. pass[p] \in Pass /\ pass[p].at = "bind" /\ s \in Starts
  BY <1>s, PassAt, HourAtHand DEF Bind
<1>3. ASSUME NEW rate \in Rates, Bound(s, rate), Goto(p, "charge"), locked' = locked,
             faults' = faults,
             period' = [period EXCEPT ![s].rate = rate,
                            ![s].status = IF period[s] = Unbound THEN "pending" ELSE @]
      PROVE  Inv'
  <2>0. rate \in Nat \ {0}
    BY MoneyAssumption
  <2>1. Rest'
    BY <1>1, <1>3, TypeParts DEF Rest
  <2>2. \/ period[s] = Unbound
        \/ period[s] \in [rate : Rates, status : {"pending", "paid"}] /\ rate = period[s].rate
    BY <1>2, <1>3, TypeParts DEF Periods, Bound
  <2>3. PICK b : b = IF period[s] = Unbound THEN [rate |-> rate, status |-> "pending"]
                                            ELSE period[s]
    OBVIOUS
  <2>4. b \in [rate : Rates, status : {"pending", "paid"}] /\ b # Unbound
    BY <2>0, <2>2, <2>3 DEF Unbound
  <2>5. period'[s] = b
    <3>1. period'[s] = [[period[s] EXCEPT !.rate = rate]
                           EXCEPT !.status = IF period[s] = Unbound THEN "pending" ELSE @]
      BY <1>2, <1>3, TypeParts DEF Periods
    <3>2. CASE period[s] = Unbound
      BY <2>3, <3>1, <3>2 DEF Unbound
    <3>3. CASE period[s] # Unbound
      BY <2>2, <2>3, <3>1, <3>3
    <3>4. QED
      BY <3>2, <3>3
  <2>6. \A t \in Starts \ {s} : period'[t] = period[t]
    BY <1>2, <1>3, TypeParts DEF Periods
  <2>7. period' \in Periods
    <3>1. \A t \in Starts : period'[t] \in [rate : Rates, status : {"pending", "paid"}] \union {Unbound}
      BY <2>4, <2>5, <2>6, TypeParts DEF Periods
    <3>2. DOMAIN period' = Starts /\ period' = [t \in Starts |-> period'[t]]
      BY <1>3, TypeParts DEF Periods
    <3>3. QED
      BY <3>1, <3>2 DEF Periods
  <2>8. Unbound.rate = 0 /\ Unbound.status = "none"
    BY DEF Unbound
  <2>9. period[s] = Unbound => ledger[s] = 0 /\ ~(s < row.paid)
    BY <1>2, <2>8, TypeParts DEF HoursOK
  <2>10. ASSUME NEW t \in Starts
         PROVE  /\ t < row.paid => period'[t].status = "paid" /\ ledger[t] # 0
                /\ ledger[t] # 0 => /\ ledger[t] = period'[t].rate /\ (t <= row.paid \/ t = 0)
                                    /\ t <= Horizon + Window
    <3>1. CASE t = s /\ period[s] = Unbound
      BY <2>9, <3>1
    <3>2. CASE ~(t = s /\ period[s] = Unbound)
      <4>1. period'[t] = period[t]
        BY <2>3, <2>5, <2>6, <3>2
      <4>2. QED
        BY <4>1, TypeParts DEF HoursOK
    <3>3. QED
      BY <3>1, <3>2
  <2>11. period'[0] # Unbound
    BY <2>4, <2>5, <2>6, StartsFacts, TypeParts DEF HoursOK
  <2>12. HoursOK(row'.paid, period', ledger')
    BY <1>1, <2>10, <2>11, TypeParts DEF HoursOK
  <2>13. Grows(row.paid, period, ledger, row'.paid, period', ledger')
    BY <1>1, <2>4, <2>5, <2>6, InstantsOfRow, TypeParts DEF Grows
  <2>14. PICK n : n = [pass[p] EXCEPT !.at = "charge"]
    OBVIOUS
  <2>15. /\ n \in Pass /\ n.at = "charge" /\ n.late = pass[p].late
         /\ n.moment = pass[p].moment /\ n.rec = pass[p].rec
    BY <1>2, <2>14 DEF Pass
  <2>16. PassOK(pass[p], row.paid, period, ledger, now)
    BY DEF Inv
  <2>17. n.rec.paid = s /\ period'[s] # Unbound
    BY <1>s, <2>4, <2>5, <2>15 DEF Rec
  <2>18. PassOK(n, row'.paid, period', ledger', now)
    BY <1>1, <1>2, <2>15, <2>16, <2>17 DEF PassOK, Renewing
  <2>19. pass' = [pass EXCEPT ![p] = n] /\ ledger' \in [Starts -> Rates \union {0}] /\ row' \in Row
    BY <1>1, <1>3, <2>14, TypeParts DEF Goto
  <2>20. QED
    BY <1>1, <2>1, <2>7, <2>12, <2>13, <2>15, <2>18, <2>19, PassStepKeeps
<1>4. CASE MoreTrouble /\ faults' = faults + 1 /\ Failed(p) /\ period' = period
  <2>1. PICK n \in Pass : /\ pass' = [pass EXCEPT ![p] = n] /\ locked' = Nobody
                          /\ PassOK(n, row.paid, period, ledger, now)
    BY <1>2, <1>4, FailedIsOver, RenewalOver
  <2>2. {lost, faults, flips}' \subseteq Nat /\ (lost + faults + flips <= MaxTrouble)'
    BY <1>1, <1>4, TypeParts, TroubleAssumption DEF Rest, MoreTrouble
  <2>3. Rest'
    BY <1>1, <2>1, <2>2, TypeParts DEF Rest
  <2>4. QED
    BY <1>1, <1>4, <2>1, <2>3, PassOnlyKeeps, TypeParts
<1>5. QED
  BY <1>s, <1>3, <1>4 DEF Bind

LEMMA ChargeKeeps ==
    ASSUME Inv, NEW p \in Passes, Charge(p)
    PROVE  Inv'
<1>s. PICK s : s = Rec(p).paid
  OBVIOUS
<1>1. /\ now' = now /\ sweep' = sweep /\ row' = row /\ period' = period
      /\ UNCHANGED <<remote, burnt, ran, rich, lost, faults, flips>>
  BY DEF Charge, rowVars, boundVars
<1>2. pass[p] \in Pass /\ pass[p].at = "charge" /\ s \in Starts
  BY <1>s, PassAt, HourAtHand DEF Charge
<1>3. PassOK(pass[p], row.paid, period, ledger, now)
  BY DEF Inv
<1>4. PICK n : n = [pass[p] EXCEPT !.at = "mark"]
  OBVIOUS
<1>5. /\ n \in Pass /\ n.at = "mark" /\ n.late = pass[p].late
      /\ n.moment = pass[p].moment /\ n.rec = pass[p].rec /\ n.rec.paid = s
  BY <1>s, <1>2, <1>4 DEF Pass, Rec
<1>6. CASE Replayed(s) /\ Goto(p, "mark") /\ UNCHANGED <<ledger, balance, locked>>
  <2>1. Rest'
    BY <1>1, <1>6, TypeParts DEF Rest
  <2>2. PassOK(n, row.paid, period, ledger, now)
    BY <1>2, <1>3, <1>5, <1>6 DEF PassOK, Renewing, Replayed
  <2>3. pass' = [pass EXCEPT ![p] = n]
    BY <1>4, <1>6, TypeParts DEF Goto
  <2>4. QED
    BY <1>1, <1>5, <1>6, <2>1, <2>2, <2>3, PassOnlyKeeps, TypeParts
<1>7. CASE /\ ~Replayed(s) /\ Chargeable(s)
           /\ ledger' = [ledger EXCEPT ![s] = period[s].rate]
           /\ balance' = balance - period[s].rate
           /\ Goto(p, "mark") /\ UNCHANGED locked
  <2>1. period[s] # Unbound
    BY <1>2, <1>3, <1>5 DEF PassOK
  <2>2. period[s].rate \in Rates /\ period[s].rate \in Nat \ {0}
    <3>1. period[s] \in [rate : Rates, status : {"pending", "paid"}]
      BY <1>2, <2>1, TypeParts DEF Periods
    <3>2. QED
      BY <3>1, MoneyAssumption
  <2>3. balance' \in 0..MaxBalance
    BY <1>7, <2>2, TypeParts, MoneyAssumption DEF Rest, Chargeable
  <2>4. Rest'
    BY <1>1, <1>7, <2>3, TypeParts DEF Rest
  <2>5. /\ ledger' \in [Starts -> Rates \union {0}] /\ ledger'[s] = period[s].rate
        /\ \A t \in Starts \ {s} : ledger'[t] = ledger[t]
    BY <1>2, <1>7, <2>2, TypeParts
  <2>6. /\ s <= row.paid /\ s <= Horizon + Window
        /\ ledger[s] = 0 /\ row.paid = s
    BY <1>s, <1>7, HourAtHand DEF Charge, Replayed
  <2>7. ASSUME NEW t \in Starts
        PROVE  /\ t < row.paid => period[t].status = "paid" /\ ledger'[t] # 0
               /\ ledger'[t] # 0 => /\ ledger'[t] = period[t].rate /\ (t <= row.paid \/ t = 0)
                                    /\ t <= Horizon + Window
    <3>1. CASE t = s
      BY <2>2, <2>5, <2>6, <3>1, StartsFacts
    <3>2. CASE t # s
      <4>1. ledger'[t] = ledger[t]
        BY <2>5, <3>2
      <4>2. QED
        BY <4>1, TypeParts DEF HoursOK
    <3>3. QED
      BY <3>1, <3>2
  <2>8. HoursOK(row'.paid, period', ledger')
    BY <1>1, <2>7, TypeParts DEF HoursOK
  <2>9. Grows(row.paid, period, ledger, row'.paid, period', ledger')
    BY <1>1, <2>2, <2>5, InstantsOfRow, TypeParts DEF Grows
  <2>10. PassOK(n, row'.paid, period', ledger', now)
    BY <1>1, <1>2, <1>3, <1>5, <2>2, <2>5 DEF PassOK, Renewing
  <2>11. pass' = [pass EXCEPT ![p] = n]
    BY <1>4, <1>7, TypeParts DEF Goto
  <2>12. period' \in Periods /\ row' \in Row
    BY <1>1, TypeParts
  <2>13. QED
    BY <1>1, <1>5, <2>4, <2>5, <2>8, <2>9, <2>10, <2>11, <2>12, PassStepKeeps
<1>8. CASE Failed(p) /\ UNCHANGED <<ledger, balance>>
  <2>1. PICK m \in Pass : /\ pass' = [pass EXCEPT ![p] = m] /\ locked' = Nobody
                          /\ PassOK(m, row.paid, period, ledger, now)
    BY <1>2, <1>8, FailedIsOver, RenewalOver
  <2>2. Rest'
    BY <1>1, <1>8, <2>1, TypeParts DEF Rest
  <2>3. QED
    BY <1>1, <1>8, <2>1, <2>2, PassOnlyKeeps, TypeParts
<1>9. QED
  BY <1>s, <1>6, <1>7, <1>8 DEF Charge

LEMMA MarkKeeps ==
    ASSUME Inv, NEW p \in Passes, Mark(p)
    PROVE  Inv'
<1>s. PICK s : s = Rec(p).paid
  OBVIOUS
<1>1. /\ now' = now /\ sweep' = sweep /\ ledger' = ledger /\ MarkPaid(s)
      /\ UNCHANGED <<remote, balance, burnt, ran, rich, lost, faults, flips>>
  BY <1>s DEF Mark, boundVars
<1>2. pass[p] \in Pass /\ pass[p].at = "mark" /\ s \in Starts
  BY <1>s, PassAt, HourAtHand DEF Mark
<1>3. ledger[s] # 0
  BY <1>s, <1>2 DEF Inv, PassOK, Rec
<1>4. /\ row' \in Row /\ period' \in Periods
      /\ HoursOK(row'.paid, period', ledger')
      /\ Grows(row.paid, period, ledger, row'.paid, period', ledger')
  BY <1>1, <1>2, <1>3, MarkingOK DEF Inv, Periods
<1>5. \E unpaid \in BOOLEAN : Renewed(p, unpaid)
  <2>1. Renewed(p, FALSE) \/ Failed(p)
    BY DEF Mark
  <2>2. QED
    BY <2>1, FailedIsOver
<1>6. PICK n \in Pass : /\ pass' = [pass EXCEPT ![p] = n] /\ locked' = Nobody
                        /\ \A paid, per, led, t : PassOK(n, paid, per, led, t)
  BY <1>2, <1>5, RenewalOver
<1>7. Rest'
  BY <1>1, <1>6, TypeParts DEF Rest
<1>8. ledger' \in [Starts -> Rates \union {0}] /\ PassOK(n, row'.paid, period', ledger', now)
  BY <1>1, <1>6, TypeParts
<1>9. QED
  BY <1>1, <1>4, <1>6, <1>7, <1>8, PassStepKeeps

-----------------------------------------------------------------------------
(* The steps of a pass: the balance policy and the errands. *)

(* The errands that are left of a pass. *)
LEMMA ErrandsOK ==
    ASSUME Inv, NEW p \in Passes, pass[p] \in Pass, NEW unpaid \in BOOLEAN,
           NEW verdict \in {"none", "stop", "delete"}
    PROVE  /\ Errands(p, unpaid, verdict) \in Pass \union {Idle}
           /\ Errands(p, unpaid, verdict).at \in {"enforce", "idle"}
<1>1. NoRow \in Row
  BY DEF NoRow, Row, Never, Alive
<1>2. QED
  BY <1>1 DEF Errands, Pass, Idle

LEMMA ErrandOverOK ==
    ASSUME Inv, NEW p \in Passes, pass[p] \in Pass, ErrandOver(p)
    PROVE  \E n \in Pass \union {Idle} : pass' = [pass EXCEPT ![p] = n] /\ n.at \in {"enforce", "idle"}
<1>1. PICK n : n = IF pass[p].unpaid THEN Errands(p, FALSE, pass[p].verdict) ELSE Idle
  OBVIOUS
<1>2. pass[p].verdict \in {"none", "stop", "delete"} /\ FALSE \in BOOLEAN
  BY DEF Pass
<1>3. n \in Pass \union {Idle} /\ n.at \in {"enforce", "idle"}
  BY <1>1, <1>2, ErrandsOK DEF Idle
<1>4. pass' = [pass EXCEPT ![p] = n]
  BY <1>1, TypeParts DEF ErrandOver
<1>5. QED
  BY <1>3, <1>4

(* A step of a pass that is past the renewal and changes no money. *)
LEMMA LaterStepKeeps ==
    ASSUME Inv, NEW p \in Passes, NEW n \in Pass \union {Idle}, n.at \notin Renewing,
           pass' = [pass EXCEPT ![p] = n], now' = now, sweep' = sweep, Rest',
           row' \in Row, row'.paid = row.paid, UNCHANGED <<period, ledger>>
    PROVE  Inv'
<1>1. PassOK(n, row.paid, period, ledger, now)
  BY PastRenewal
<1>2. QED
  BY <1>1, PassOnlyKeeps

LEMMA SurveyKeeps ==
    ASSUME Inv, NEW p \in Passes, Survey(p)
    PROVE  Inv'
<1>1. /\ now' = now /\ sweep' = sweep /\ row' = row
      /\ UNCHANGED <<period, ledger, remote, balance, locked, burnt, ran, lost, faults, flips>>
      /\ rich' \in {rich, now}
  BY DEF Survey, rowVars, moneyVars
<1>2. Rest'
  BY <1>1, TypeParts DEF Rest
<1>3. pass[p] \in Pass
  BY PassAt DEF Survey
<1>4. PICK zero : zero = ZeroSince(row)
  OBVIOUS
<1>5. zero \in Times \union {Never}
  <2>1. row.zero \in Times \union {Never} /\ now \in Times
    BY TypeParts, StartsFacts DEF Row, Times
  <2>2. balance \in Nat
    BY TypeParts, MoneyAssumption DEF Rest
  <2>3. QED
    BY <1>4, <2>1, <2>2 DEF ZeroSince
<1>6. PICK verdict : verdict = CASE balance > 0 -> "none"
                                 [] balance = 0 /\ now - zero >= Patience -> "delete"
                                 [] balance = 0 /\ now - zero < Patience -> "stop"
  OBVIOUS
<1>7. verdict \in {"none", "stop", "delete"}
  <2>1. balance \in Nat /\ now \in Int /\ zero \in Int /\ Patience \in Int
    BY <1>5, TypeParts, MoneyAssumption, TimeAssumption, StartsFacts DEF Rest, Never
  <2>2. QED
    BY <1>6, <2>1
<1>8. pass' = [pass EXCEPT ![p] =
          CASE row.state \notin Alive -> Errands(p, @.unpaid, "none")
            [] row.state \in Alive /\ zero = row.zero -> Errands(p, @.unpaid, verdict)
            [] row.state \in Alive /\ zero # row.zero ->
                   [@ EXCEPT !.at = "note", !.rec = row, !.zero = zero, !.verdict = verdict]]
  BY <1>4, <1>6 DEF Survey
<1>9. pass[p].unpaid \in BOOLEAN
  BY <1>3 DEF Pass
<1>10. PICK n : n = CASE row.state \notin Alive -> Errands(p, pass[p].unpaid, "none")
            [] row.state \in Alive /\ zero = row.zero -> Errands(p, pass[p].unpaid, verdict)
            [] row.state \in Alive /\ zero # row.zero ->
                   [pass[p] EXCEPT !.at = "note", !.rec = row, !.zero = zero, !.verdict = verdict]
  OBVIOUS
<1>11. pass' = [pass EXCEPT ![p] = n]
  BY <1>8, <1>10, TypeParts
<1>12. n \in Pass \union {Idle} /\ n.at \notin Renewing
  <2>1. CASE row.state \notin Alive
    BY <1>3, <1>9, <1>10, <2>1, ErrandsOK DEF Renewing
  <2>2. CASE row.state \in Alive /\ zero = row.zero
    BY <1>3, <1>7, <1>9, <1>10, <2>2, ErrandsOK DEF Renewing
  <2>3. CASE row.state \in Alive /\ zero # row.zero
    BY <1>3, <1>5, <1>7, <1>10, <2>3, TypeParts DEF Renewing, Pass
  <2>4. QED
    BY <2>1, <2>2, <2>3
<1>13. QED
  BY <1>1, <1>2, <1>11, <1>12, LaterStepKeeps, TypeParts

LEMMA NoteKeeps ==
    ASSUME Inv, NEW p \in Passes, Note(p)
    PROVE  Inv'
<1>1. PICK kept \in BOOLEAN :
          /\ row' = IF kept THEN [row EXCEPT !.zero = pass[p].zero] ELSE row
          /\ rich' = IF kept /\ pass[p].verdict = "none" THEN now ELSE rich
          /\ pass' = [pass EXCEPT ![p] =
                 Errands(p, @.unpaid, IF kept THEN @.verdict ELSE "none")]
  BY DEF Note
<1>2. /\ now' = now /\ sweep' = sweep
      /\ UNCHANGED <<period, ledger, remote, balance, locked, burnt, ran, lost, faults, flips>>
      /\ rich' \in {rich, now}
  BY <1>1 DEF Note, moneyVars
<1>3. Rest'
  BY <1>2, TypeParts DEF Rest
<1>4. pass[p] \in Pass
  BY PassAt DEF Note
<1>5. row' \in Row /\ row'.paid = row.paid
  BY <1>1, <1>4, TypeParts DEF Row, Pass
<1>6. PICK n : n = Errands(p, pass[p].unpaid, IF kept THEN pass[p].verdict ELSE "none")
  OBVIOUS
<1>7. n \in Pass \union {Idle} /\ n.at \notin Renewing
  <2>1. /\ pass[p].unpaid \in BOOLEAN
        /\ (IF kept THEN pass[p].verdict ELSE "none") \in {"none", "stop", "delete"}
    BY <1>4 DEF Pass
  <2>2. QED
    BY <1>4, <1>6, <2>1, ErrandsOK DEF Renewing
<1>8. pass' = [pass EXCEPT ![p] = n]
  BY <1>1, <1>6, TypeParts
<1>9. QED
  BY <1>2, <1>3, <1>5, <1>7, <1>8, LaterStepKeeps

LEMMA ErrandKeeps ==
    ASSUME Inv, NEW p \in Passes, Look(p) \/ Probe(p) \/ PowerOff(p) \/ Confirm(p) \/ Delete(p)
    PROVE  Inv'
<1>1. /\ now' = now /\ sweep' = sweep
      /\ UNCHANGED <<period, ledger, balance, locked, ran, rich, lost, flips>>
  BY DEF Look, Probe, PowerOff, Confirm, Delete, moneyVars, boundVars
<1>2. pass[p] \in Pass
  BY PassAt DEF Look, Probe, PowerOff, Confirm, Delete
<1>3. row' \in Row /\ row'.paid = row.paid
  BY TypeParts DEF Look, Probe, PowerOff, Confirm, Delete, rowVars, Row, Alive
<1>4. remote' \in {"building", "running", "stopped"}
  BY TypeParts DEF Look, Probe, PowerOff, Confirm, Delete, rowVars, Rest
<1>5. burnt' \subseteq ({"unpaid", "zero"} \X (Times \union {Never}))
  <2>1. Key(p) \in {"unpaid", "zero"} \X (Times \union {Never})
    BY <1>2 DEF Key, Rec, Pass, Row
  <2>2. burnt' \in {burnt, burnt \union {Key(p)}}
    BY DEF Look, Probe, PowerOff, Confirm, Delete
  <2>3. QED
    BY <2>1, <2>2, TypeParts DEF Rest
<1>6. {lost, faults, flips}' \subseteq Nat /\ (lost + faults + flips <= MaxTrouble)'
  <2>1. faults' = faults \/ (faults' = faults + 1 /\ lost + faults + flips < MaxTrouble)
    BY DEF Look, Probe, PowerOff, Confirm, Delete, boundVars, MoreTrouble
  <2>2. QED
    BY <1>1, <2>1, TypeParts, TroubleAssumption DEF Rest
<1>7. Rest'
  BY <1>1, <1>4, <1>5, <1>6, TypeParts DEF Rest
<1>8. CASE ErrandOver(p)
  <2>1. PICK n \in Pass \union {Idle} : pass' = [pass EXCEPT ![p] = n] /\ n.at \in {"enforce", "idle"}
    BY <1>2, <1>8, ErrandOverOK
  <2>2. n.at \notin Renewing
    BY <2>1 DEF Renewing
  <2>3. QED
    BY <1>1, <1>3, <1>7, <2>1, <2>2, LaterStepKeeps
<1>9. CASE \E place \in {"off", "confirm", "delete"} : Goto(p, place)
  <2>1. PICK place \in {"off", "confirm", "delete"} : Goto(p, place)
    BY <1>9
  <2>2. PICK n : n = [pass[p] EXCEPT !.at = place]
    OBVIOUS
  <2>3. n \in Pass /\ n.at \notin Renewing
    BY <1>2, <2>2 DEF Pass, Renewing
  <2>4. pass' = [pass EXCEPT ![p] = n]
    BY <2>1, <2>2, TypeParts DEF Goto
  <2>5. QED
    BY <1>1, <1>3, <1>7, <2>3, <2>4, LaterStepKeeps
<1>10. CASE pass' = [pass EXCEPT ![p].at = "probe", ![p].rec = row]
  <2>1. PICK n : n = [pass[p] EXCEPT !.at = "probe", !.rec = row]
    OBVIOUS
  <2>2. n \in Pass /\ n.at \notin Renewing
    BY <1>2, <2>1, TypeParts DEF Pass, Renewing
  <2>3. pass' = [pass EXCEPT ![p] = n]
    BY <1>10, <2>1, TypeParts
  <2>4. QED
    BY <1>1, <1>3, <1>7, <2>2, <2>3, LaterStepKeeps
<1>11. QED
  BY <1>8, <1>9, <1>10 DEF Look, Probe, PowerOff, Confirm, Delete

-----------------------------------------------------------------------------
LEMMA NextKeeps == Inv /\ [Next]_vars => Inv'
<1>1. SUFFICES ASSUME Inv, [Next]_vars PROVE Inv'
  OBVIOUS
<1>2. CASE SweepLooks \/ SweepStep
  BY <1>1, <1>2, SweepKeeps, CaptureKeeps, CoverKeeps DEF SweepStep
<1>3. CASE \E p \in Passes : Begin(p) \/ PassStep(p) \/ Crash(p)
  BY <1>1, <1>3, BeginKeeps, CrashKeeps, RepairKeeps, ListKeeps, BindKeeps, ChargeKeeps,
     MarkKeeps, SurveyKeeps, NoteKeeps, ErrandKeeps DEF PassStep
<1>4. CASE TopUp \/ Spend \/ PowerOn \/ SwitchOff \/ AskDeletion
  BY <1>1, <1>4, CustomerKeeps
<1>5. CASE Build \/ Flip
  BY <1>1, <1>5, MachineKeeps
<1>6. CASE Tick
  BY <1>1, <1>6, TickKeeps
<1>7. CASE UNCHANGED vars
  BY <1>1, <1>7 DEF vars, Inv, TypeOK, HoursOK, PassOK, Renewing
<1>8. QED
  BY <1>1, <1>2, <1>3, <1>4, <1>5, <1>6, <1>7 DEF Next

LEMMA InvHolds == Spec => []Inv
<1>1. QED
  BY InitOK, NextKeeps, PTL DEF Spec

(***************************************************************************)
(* Rows, ledger, wallet and the memory of every pass keep their types, for *)
(* any number of overlapping passes; the wallet is never overdrawn.        *)
(***************************************************************************)
THEOREM TypeCorrect == Spec => []TypeOK
<1>1. Inv => TypeOK
  BY DEF Inv
<1>2. QED
  BY <1>1, InvHolds, PTL

(***************************************************************************)
(* Coverage and money agree: whatever pass dies between debit and          *)
(* coverage and however many overlap, an hour before prepaid_paid_until    *)
(* was debited its bound amount, and no hour beyond the next one is.       *)
(***************************************************************************)
THEOREM EveryHourPaid == Spec => []CoveredIsPaid
<1>1. Inv => CoveredIsPaid
  BY DEF Inv, HoursOK, CoveredIsPaid
<1>2. QED
  BY <1>1, InvHolds, PTL

-----------------------------------------------------------------------------
(* When a later hour is charged. *)

LEMMA OnlyChargeDebits ==
    ASSUME Inv, [Next]_vars, NEW s \in Starts \ {0}, ledger'[s] # ledger[s]
    PROVE  \E p \in Passes : Charge(p)
<1>1. ASSUME SweepCaptures PROVE ledger'[s] = ledger[s]
  BY <1>1, TypeParts DEF SweepCaptures
<1>2. ASSUME \/ SweepLooks \/ SweepCovers \/ SweepChecks \/ SweepSaves
             \/ TopUp \/ Spend \/ PowerOn \/ SwitchOff \/ AskDeletion \/ Build \/ Flip \/ Tick
             \/ UNCHANGED vars
      PROVE  ledger' = ledger
  BY <1>2 DEF SweepLooks, SweepCovers, SweepChecks, SweepSaves, TopUp, Spend, PowerOn,
              SwitchOff, AskDeletion, Build, Flip, Tick, moneyVars, vars
<1>3. ASSUME NEW p \in Passes,
             \/ Begin(p) \/ Crash(p) \/ Repair(p) \/ List(p) \/ Bind(p) \/ Mark(p) \/ Survey(p)
             \/ Note(p) \/ Look(p) \/ Probe(p) \/ PowerOff(p) \/ Confirm(p) \/ Delete(p)
      PROVE  ledger' = ledger
  BY <1>3 DEF Begin, Crash, Repair, List, Bind, Mark, Survey, Note, Look, Probe, PowerOff,
              Confirm, Delete, moneyVars
<1>4. QED
  BY <1>1, <1>2, <1>3 DEF Next, SweepStep, PassStep

(***************************************************************************)
(* A later hour is debited only for a running server, as the next hour it  *)
(* has, at most one window early and never once it is over, once, and for  *)
(* exactly what leaves the wallet - without help of the advisory lock, so  *)
(* also when two passes renew at a time.                                   *)
(***************************************************************************)
THEOREM ChargesInTime == Spec => ChargedInTime
<1>1. ASSUME Inv, [Next]_vars, NEW s \in Starts \ {0}, ledger'[s] # ledger[s]
      PROVE  /\ row.state = "running" /\ row.paid = s
             /\ s - Window <= now /\ now <= s + Hour
             /\ ledger[s] = 0 /\ balance' = balance - ledger'[s]
  <2>1. PICK p \in Passes : Charge(p)
    BY <1>1, OnlyChargeDebits
  <2>2. PICK t : t = Rec(p).paid
    OBVIOUS
  <2>3. /\ t \in Starts /\ t - Window <= now /\ now <= t + Hour
        /\ ledger[t] = 0 => row.paid = t
    BY <1>1, <2>1, <2>2, HourAtHand DEF Charge
  <2>4. /\ ~Replayed(t) /\ Chargeable(t)
        /\ ledger' = [ledger EXCEPT ![t] = period[t].rate]
        /\ balance' = balance - period[t].rate
    BY <1>1, <2>1, <2>2 DEF Charge
  <2>5. s = t
    BY <1>1, <2>4, TypeParts
  <2>6. ledger'[t] = period[t].rate
    BY <1>1, <2>3, <2>4, TypeParts
  <2>7. QED
    BY <2>3, <2>4, <2>5, <2>6 DEF Replayed, Chargeable
<1>2. Inv /\ [Next]_vars =>
          [\A s \in Starts \ {0} : ledger'[s] # ledger[s] =>
              /\ row.state = "running" /\ row.paid = s
              /\ s - Window <= now /\ now <= s + Hour
              /\ ledger[s] = 0 /\ balance' = balance - ledger'[s]]_vars
  BY <1>1
<1>3. QED
  BY <1>2, InvHolds, PTL DEF Spec, ChargedInTime

-----------------------------------------------------------------------------
(***************************************************************************)
(* The grace.  A watermark is never older than the last time the policy    *)
(* found money; a pass that is about to write one, or to delete by one,    *)
(* knows that of its own.  With one pass at a time no other finds money in *)
(* between; with two it may, and GraceRespected fails: the wallet is found *)
(* funded after the first pass has confirmed that it was empty.            *)
(***************************************************************************)
GraceKnown(ps, r, t) ==
    /\ ps.at = "note" =>
           /\ ps.zero # Never => r <= ps.zero
           /\ ps.verdict = "none" => ps.zero = Never
    /\ ps.at \in {"probe", "confirm", "delete"} /\ ps.rec.zero # Never => r <= ps.rec.zero
    /\ ps.at \in {"confirm", "delete"} => ps.rec.zero # Never /\ t - ps.rec.zero >= Patience

Grace ==
    /\ rich <= now
    /\ row.zero # Never => rich <= row.zero
    /\ \A p \in Passes : GraceKnown(pass[p], rich, now)

OnePass == \A p, q \in Passes : p = q

(* Only a pass finds money; everyone else leaves watermark and errands. *)
LEMMA GraceOfOthers ==
    ASSUME Inv, Grace, rich' = rich, now' = now, row'.zero = row.zero,
           NEW p \in Passes, NEW n, pass' = [pass EXCEPT ![p] = n],
           n.at \notin {"note", "probe", "confirm", "delete"}
    PROVE  Grace'
<1>1. ASSUME NEW q \in Passes PROVE GraceKnown(pass'[q], rich, now)
  <2>1. pass'[q] = pass[q] \/ pass'[q] = n
    BY TypeParts
  <2>2. QED
    BY <2>1 DEF GraceKnown, Grace
<1>2. QED
  BY <1>1 DEF Grace


LEMMA ErrandsAt ==
    ASSUME NEW p, pass[p] \in Pass, NEW unpaid, NEW verdict
    PROVE  Errands(p, unpaid, verdict).at \in {"enforce", "idle"}
<1>1. CASE unpaid \/ verdict # "none"
  BY <1>1 DEF Errands, Pass
<1>2. CASE ~(unpaid \/ verdict # "none")
  BY <1>2 DEF Errands, Idle
<1>3. QED
  BY <1>1, <1>2

LEMMA GraceInit == Init => Grace
<1>1. SUFFICES ASSUME Init PROVE Grace
  OBVIOUS
<1>2. rich = 0 /\ now = 0 /\ row.zero = Never /\ \A p \in Passes : pass[p].at = "idle"
  BY <1>1 DEF Init, NoRow, Idle
<1>3. QED
  BY <1>2 DEF Grace, GraceKnown

LEMMA GraceOfWorld ==
    ASSUME Inv, Grace,
           \/ SweepLooks \/ SweepStep \/ TopUp \/ Spend \/ PowerOn \/ SwitchOff \/ AskDeletion
           \/ Build \/ Flip \/ UNCHANGED vars
    PROVE  Grace'
<1>1. pass' = pass /\ rich' = rich /\ now' = now
  BY DEF SweepLooks, SweepStep, SweepCaptures, SweepCovers, SweepChecks, SweepSaves, TopUp, Spend,
         PowerOn, SwitchOff, AskDeletion, Build, Flip, boundVars, vars
<1>2. row'.zero = row.zero
  BY TypeParts DEF SweepLooks, SweepStep, SweepCaptures, SweepCovers, SweepChecks, SweepSaves, TopUp,
         Spend, PowerOn, SwitchOff, AskDeletion, Build, Flip, rowVars, vars, MarkPaid, Row
<1>3. QED
  BY <1>1, <1>2 DEF Grace

LEMMA GraceOfTick ==
    ASSUME Inv, Grace, Tick
    PROVE  Grace'
<1>1. now' = now + 1 /\ rich' = rich /\ row' = row /\ now \in Nat /\ rich \in Nat
  BY TypeParts, StartsFacts DEF Tick, rowVars, boundVars, Rest
<1>2. ASSUME NEW p \in Passes PROVE GraceKnown(pass'[p], rich', now')
  <2>1. pass'[p] = IF pass[p] = Idle THEN Idle ELSE [pass[p] EXCEPT !.late = TRUE]
    BY DEF Tick
  <2>2. CASE pass[p] = Idle
    BY <2>1, <2>2 DEF Idle, GraceKnown
  <2>3. CASE pass[p] # Idle
    <3>1. pass[p] \in Pass /\ GraceKnown(pass[p], rich, now)
      BY <2>3, TypeParts DEF Grace
    <3>2. PICK n : n = pass'[p]
      OBVIOUS
    <3>3. /\ n.at = pass[p].at /\ n.zero = pass[p].zero /\ n.rec = pass[p].rec
          /\ n.verdict = pass[p].verdict
      BY <2>1, <2>3, <3>1, <3>2 DEF Pass
    <3>4. pass[p].rec.zero \in Int /\ Patience \in Int
      BY <3>1, InstantsOfRow, TimeAssumption DEF Pass
    <3>5. GraceKnown(n, rich, now')
      BY <1>1, <3>1, <3>3, <3>4 DEF GraceKnown
    <3>6. QED
      BY <1>1, <3>2, <3>5
  <2>4. QED
    BY <2>2, <2>3
<1>3. QED
  BY <1>1, <1>2 DEF Grace

LEMMA GraceOfRenewal ==
    ASSUME Inv, Grace, NEW p \in Passes,
           \/ Begin(p) \/ Crash(p) \/ Repair(p) \/ List(p) \/ Bind(p) \/ Charge(p) \/ Mark(p)
    PROVE  Grace'
<1>1. rich' = rich /\ now' = now
  BY DEF Begin, Crash, Repair, List, Bind, Charge, Mark, boundVars
<1>2. row'.zero = row.zero
  BY TypeParts DEF Begin, Crash, Repair, List, Bind, Charge, Mark, rowVars, MarkPaid, Row
<1>3. \E n : pass' = [pass EXCEPT ![p] = n] /\ n.at \notin {"note", "probe", "confirm", "delete"}
  <2>1. CASE Begin(p)
    <3>1. PICK won \in BOOLEAN :
          pass' = [pass EXCEPT ![p] =
                 [at |-> CASE ~won -> "survey"
                           [] won /\ ChargedPending = {} -> "list"
                           [] won /\ ChargedPending # {} -> "repair",
                  moment |-> IF won THEN now ELSE 0, rec |-> NoRow, zero |-> Never,
                  unpaid |-> FALSE, verdict |-> "none", late |-> FALSE]]
      BY <2>1 DEF Begin
    <3>2. PICK place : place = CASE ~won -> "survey"
                                 [] won /\ ChargedPending = {} -> "list"
                                 [] won /\ ChargedPending # {} -> "repair"
      OBVIOUS
    <3>3. place \in {"survey", "list", "repair"}
      BY <3>2
    <3>4. PICK n : n = [at |-> place, moment |-> IF won THEN now ELSE 0, rec |-> NoRow,
                        zero |-> Never, unpaid |-> FALSE, verdict |-> "none", late |-> FALSE]
      OBVIOUS
    <3>5. pass' = [pass EXCEPT ![p] = n] /\ n.at = place
      BY <3>1, <3>2, <3>4
    <3>6. QED
      BY <3>3, <3>5
  <2>2. CASE Crash(p)
    <3>1. pass' = [pass EXCEPT ![p] = Idle] /\ Idle.at = "idle"
      BY <2>2 DEF Crash, Idle
    <3>2. QED
      BY <3>1
  <2>3. CASE \E place \in {"list", "bind", "charge", "mark"} :
                 pass' = [pass EXCEPT ![p].at = place] \/ pass' = [pass EXCEPT ![p].at = place, ![p].rec = row]
    <3>1. PICK place \in {"list", "bind", "charge", "mark"} :
              \/ pass' = [pass EXCEPT ![p] = [pass[p] EXCEPT !.at = place]]
              \/ pass' = [pass EXCEPT ![p] = [pass[p] EXCEPT !.at = place, !.rec = row]]
      BY <2>3, TypeParts
    <3>2. pass[p] \in Pass \union {Idle}
      BY TypeParts
    <3>3. /\ [pass[p] EXCEPT !.at = place].at = place
          /\ [pass[p] EXCEPT !.at = place, !.rec = row].at = place
      BY <3>2 DEF Pass, Idle
    <3>4. QED
      BY <3>1, <3>3
  <2>4. CASE (List(p) \/ Bind(p) \/ Charge(p) \/ Mark(p)) /\ \E unpaid \in BOOLEAN : Renewed(p, unpaid)
    <3>1. pass[p] \in Pass
      BY <2>4, PassAt DEF List, Bind, Charge, Mark
    <3>2. PICK n \in Pass : pass' = [pass EXCEPT ![p] = n] /\ n.at = "survey"
      BY <2>4, <3>1, RenewalOver
    <3>3. QED
      BY <3>2
  <2>5. QED
    BY <2>1, <2>2, <2>3, <2>4, FailedIsOver DEF Repair, List, Bind, Charge, Mark, Goto
<1>4. QED
  BY <1>1, <1>2, <1>3, GraceOfOthers

LEMMA GraceOfSurvey ==
    ASSUME Inv, Grace, OnePass, NEW p \in Passes, Survey(p)
    PROVE  Grace'
<1>1. row' = row /\ now' = now /\ balance \in Nat /\ now \in Nat /\ rich <= now
  BY TypeParts, MoneyAssumption, StartsFacts DEF Survey, rowVars, Grace, Rest
<1>2. pass[p] \in Pass
  BY PassAt DEF Survey
<1>3. PICK zero : zero = ZeroSince(row)
  OBVIOUS
<1>4. PICK verdict : verdict = CASE balance > 0 -> "none"
                                 [] balance = 0 /\ now - zero >= Patience -> "delete"
                                 [] balance = 0 /\ now - zero < Patience -> "stop"
  OBVIOUS
<1>5. /\ pass' = [pass EXCEPT ![p] =
               CASE row.state \notin Alive -> Errands(p, @.unpaid, "none")
                 [] row.state \in Alive /\ zero = row.zero -> Errands(p, @.unpaid, verdict)
                 [] row.state \in Alive /\ zero # row.zero ->
                        [@ EXCEPT !.at = "note", !.rec = row, !.zero = zero, !.verdict = verdict]]
      /\ rich' = IF balance > 0 /\ row.state \in Alive /\ zero = row.zero THEN now ELSE rich
  BY <1>3, <1>4 DEF Survey
<1>6. CASE ~(row.state \in Alive /\ zero # row.zero)
  <2>1. pass'[p] = Errands(p, pass[p].unpaid, "none") \/ pass'[p] = Errands(p, pass[p].unpaid, verdict)
    BY <1>5, <1>6, TypeParts
  <2>2. pass'[p].at \in {"enforce", "idle"}
    BY <1>2, <2>1, ErrandsAt
  <2>3. rich' <= now /\ (row.zero # Never => rich' <= row.zero)
    BY <1>1, <1>3, <1>5 DEF Grace, ZeroSince
  <2>4. \A q \in Passes : pass'[q].at \in {"enforce", "idle"}
    BY <2>2 DEF OnePass
  <2>5. QED
    BY <1>1, <2>3, <2>4 DEF Grace, GraceKnown
<1>7. CASE row.state \in Alive /\ zero # row.zero
  <2>1. PICK n : n = [pass[p] EXCEPT !.at = "note", !.rec = row, !.zero = zero, !.verdict = verdict]
    OBVIOUS
  <2>2. pass'[p] = n /\ rich' = rich
    BY <1>5, <1>7, <2>1, TypeParts
  <2>3. n.at = "note" /\ n.zero = zero /\ n.verdict = verdict
    BY <1>2, <2>1 DEF Pass
  <2>4. zero # Never => zero = now
    BY <1>1, <1>3, <1>7 DEF ZeroSince
  <2>5. verdict = "none" => zero = Never
    <3>1. zero \in Int /\ Patience \in Int
      BY <1>1, <1>3, InstantsOfRow, TypeParts, TimeAssumption DEF ZeroSince, Never
    <3>2. QED
      BY <1>1, <1>3, <1>4, <3>1 DEF ZeroSince
  <2>6. GraceKnown(n, rich, now)
    BY <1>1, <2>3, <2>4, <2>5 DEF GraceKnown
  <2>7. \A q \in Passes : GraceKnown(pass'[q], rich', now')
    BY <1>1, <2>2, <2>6 DEF OnePass
  <2>8. QED
    BY <1>1, <2>2, <2>7 DEF Grace
<1>8. QED
  BY <1>6, <1>7

LEMMA GraceOfNote ==
    ASSUME Inv, Grace, OnePass, NEW p \in Passes, Note(p)
    PROVE  Grace'
<1>1. PICK kept \in BOOLEAN :
          /\ row' = IF kept THEN [row EXCEPT !.zero = pass[p].zero] ELSE row
          /\ rich' = IF kept /\ pass[p].verdict = "none" THEN now ELSE rich
          /\ pass' = [pass EXCEPT ![p] =
                 Errands(p, @.unpaid, IF kept THEN @.verdict ELSE "none")]
  BY DEF Note
<1>2. now' = now /\ now \in Nat
  BY TypeParts, StartsFacts DEF Note
<1>3. pass[p] \in Pass /\ pass[p].at = "note"
  BY PassAt DEF Note
<1>4. PICK verdict : verdict = IF kept THEN pass[p].verdict ELSE "none"
  OBVIOUS
<1>5. pass'[p] = Errands(p, pass[p].unpaid, verdict)
  BY <1>1, <1>4, TypeParts
<1>6. pass'[p].at \in {"enforce", "idle"}
  BY <1>3, <1>5, ErrandsAt
<1>7. GraceKnown(pass[p], rich, now)
  BY DEF Grace
<1>8. row'.zero = IF kept THEN pass[p].zero ELSE row.zero
  BY <1>1, TypeParts DEF Row
<1>9. rich' <= now' /\ (row'.zero # Never => rich' <= row'.zero)
  BY <1>1, <1>2, <1>3, <1>7, <1>8 DEF Grace, GraceKnown
<1>10. \A q \in Passes : pass'[q].at \in {"enforce", "idle"}
  BY <1>6 DEF OnePass
<1>11. QED
  BY <1>9, <1>10 DEF Grace, GraceKnown

LEMMA GraceOfErrands ==
    ASSUME Inv, Grace, NEW p \in Passes,
           Look(p) \/ Probe(p) \/ PowerOff(p) \/ Confirm(p) \/ Delete(p)
    PROVE  Grace'
<1>1. rich' = rich /\ now' = now
  BY DEF Look, Probe, PowerOff, Confirm, Delete, boundVars
<1>2. row'.zero = row.zero
  BY TypeParts DEF Look, Probe, PowerOff, Confirm, Delete, rowVars, Row
<1>3. pass[p] \in Pass
  BY PassAt DEF Look, Probe, PowerOff, Confirm, Delete
<1>4. GraceKnown(pass[p], rich, now)
  BY DEF Grace
<1>5. CASE ErrandOver(p)
  <2>1. PICK n \in Pass \union {Idle} : pass' = [pass EXCEPT ![p] = n] /\ n.at \in {"enforce", "idle"}
    BY <1>3, <1>5, ErrandOverOK
  <2>2. QED
    BY <1>1, <1>2, <2>1, GraceOfOthers
<1>6. CASE Goto(p, "off")
  <2>1. PICK n : n = [pass[p] EXCEPT !.at = "off"]
    OBVIOUS
  <2>2. n.at = "off" /\ pass' = [pass EXCEPT ![p] = n]
    BY <1>3, <1>6, <2>1, TypeParts DEF Pass, Goto
  <2>3. QED
    BY <1>1, <1>2, <2>2, GraceOfOthers
<1>7. ASSUME NEW n, pass' = [pass EXCEPT ![p] = n], GraceKnown(n, rich, now)
      PROVE  Grace'
  <2>1. ASSUME NEW q \in Passes PROVE GraceKnown(pass'[q], rich, now)
    <3>1. pass'[q] = pass[q] \/ pass'[q] = n
      BY <1>7, TypeParts
    <3>2. QED
      BY <1>7, <3>1 DEF Grace
  <2>2. QED
    BY <1>1, <1>2, <2>1 DEF Grace
<1>8. CASE Look(p) /\ pass' = [pass EXCEPT ![p].at = "probe", ![p].rec = row]
  <2>1. PICK n : n = [pass[p] EXCEPT !.at = "probe", !.rec = row]
    OBVIOUS
  <2>2. n.at = "probe" /\ n.rec = row /\ pass' = [pass EXCEPT ![p] = n]
    BY <1>3, <1>8, <2>1, TypeParts DEF Pass
  <2>3. GraceKnown(n, rich, now)
    BY <2>2 DEF GraceKnown, Grace
  <2>4. QED
    BY <1>7, <2>2, <2>3
<1>9. CASE Probe(p) /\ Expired(Rec(p)) /\ Goto(p, "confirm")
  <2>1. PICK n : n = [pass[p] EXCEPT !.at = "confirm"]
    OBVIOUS
  <2>2. n.at = "confirm" /\ n.rec = pass[p].rec /\ pass' = [pass EXCEPT ![p] = n]
    BY <1>3, <1>9, <2>1, TypeParts DEF Pass, Goto
  <2>3. GraceKnown(n, rich, now)
    BY <1>4, <1>9, <2>2 DEF GraceKnown, Expired, Rec, Probe, At
  <2>4. QED
    BY <1>7, <2>2, <2>3
<1>10. CASE Confirm(p) /\ Goto(p, "delete")
  <2>1. PICK n : n = [pass[p] EXCEPT !.at = "delete"]
    OBVIOUS
  <2>2. n.at = "delete" /\ n.rec = pass[p].rec /\ pass' = [pass EXCEPT ![p] = n]
    BY <1>3, <1>10, <2>1, TypeParts DEF Pass, Goto
  <2>3. GraceKnown(n, rich, now)
    BY <1>4, <1>10, <2>2 DEF GraceKnown, Confirm, At
  <2>4. QED
    BY <1>7, <2>2, <2>3
<1>11. QED
  BY <1>5, <1>6, <1>8, <1>9, <1>10 DEF Look, Probe, PowerOff, Confirm, Delete

LEMMA GraceNext == Inv /\ Grace /\ OnePass /\ [Next]_vars => Grace'
<1>1. SUFFICES ASSUME Inv, Grace, OnePass, [Next]_vars PROVE Grace'
  OBVIOUS
<1>2. QED
  BY <1>1, GraceOfWorld, GraceOfTick, GraceOfRenewal, GraceOfSurvey, GraceOfNote, GraceOfErrands
     DEF Next, PassStep

(***************************************************************************)
(* While the minute job does not overlap itself, a server is deleted for   *)
(* an empty wallet only a full grace after the policy last found money in  *)
(* it, for any grace and however often the wallet fills and empties.       *)
(***************************************************************************)
THEOREM GraceIsFull == ASSUME OnePass PROVE Spec => GraceRespected
<1>1. Init => Grace
  BY GraceInit
<1>2. Inv /\ Grace /\ [Next]_vars => Grace'
  BY GraceNext
<1>3. ASSUME Grace, Inv, NEW p \in Passes, At(p, "delete")
      PROVE  now - rich >= Patience
  <2>1. /\ pass[p].rec.zero # Never /\ rich <= pass[p].rec.zero
        /\ now - pass[p].rec.zero >= Patience
    BY <1>3 DEF Grace, GraceKnown, At
  <2>2. pass[p] \in Pass /\ now \in Int /\ rich \in Int /\ Patience \in Int
    BY <1>3, PassAt, TypeParts, TimeAssumption, StartsFacts DEF Rest
  <2>3. pass[p].rec.zero \in Int
    BY <2>2, InstantsOfRow DEF Pass
  <2>4. QED
    BY <2>1, <2>2, <2>3
<1>4. Inv /\ Grace /\ [Next]_vars =>
          [\A p \in Passes : At(p, "delete") /\ row'.state = "deleting" /\ row.state # "deleting"
              /\ pass'[p] # pass[p] => now - rich >= Patience]_vars
  BY <1>3
<1>5. QED
  BY <1>1, <1>2, <1>4, InvHolds, PTL DEF Spec, GraceRespected

=============================================================================

---------------------------- MODULE RenewalsProofs ----------------------------
(***************************************************************************)
(* Theorems about Renewals, for any period, window, grace and price, any   *)
(* number of overlapping passes and clicks, and any number of crashes.     *)
(*                                                                         *)
(* A call saves a record it has read earlier.  The argument is that an old *)
(* record is never wrong about the past: its date is the end of a period,  *)
(* and every period before it is paid, whatever has happened since.        *)
(***************************************************************************)
EXTENDS Renewals, FiniteSetTheorems, TLAPS

(* A record, stored or remembered: its date is earned, and a deadline is   *)
(* that of its date.                                                       *)
RecOK(rec, h) ==
    /\ rec.renewal \in Ends
    /\ \A d \in Ends : d < rec.renewal => h[d] = "captured"
    /\ rec.grace # Never => rec.grace = rec.renewal + Grace

(* What a call may rely on at its place.  The clock stands while calls run. *)
Charging == {"charge", "create", "capture", "advance"}
CallOK(c, h, t) ==
    c.at # "idle" =>
        /\ RecOK(c.rec, h)
        /\ c.at \in {"decide", "suspend"} => c.rec.renewal <= t
        /\ c.at \in Charging => c.rec.renewal - Window <= t /\ t <= c.rec.renewal + Month
        /\ c.at = "capture" => h[c.rec.renewal] # "none"
        /\ c.at = "advance" => h[c.rec.renewal] = "captured"

(* Periods are paid in order. *)
HoldsOK(h) ==
    \A d \in Dates : h[d] = "captured" => d \in Ends /\ \A e \in Ends : e < d => h[e] = "captured"

(* Everything on hold is covered by the wallet. *)
Created(h) == {d \in Dates : h[d] = "created"}
FundsOK == elsewhere + Price * Cardinality(Created(hold)) <= balance

Inv ==
    /\ TypeOK
    /\ RecOK(row, hold) /\ HoldsOK(hold) /\ FundsOK
    /\ \A p \in Procs : CallOK(calls[p], hold, now)

-----------------------------------------------------------------------------
(* Ends of periods are a month apart. *)

LEMMA Multiples ==
    ASSUME NEW a \in Nat, NEW b \in Nat \ {0}
    PROVE  a % b = 0 <=> \E k \in Nat : a = k * b
<1>1. ASSUME a % b = 0 PROVE \E k \in Nat : a = k * b
  BY <1>1
<1>2. ASSUME NEW k \in Nat PROVE (k * b) % b = 0
  OBVIOUS
<1>3. QED
  BY <1>1, <1>2

LEMMA NextMultiple ==
    ASSUME NEW j \in Nat, NEW k \in Nat, NEW b \in Nat \ {0}, j * b < k * b
    PROVE  j * b + b <= k * b
<1>1. j < k
  OBVIOUS
<1>2. j + 1 <= k
  BY <1>1
<1>3. (j + 1) * b <= k * b
  BY <1>2
<1>4. QED
  BY <1>3

(* The instant a month after the end of a period is the end of a period. *)
LEMMA EndsGoOn ==
    ASSUME NEW d \in Ends, d + Month \in Dates
    PROVE  d + Month \in Ends
<1>1. d \in Nat /\ d - FirstEnd \in Nat /\ Month \in Nat \ {0} /\ FirstEnd \in Nat
  BY TimeAssumption DEF Ends, Dates
<1>2. PICK k \in Nat : d - FirstEnd = k * Month
  BY <1>1, Multiples DEF Ends
<1>3. (d + Month) - FirstEnd = (k + 1) * Month /\ k + 1 \in Nat /\ (d + Month) - FirstEnd \in Nat
  <2>1. (k + 1) * Month = k * Month + Month
    BY <1>1
  <2>2. (d + Month) - FirstEnd = (d - FirstEnd) + Month
    BY <1>1
  <2>3. QED
    BY <1>1, <1>2, <2>1, <2>2
<1>4. ((d + Month) - FirstEnd) % Month = 0
  BY <1>1, <1>3, Multiples
<1>5. QED
  BY <1>1, <1>4 DEF Ends

(* No period ends in between. *)
LEMMA EndsApart ==
    ASSUME NEW d \in Ends, NEW e \in Ends, d < e
    PROVE  d + Month <= e
<1>1. /\ d - FirstEnd \in Nat /\ e - FirstEnd \in Nat /\ Month \in Nat \ {0}
      /\ FirstEnd \in Nat /\ d \in Nat /\ e \in Nat
  BY TimeAssumption DEF Ends, Dates
<1>2. PICK j \in Nat : d - FirstEnd = j * Month
  BY <1>1, Multiples DEF Ends
<1>3. PICK k \in Nat : e - FirstEnd = k * Month
  BY <1>1, Multiples DEF Ends
<1>4. j * Month + Month <= k * Month
  BY <1>1, <1>2, <1>3, NextMultiple
<1>5. QED
  BY <1>1, <1>2, <1>3, <1>4

LEMMA FirstIsEnd == FirstEnd \in Ends /\ \A d \in Ends : d >= FirstEnd /\ d \in Nat
<1>1. (FirstEnd - FirstEnd) % Month = 0
  <2>1. FirstEnd - FirstEnd = 0 /\ 0 = 0 * Month
    BY TimeAssumption
  <2>2. QED
    BY <2>1, Multiples, TimeAssumption
<1>2. QED
  BY <1>1, HorizonAssumption, TimeAssumption DEF Ends, Dates

(* A record moved on by one period, once that period is paid. *)
LEMMA RenewedOK ==
    ASSUME NEW h, NEW rec \in Record, RecOK(rec, h), h[rec.renewal] = "captured",
           rec.renewal <= Horizon + Window + Month
    PROVE  Renewed(rec) \in Record /\ RecOK(Renewed(rec), h)
<1>1. rec.renewal \in Nat /\ rec.renewal + Month \in Dates
  BY TimeAssumption DEF Record, Dates
<1>2. PICK n : n = Renewed(rec)
  OBVIOUS
<1>3. n \in Record /\ n.renewal = rec.renewal + Month /\ n.grace = Never
  BY <1>1, <1>2 DEF Record, Renewed
<1>4. n.renewal \in Ends
  BY <1>1, <1>3, EndsGoOn DEF RecOK
<1>5. ASSUME NEW d \in Ends, d < n.renewal PROVE h[d] = "captured"
  <2>1. d \in Nat /\ rec.renewal \in Ends /\ Month \in Nat
    BY FirstIsEnd, TimeAssumption DEF RecOK
  <2>2. ~(rec.renewal < d)
    BY <1>1, <1>3, <1>5, <2>1, EndsApart
  <2>3. d < rec.renewal \/ d = rec.renewal
    BY <1>1, <2>1, <2>2
  <2>4. QED
    BY <2>3 DEF RecOK
<1>6. QED
  BY <1>2, <1>3, <1>4, <1>5 DEF RecOK

-----------------------------------------------------------------------------
(* The money on hold, counted. *)

LEMMA CreatedFinite ==
    ASSUME NEW h PROVE IsFiniteSet(Created(h)) /\ Cardinality(Created(h)) \in Nat
<1>1. IsFiniteSet(Dates)
  BY FS_Interval, TimeAssumption DEF Dates
<1>2. IsFiniteSet(Created(h))
  BY <1>1, FS_Subset DEF Created
<1>3. QED
  BY <1>2, FS_CardinalityType

LEMMA CountCreate ==
    ASSUME NEW h \in [Dates -> {"none", "created", "captured"}], NEW d \in Dates, h[d] = "none"
    PROVE  Cardinality(Created([h EXCEPT ![d] = "created"])) = Cardinality(Created(h)) + 1
<1>1. Created([h EXCEPT ![d] = "created"]) = Created(h) \cup {d} /\ d \notin Created(h)
  BY DEF Created
<1>2. QED
  BY <1>1, CreatedFinite, FS_AddElement

LEMMA CountCapture ==
    ASSUME NEW h \in [Dates -> {"none", "created", "captured"}], NEW d \in Dates
    PROVE  Cardinality(Created([h EXCEPT ![d] = "captured"])) =
               Cardinality(Created(h)) - (IF h[d] = "created" THEN 1 ELSE 0)
<1>1. CASE h[d] = "created"
  <2>1. Created([h EXCEPT ![d] = "captured"]) = Created(h) \ {d} /\ d \in Created(h)
    BY <1>1 DEF Created
  <2>2. QED
    BY <1>1, <2>1, CreatedFinite, FS_RemoveElement
<1>2. CASE h[d] # "created"
  <2>1. Created([h EXCEPT ![d] = "captured"]) = Created(h)
    BY <1>2 DEF Created
  <2>2. QED
    BY <1>2, <2>1, CreatedFinite
<1>3. QED
  BY <1>1, <1>2

(* What is available is the wallet less everything on hold. *)
LEMMA AvailableIs ==
    ASSUME Inv
    PROVE  Available = balance - elsewhere - Price * Cardinality(Created(hold))
BY DEF Available, Created

-----------------------------------------------------------------------------
LEMMA InvInit == Init => Inv
<1> SUFFICES ASSUME Init PROVE Inv
  OBVIOUS
<1>1. row \in Record /\ row.renewal = FirstEnd /\ row.grace = Never
  BY HorizonAssumption DEF Init, Record
<1>2. TypeOK
  <2>1. now \in 0..Horizon /\ crashes \in 0..MaxCrashes /\ elsewhere \in 0..balance
    BY TimeAssumption, MoneyAssumption DEF Init
  <2>2. QED
    BY <1>1, <2>1 DEF Init, TypeOK
<1>3. RecOK(row, hold)
  BY <1>1, FirstIsEnd, TimeAssumption DEF RecOK
<1>4. HoldsOK(hold)
  BY DEF Init, HoldsOK
<1>5. FundsOK
  <2>1. Created(hold) = {}
    BY DEF Init, Created
  <2>2. Cardinality(Created(hold)) = 0 /\ balance \in Nat /\ elsewhere = 0
    BY <2>1, FS_EmptySet, MoneyAssumption DEF Init
  <2>3. QED
    BY <2>2, MoneyAssumption DEF FundsOK
<1>6. \A p \in Procs : CallOK(calls[p], hold, now)
  BY DEF Init, CallOK, Idle
<1>7. QED
  BY <1>2, <1>3, <1>4, <1>5, <1>6 DEF Inv

-----------------------------------------------------------------------------
(* The frames. *)

(* A hold once made stays, and a captured one stays captured. *)
Grows ==
    \A d \in Dates : /\ hold[d] # "none" => hold'[d] # "none"
                     /\ hold[d] = "captured" => hold'[d] = "captured"

LEMMA RecKept ==
    ASSUME NEW rec, RecOK(rec, hold), Grows
    PROVE  RecOK(rec, hold')
BY DEF RecOK, Grows, Ends

LEMMA CallKept ==
    ASSUME NEW c \in Call \cup {Idle}, CallOK(c, hold, now), Grows
    PROVE  CallOK(c, hold', now)
<1>1. CASE c.at = "idle"
  BY <1>1 DEF CallOK
<1>2. CASE c.at # "idle"
  <2>1. RecOK(c.rec, hold) /\ c.rec.renewal \in Dates
    BY <1>2 DEF CallOK, RecOK, Ends
  <2>2. RecOK(c.rec, hold')
    BY <2>1, RecKept
  <2>3. QED
    BY <1>2, <2>1, <2>2 DEF CallOK, Grows
<1>3. QED
  BY <1>1, <1>2

LEMMA CallFrame ==
    ASSUME Inv, NEW p \in Procs, NEW c \in Call \cup {Idle}, calls' = [calls EXCEPT ![p] = c],
           CallOK(c, hold', now), Grows,
           now' = now, row' \in Record, RecOK(row', hold'),
           hold' \in [Dates -> {"none", "created", "captured"}], HoldsOK(hold'),
           balance' \in 0..MaxBalance, elsewhere' \in 0..balance', FundsOK',
           wish' \in BOOLEAN, rested' \in BOOLEAN, crashes' \in 0..MaxCrashes
    PROVE  Inv'
<1>1. TypeOK'
  BY DEF Inv, TypeOK
<1>2. \A q \in Procs \ {p} : calls'[q] = calls[q] /\ calls[q] \in Call \cup {Idle}
  BY DEF Inv, TypeOK
<1>3. calls'[p] = c
  BY DEF Inv, TypeOK
<1>4. \A q \in Procs : CallOK(calls'[q], hold', now')
  BY <1>2, <1>3, CallKept DEF Inv
<1>5. QED
  BY <1>1, <1>4 DEF Inv

(* A step of a call that leaves the wallet alone. *)
LEMMA RowFrame ==
    ASSUME Inv, NEW p \in Procs, NEW c \in Call \cup {Idle}, calls' = [calls EXCEPT ![p] = c],
           CallOK(c, hold, now), row' \in Record, RecOK(row', hold),
           rested' \in BOOLEAN, crashes' \in 0..MaxCrashes,
           UNCHANGED <<now, hold, balance, elsewhere, wish>>
    PROVE  Inv'
<1>1. Grows /\ FundsOK'
  BY DEF Grows, Inv, FundsOK
<1>2. QED
  BY <1>1, CallFrame DEF Inv, TypeOK

(* A call in the middle, and how it goes on. *)
LEMMA InTheMiddle ==
    ASSUME Inv, NEW p \in Procs, ~At(p, "idle")
    PROVE  /\ calls[p] \in Call /\ Rec(p) \in Record /\ RecOK(Rec(p), hold)
           /\ CallOK(calls[p], hold, now)
BY DEF Inv, TypeOK, At, Idle, Call, CallOK, Rec

LEMMA DoneFrame ==
    ASSUME Inv, NEW p \in Procs, Done(p), row' \in Record, RecOK(row', hold),
           crashes' \in 0..MaxCrashes,
           UNCHANGED <<now, hold, balance, elsewhere, wish>>
    PROVE  Inv'
<1>1. calls' = [calls EXCEPT ![p] = Idle] /\ rested' \in BOOLEAN
  BY DEF Done, Finish, Inv, TypeOK
<1>2. CallOK(Idle, hold, now)
  BY DEF CallOK, Idle
<1>3. QED
  BY <1>1, <1>2, RowFrame

LEMMA GotoFrame ==
    ASSUME Inv, NEW p \in Procs,
           NEW place \in {"check", "decide", "suspend", "charge", "create", "capture", "advance"},
           NEW rec \in Record, NEW rich \in BOOLEAN, Goto(p, place, rec, rich),
           RecOK(rec, hold),
           place \in {"decide", "suspend"} => rec.renewal <= now,
           place \in Charging => rec.renewal - Window <= now /\ now <= rec.renewal + Month,
           place = "capture" => hold[rec.renewal] # "none",
           place = "advance" => hold[rec.renewal] = "captured",
           row' \in Record, RecOK(row', hold),
           UNCHANGED <<now, hold, balance, elsewhere, wish, rested, crashes>>
    PROVE  Inv'
<1>1. PICK c : c = [at |-> place, rec |-> rec, rich |-> rich]
  OBVIOUS
<1>2. c \in Call /\ calls' = [calls EXCEPT ![p] = c]
  BY <1>1 DEF Goto, Call
<1>3. CallOK(c, hold, now)
  BY <1>1 DEF CallOK
<1>4. QED
  BY <1>2, <1>3, RowFrame DEF Inv, TypeOK

-----------------------------------------------------------------------------
(* The daily pass. *)

LEMMA ListActiveStep == ASSUME Inv, NEW p \in Procs, ListActive(p) PROVE Inv'
BY GotoFrame DEF ListActive, Inv, TypeOK, Charging

LEMMA CheckEarlyStep == ASSUME Inv, NEW p \in Procs, CheckEarly(p) PROVE Inv'
<1>1. Rec(p) \in Record /\ RecOK(Rec(p), hold)
  BY InTheMiddle DEF CheckEarly, At
<1>2. CASE Done(p)
  BY <1>2, DoneFrame DEF CheckEarly, Inv, TypeOK
<1>3. CASE Goto(p, "charge", Rec(p), TRUE) /\ WindowOpen(Rec(p)) /\ UNCHANGED rested
  <2>1. Rec(p).renewal - Window <= now /\ now <= Rec(p).renewal + Month
    BY <1>1, <1>3, TimeAssumption DEF CheckEarly, WindowOpen, Inv, TypeOK, Record, Dates
  <2>2. QED
    BY <1>1, <1>3, <2>1, GotoFrame DEF CheckEarly, Inv, TypeOK
<1>4. QED
  BY <1>2, <1>3 DEF CheckEarly

LEMMA DueOK ==
    ASSUME NEW h, NEW rec \in Record, RecOK(rec, h), rec.renewal <= Horizon
    PROVE  /\ Due(rec) \in Record /\ RecOK(Due(rec), h) /\ Due(rec).renewal = rec.renewal
           /\ Due(rec) = rec \/ Due(rec).status = "payment_due"
<1>1. rec.renewal + Grace \in Dates
  BY TimeAssumption DEF Record, Dates
<1>2. CASE Due(rec) = rec
  BY <1>2
<1>3. CASE Due(rec) = [rec EXCEPT !.status = "payment_due", !.grace = rec.renewal + Grace]
  <2>1. PICK due : due = [rec EXCEPT !.status = "payment_due", !.grace = rec.renewal + Grace]
    OBVIOUS
  <2>2. /\ due \in Record /\ due.renewal = rec.renewal /\ due.grace = rec.renewal + Grace
        /\ due.status = "payment_due"
    BY <1>1, <2>1 DEF Record
  <2>3. RecOK(due, h)
    BY <2>2 DEF RecOK
  <2>4. QED
    BY <1>3, <2>1, <2>2, <2>3
<1>4. QED
  BY <1>2, <1>3 DEF Due

LEMMA MarkDueStep == ASSUME Inv, NEW p \in Procs, MarkDue(p) PROVE Inv'
<1>1. Rec(p) \in Record /\ RecOK(Rec(p), hold) /\ Rec(p).renewal <= now
  BY InTheMiddle DEF MarkDue, At
<1>2. Rec(p).renewal <= Horizon
  BY <1>1, TimeAssumption DEF Inv, TypeOK, Record, Dates
<1>3. PICK due : due = Due(Rec(p))
  OBVIOUS
<1>4. due \in Record /\ RecOK(due, hold) /\ due.renewal = Rec(p).renewal
  BY <1>1, <1>2, <1>3, DueOK
<1>5. Goto(p, "decide", due, Covers) /\ row' \in {row, due} /\ Covers \in BOOLEAN
  BY <1>3 DEF MarkDue, Covers
<1>6. row' \in Record /\ RecOK(row', hold)
  BY <1>4, <1>5 DEF Inv, TypeOK
<1>7. QED
  BY <1>1, <1>4, <1>5, <1>6, GotoFrame DEF MarkDue, Charging

LEMMA DecideStep == ASSUME Inv, NEW p \in Procs, Decide(p) PROVE Inv'
<1>1. /\ Rec(p) \in Record /\ RecOK(Rec(p), hold) /\ Rec(p).renewal <= now
      /\ calls[p].rich \in BOOLEAN
  BY InTheMiddle DEF Decide, At, CallOK, Rec, Call
<1>2. CASE Goto(p, "suspend", Rec(p), calls[p].rich) /\ UNCHANGED rested
  BY <1>1, <1>2, GotoFrame DEF Decide, Inv, TypeOK, Charging
<1>3. CASE now < GraceEnd(Rec(p)) /\ Goto(p, "charge", Rec(p), TRUE) /\ UNCHANGED rested
  <2>1. GraceEnd(Rec(p)) = Rec(p).renewal + Grace
    BY <1>1 DEF GraceEnd, RecOK
  <2>2. Rec(p).renewal - Window <= now /\ now <= Rec(p).renewal + Month
    BY <1>1, <1>3, <2>1, TimeAssumption DEF Inv, TypeOK, Record, Dates
  <2>3. QED
    BY <1>1, <1>3, <2>2, GotoFrame DEF Decide, Inv, TypeOK
<1>4. CASE Done(p)
  BY <1>4, DoneFrame DEF Decide, Inv, TypeOK
<1>5. QED
  BY <1>2, <1>3, <1>4 DEF Decide

LEMMA SuspendStep == ASSUME Inv, NEW p \in Procs, Suspend(p) PROVE Inv'
<1>1. Rec(p) \in Record /\ RecOK(Rec(p), hold)
  BY InTheMiddle DEF Suspend, At
<1>2. PICK rec : rec = [Rec(p) EXCEPT !.status = "suspended"]
  OBVIOUS
<1>3. rec \in Record /\ rec.renewal = Rec(p).renewal /\ rec.grace = Rec(p).grace
  BY <1>1, <1>2 DEF Record
<1>4. RecOK(rec, hold)
  BY <1>1, <1>3 DEF RecOK
<1>5. row' \in Record /\ RecOK(row', hold)
  BY <1>2, <1>3, <1>4 DEF Suspend, Inv, TypeOK
<1>6. QED
  BY <1>5, DoneFrame DEF Suspend, Inv, TypeOK

-----------------------------------------------------------------------------
(* The customer's click, and the charge. *)

LEMMA SettleNowStep == ASSUME Inv, NEW p \in Procs, SettleNow(p) PROVE Inv'
<1>1. row.renewal - Window <= now /\ now <= row.renewal + Month
  BY TimeAssumption DEF SettleNow, Settleable, Inv, TypeOK, Record, Dates
<1>2. QED
  BY <1>1, GotoFrame DEF SettleNow, Inv, TypeOK

(* What a charge in the middle knows. *)
LEMMA InTheCharge ==
    ASSUME Inv, NEW p \in Procs, calls[p].at \in Charging
    PROVE  /\ Rec(p) \in Record /\ RecOK(Rec(p), hold)
           /\ Rec(p).renewal \in Dates
           /\ Rec(p).renewal - Window <= now /\ now <= Rec(p).renewal + Month
           /\ At(p, "capture") => hold[Rec(p).renewal] # "none"
           /\ At(p, "advance") => hold[Rec(p).renewal] = "captured"
<1>1. ~At(p, "idle")
  BY DEF Charging, At
<1>2. QED
  BY <1>1, InTheMiddle DEF CallOK, Rec, At, Record

LEMMA ChargeLookupStep == ASSUME Inv, NEW p \in Procs, ChargeLookup(p) PROVE Inv'
<1>1. /\ Rec(p) \in Record /\ RecOK(Rec(p), hold) /\ Rec(p).renewal \in Dates
      /\ Rec(p).renewal - Window <= now /\ now <= Rec(p).renewal + Month
  BY InTheCharge DEF ChargeLookup, At, Charging
<1>2. PICK place \in {"create", "capture", "advance"} :
          /\ place = AfterLookup(hold[Rec(p).renewal])
          /\ place = "capture" => hold[Rec(p).renewal] # "none"
          /\ place = "advance" => hold[Rec(p).renewal] = "captured"
  BY <1>1 DEF AfterLookup, Inv, TypeOK
<1>3. Goto(p, place, Rec(p), TRUE)
  BY <1>2 DEF ChargeLookup
<1>4. QED
  BY <1>1, <1>2, <1>3, GotoFrame DEF ChargeLookup, Inv, TypeOK

LEMMA ChargeCreateStep == ASSUME Inv, NEW p \in Procs, ChargeCreate(p) PROVE Inv'
<1> DEFINE d == Rec(p).renewal
<1>1. /\ Rec(p) \in Record /\ RecOK(Rec(p), hold) /\ d \in Dates
      /\ d - Window <= now /\ now <= d + Month
  BY InTheCharge DEF ChargeCreate, At, Charging
<1>2. CASE Done(p) /\ UNCHANGED hold
  BY <1>2, DoneFrame DEF ChargeCreate, Inv, TypeOK
<1>3. CASE /\ ~(Available < Price) /\ Goto(p, "capture", Rec(p), TRUE) /\ UNCHANGED rested
           /\ hold' = IF hold[d] = "none" THEN [hold EXCEPT ![d] = "created"] ELSE hold
  <2>1. CASE hold[d] # "none"
    BY <1>1, <1>3, <2>1, GotoFrame DEF ChargeCreate, Inv, TypeOK
  <2>2. CASE hold[d] = "none"
    <3>1. hold \in [Dates -> {"none", "created", "captured"}] /\ hold' = [hold EXCEPT ![d] = "created"]
      BY <1>3, <2>2 DEF Inv, TypeOK
    <3>2. hold' \in [Dates -> {"none", "created", "captured"}] /\ Grows
      BY <1>1, <2>2, <3>1 DEF Grows
    <3>3. PICK c : c = [at |-> "capture", rec |-> Rec(p), rich |-> TRUE]
      OBVIOUS
    <3>4. c \in Call /\ calls' = [calls EXCEPT ![p] = c]
      BY <1>1, <1>3, <3>3 DEF Goto, Call
    <3>5. RecOK(Rec(p), hold') /\ RecOK(row, hold')
      BY <1>1, <3>2, RecKept DEF Inv
    <3>6. hold'[d] = "created"
      BY <1>1, <3>1
    <3>7. CallOK(c, hold', now)
      BY <1>1, <3>3, <3>5, <3>6 DEF CallOK, Charging
    <3>8. HoldsOK(hold')
      BY <1>1, <2>2, <3>1 DEF Inv, HoldsOK, Ends
    <3>9. FundsOK'
      <4>1. Cardinality(Created(hold')) = Cardinality(Created(hold)) + 1
        BY <1>1, <2>2, <3>1, CountCreate
      <4>2. balance - elsewhere - Price * Cardinality(Created(hold)) >= Price
        BY <1>3, AvailableIs, CreatedFinite, MoneyAssumption DEF Inv, TypeOK
      <4>3. /\ balance \in Int /\ elsewhere \in Int /\ Price \in Nat
            /\ Cardinality(Created(hold)) \in Nat
        BY CreatedFinite, MoneyAssumption DEF Inv, TypeOK
      <4>4. PICK n \in Nat : n = Cardinality(Created(hold))
        BY <4>3
      <4>5. Price * (n + 1) = Price * n + Price
        BY <4>3
      <4>6. elsewhere + Price * (n + 1) <= balance
        BY <4>2, <4>3, <4>4, <4>5
      <4>7. QED
        BY <4>1, <4>4, <4>6 DEF FundsOK, ChargeCreate
    <3>10. QED
      BY <1>3, <3>2, <3>4, <3>5, <3>7, <3>8, <3>9, CallFrame DEF ChargeCreate, Inv, TypeOK
  <2>3. QED
    BY <2>1, <2>2
<1>4. QED
  BY <1>2, <1>3 DEF ChargeCreate

LEMMA ChargeCaptureStep == ASSUME Inv, NEW p \in Procs, ChargeCapture(p) PROVE Inv'
<1> DEFINE d == Rec(p).renewal
<1>1. /\ Rec(p) \in Record /\ RecOK(Rec(p), hold) /\ d \in Dates
      /\ d - Window <= now /\ now <= d + Month /\ hold[d] # "none"
  BY InTheCharge DEF ChargeCapture, At, Charging
<1>2. CASE Done(p) /\ UNCHANGED <<hold, balance>>
  BY <1>2, DoneFrame DEF ChargeCapture, Inv, TypeOK
<1>3. CASE /\ Debit(d) /\ hold' = [hold EXCEPT ![d] = "captured"]
           /\ Goto(p, "advance", Rec(p), TRUE) /\ UNCHANGED rested
  <2>1. hold \in [Dates -> {"none", "created", "captured"}]
    BY DEF Inv, TypeOK
  <2>2. /\ hold' \in [Dates -> {"none", "created", "captured"}] /\ hold'[d] = "captured"
        /\ \A e \in Dates \ {d} : hold'[e] = hold[e]
    BY <1>1, <1>3, <2>1
  <2>3. Grows
    BY <2>2 DEF Grows
  <2>4. PICK c : c = [at |-> "advance", rec |-> Rec(p), rich |-> TRUE]
    OBVIOUS
  <2>5. c \in Call /\ calls' = [calls EXCEPT ![p] = c]
    BY <1>1, <1>3, <2>4 DEF Goto, Call
  <2>6. RecOK(Rec(p), hold') /\ RecOK(row, hold')
    BY <1>1, <2>3, RecKept DEF Inv
  <2>7. CallOK(c, hold', now)
    BY <1>1, <2>2, <2>4, <2>6 DEF CallOK, Charging
  <2>8. HoldsOK(hold')
    BY <1>1, <2>2 DEF Inv, HoldsOK, RecOK, Ends
  <2>9. balance' \in 0..MaxBalance /\ elsewhere \in 0..balance' /\ FundsOK'
    <3>1. /\ balance \in Nat /\ elsewhere \in Nat /\ Price \in Nat /\ balance <= MaxBalance
          /\ MaxBalance \in Nat
      BY MoneyAssumption DEF Inv, TypeOK
    <3>2. PICK n \in Nat : n = Cardinality(Created(hold'))
      BY CreatedFinite
    <3>3. Price * n \in Nat
      BY <3>1
    <3>4. elsewhere + Price * n <= balance' /\ balance' \in Int /\ balance' <= balance
      <4>1. CASE hold[d] = "created"
        <5>1. Cardinality(Created(hold)) = n + 1
          <6>1. PICK m \in Nat : m = Cardinality(Created(hold))
            BY CreatedFinite
          <6>2. n = m - (IF hold[d] = "created" THEN 1 ELSE 0)
            BY <1>1, <1>3, <2>1, <3>2, <6>1, CountCapture
          <6>3. QED
            BY <4>1, <6>1, <6>2
        <5>2. Price * (n + 1) = Price * n + Price
          BY <3>1
        <5>3. elsewhere + (Price * n + Price) <= balance
          BY <5>1, <5>2 DEF Inv, FundsOK
        <5>4. balance' = balance - Price
          BY <1>3, <4>1 DEF Debit
        <5>5. QED
          BY <3>1, <3>3, <5>3, <5>4
      <4>2. CASE hold[d] = "captured"
        <5>1. Cardinality(Created(hold)) = n
          <6>1. PICK m \in Nat : m = Cardinality(Created(hold))
            BY CreatedFinite
          <6>2. n = m - (IF hold[d] = "created" THEN 1 ELSE 0)
            BY <1>1, <1>3, <2>1, <3>2, <6>1, CountCapture
          <6>3. QED
            BY <4>2, <6>1, <6>2
        <5>2. balance' = balance
          BY <1>3, <4>2 DEF Debit
        <5>3. QED
          BY <3>1, <5>1, <5>2 DEF Inv, FundsOK
      <4>3. QED
        BY <1>1, <2>1, <4>1, <4>2
    <3>5. QED
      BY <3>1, <3>2, <3>3, <3>4 DEF FundsOK, ChargeCapture
  <2>10. QED
    BY <1>3, <2>2, <2>3, <2>5, <2>6, <2>7, <2>8, <2>9, CallFrame DEF ChargeCapture, Inv, TypeOK
<1>4. QED
  BY <1>2, <1>3 DEF ChargeCapture

LEMMA AdvanceStep == ASSUME Inv, NEW p \in Procs, Advance(p) PROVE Inv'
<1>1. /\ Rec(p) \in Record /\ RecOK(Rec(p), hold) /\ Rec(p).renewal \in Dates
      /\ Rec(p).renewal - Window <= now /\ hold[Rec(p).renewal] = "captured"
  BY InTheCharge DEF Advance, At, Charging
<1>2. Rec(p).renewal <= Horizon + Window + Month
  BY <1>1, TimeAssumption DEF Inv, TypeOK, Dates
<1>3. row' \in Record /\ RecOK(row', hold)
  BY <1>1, <1>2, RenewedOK DEF Advance
<1>4. QED
  BY <1>3, DoneFrame DEF Advance, Inv, TypeOK

-----------------------------------------------------------------------------
(* The customer, the wallet's other business, the clock, failures. *)

(* No call moves and no hold does. *)
LEMMA StillFrame ==
    ASSUME Inv, TypeOK', RecOK(row', hold), FundsOK', UNCHANGED <<now, hold, calls>>
    PROVE  Inv'
BY DEF Inv

LEMMA SetAutoRenewStep == ASSUME Inv, NEW choice \in BOOLEAN, SetAutoRenew(choice) PROVE Inv'
<1>1. row' \in Record /\ row'.renewal = row.renewal /\ row'.grace = row.grace
  BY DEF SetAutoRenew, Inv, TypeOK, Record
<1>2. RecOK(row', hold)
  BY <1>1 DEF Inv, RecOK
<1>3. TypeOK' /\ FundsOK'
  BY <1>1 DEF SetAutoRenew, Inv, TypeOK, FundsOK
<1>4. QED
  BY <1>2, <1>3, StillFrame DEF SetAutoRenew

(* What the wallet's other business must leave: the reserved amount. *)
LEMMA WalletFrame ==
    ASSUME Inv, balance' \in 0..MaxBalance, elsewhere' \in Nat,
           elsewhere' + Price * Cardinality(Created(hold)) <= balance',
           UNCHANGED <<now, row, hold, calls, wish, rested, crashes>>
    PROVE  Inv'
<1>1. PICK n \in Nat : n = Cardinality(Created(hold))
  BY CreatedFinite
<1>2. Price * n \in Nat /\ balance' \in Nat
  BY MoneyAssumption
<1>3. elsewhere' \in 0..balance'
  BY <1>1, <1>2
<1>4. TypeOK'
  BY <1>3 DEF Inv, TypeOK
<1>5. QED
  BY <1>4, StillFrame DEF Inv, FundsOK

LEMMA WalletStep == ASSUME Inv, TopUp \/ HoldElsewhere \/ SettleElsewhere PROVE Inv'
<1>1. PICK r \in Nat : r = Price * Cardinality(Created(hold))
  BY CreatedFinite, MoneyAssumption
<1>2. /\ balance \in Nat /\ elsewhere \in Nat /\ MaxBalance \in Nat /\ balance <= MaxBalance
      /\ elsewhere + r <= balance
  BY <1>1, MoneyAssumption DEF Inv, TypeOK, FundsOK
<1>3. CASE TopUp
  <2>1. balance' \in 0..MaxBalance /\ elsewhere' = elsewhere /\ elsewhere + r <= balance'
    BY <1>2, <1>3 DEF TopUp
  <2>2. QED
    BY <1>1, <1>2, <1>3, <2>1, WalletFrame DEF TopUp
<1>4. CASE HoldElsewhere
  <2>1. balance - elsewhere - r >= 1
    BY <1>1, <1>4, AvailableIs DEF HoldElsewhere
  <2>2. balance' = balance /\ elsewhere' \in Nat /\ elsewhere' + r <= balance'
    BY <1>2, <1>4, <2>1 DEF HoldElsewhere
  <2>3. QED
    BY <1>1, <1>2, <1>4, <2>2, WalletFrame DEF HoldElsewhere
<1>5. CASE SettleElsewhere
  <2>1. balance' \in 0..MaxBalance /\ elsewhere' \in Nat /\ elsewhere' + r <= balance'
    BY <1>2, <1>5 DEF SettleElsewhere
  <2>2. QED
    BY <1>1, <1>5, <2>1, WalletFrame DEF SettleElsewhere
<1>6. QED
  BY <1>3, <1>4, <1>5

LEMMA TickStep == ASSUME Inv, Tick PROVE Inv'
<1>1. now' \in 0..Horizon
  BY TimeAssumption DEF Tick, Inv, TypeOK
<1>2. TypeOK' /\ FundsOK'
  BY <1>1 DEF Tick, Inv, TypeOK, FundsOK
<1>3. \A p \in Procs : CallOK(calls'[p], hold', now')
  BY DEF Tick, At, CallOK
<1>4. QED
  BY <1>2, <1>3 DEF Tick, Inv

LEMMA CrashStep == ASSUME Inv, NEW p \in Procs, Crash(p) PROVE Inv'
<1>1. crashes' \in 0..MaxCrashes
  BY MoneyAssumption DEF Crash, Inv, TypeOK
<1>2. QED
  BY <1>1, DoneFrame DEF Crash, Inv, TypeOK

LEMMA InvStep == Inv /\ [Next]_vars => Inv'
<1> SUFFICES ASSUME Inv, [Next]_vars PROVE Inv'
  OBVIOUS
<1>1. CASE UNCHANGED vars
  <2>1. TypeOK' /\ FundsOK'
    BY <1>1 DEF vars, Inv, TypeOK, FundsOK
  <2>2. QED
    BY <1>1, <2>1 DEF vars, Inv
<1>2. CASE Next
  BY <1>2, ListActiveStep, SettleNowStep, CheckEarlyStep, MarkDueStep, DecideStep, SuspendStep,
     ChargeLookupStep, ChargeCreateStep, ChargeCaptureStep, AdvanceStep, CrashStep,
     SetAutoRenewStep, WalletStep, TickStep
  DEF Next, CallStep
<1>3. QED
  BY <1>1, <1>2

LEMMA InvInvariant == Spec => []Inv
BY InvInit, InvStep, PTL DEF Spec

-----------------------------------------------------------------------------
(* Records, holds and wallet keep their types, and the wallet covers what  *)
(* this server's holds and the customer's others reserve in it.            *)
THEOREM TypeCorrect == Spec => [](TypeOK /\ FundsOK)
<1>1. Inv => TypeOK /\ FundsOK
  BY DEF Inv
<1>2. QED
  BY InvInvariant, <1>1, PTL

(***************************************************************************)
(* RenewalService writes whole records that may be a step behind, from     *)
(* passes and clicks that race or die: the date is still never ahead of    *)
(* the money, and no period is skipped or invented.                        *)
(***************************************************************************)
THEOREM EveryDatePaid == Spec => []DateIsPaidFor
<1>1. Inv => DateIsPaidFor
  BY DEF Inv, RecOK, HoldsOK, DateIsPaidFor, Paid, Ends
<1>2. QED
  BY InvInvariant, <1>1, PTL

(***************************************************************************)
(* _charge debits a period once, from the charge window before its end to  *)
(* a month after it, whoever calls it and however often it is replayed.    *)
(***************************************************************************)
THEOREM ChargesInSeason == Spec => ChargedInSeason
<1> DEFINE A == \A d \in Dates : Paid(d)' /\ ~Paid(d) =>
          /\ d - Window <= now /\ now <= d + Month
          /\ balance' = balance - Price
<1>1. Inv /\ [Next]_vars => [A]_vars
  <2> SUFFICES ASSUME Inv, Next, NEW d \in Dates, hold'[d] = "captured", hold[d] # "captured"
               PROVE  /\ d - Window <= now /\ now <= d + Month
                      /\ balance' = balance - Price
    BY DEF Paid
  <2>1. hold \in [Dates -> {"none", "created", "captured"}]
    BY DEF Inv, TypeOK
  <2>2. PICK p \in Procs : ChargeCapture(p) \/ ChargeCreate(p)
    BY DEF Next, CallStep, ListActive, SettleNow, CheckEarly, MarkDue, Decide, Suspend,
           ChargeLookup, Advance, Crash, SetAutoRenew, TopUp, HoldElsewhere, SettleElsewhere, Tick
  <2>3. ~ChargeCreate(p)
    BY <2>1 DEF ChargeCreate
  <2>4. /\ Debit(Rec(p).renewal) /\ hold' = [hold EXCEPT ![Rec(p).renewal] = "captured"]
        /\ calls[p].at = "capture"
    BY <2>2, <2>3 DEF ChargeCapture, At
  <2>5. d = Rec(p).renewal
    BY <2>1, <2>4
  <2>6. QED
    BY <2>4, <2>5, InTheCharge DEF Charging, Debit
<1>2. QED
  BY InvInvariant, <1>1, PTL DEF Spec, ChargedInSeason

(***************************************************************************)
(* Only _settle makes a record active again, one month past a period whose *)
(* hold is captured, and never for a month that is already over.           *)
(***************************************************************************)
THEOREM ReactivationsArePaid == Spec => ReactivatedByPayment
<1> DEFINE A == row.status # "active" /\ row'.status = "active" =>
          /\ \E d \in Ends : Paid(d) /\ row'.renewal = d + Month
          /\ row'.renewal >= now
<1>1. Inv /\ [Next]_vars => [A]_vars
  <2> SUFFICES ASSUME Inv, Next, row.status # "active", row'.status = "active"
               PROVE  /\ \E d \in Ends : Paid(d) /\ row'.renewal = d + Month
                      /\ row'.renewal >= now
    OBVIOUS
  <2>1. row \in Record
    BY DEF Inv, TypeOK
  <2>2. ASSUME NEW choice \in BOOLEAN, SetAutoRenew(choice) PROVE row'.status = row.status
    BY <2>1, <2>2 DEF SetAutoRenew, Record
  <2>3. ASSUME NEW p \in Procs, Suspend(p) PROVE row'.status \in {row.status, "suspended"}
    <3>1. Rec(p) \in Record
      BY <2>3, InTheMiddle DEF Suspend, At
    <3>2. QED
      BY <2>3, <3>1 DEF Suspend, Record
  <2>4. ASSUME NEW p \in Procs, MarkDue(p) PROVE row'.status \in {row.status, "payment_due"}
    <3>1. Rec(p) \in Record /\ RecOK(Rec(p), hold) /\ Rec(p).renewal <= Horizon
      BY <2>4, InTheMiddle, TimeAssumption DEF MarkDue, At, Inv, TypeOK, Record, Dates
    <3>2. Due(Rec(p)) = Rec(p) \/ Due(Rec(p)).status = "payment_due"
      BY <3>1, DueOK
    <3>3. QED
      BY <2>4, <3>2 DEF MarkDue
  <2>5. PICK p \in Procs : Advance(p)
    BY <2>2, <2>3, <2>4
    DEF Next, CallStep, ListActive, SettleNow, CheckEarly, Decide, ChargeLookup, ChargeCreate,
        ChargeCapture, Crash, TopUp, HoldElsewhere, SettleElsewhere, Tick
  <2>6. /\ Rec(p) \in Record /\ RecOK(Rec(p), hold) /\ now <= Rec(p).renewal + Month
        /\ hold[Rec(p).renewal] = "captured"
    BY <2>5, InTheCharge DEF Advance, At, Charging
  <2>7. row'.renewal = Rec(p).renewal + Month
    BY <2>5, <2>6 DEF Advance, Renewed, Record
  <2>8. Rec(p).renewal \in Ends /\ Paid(Rec(p).renewal)
    BY <2>6 DEF RecOK, Paid
  <2>9. QED
    BY <2>6, <2>7, <2>8, TimeAssumption DEF Inv, TypeOK, Record, Dates
<1>2. QED
  BY InvInvariant, <1>1, PTL DEF Spec, ReactivatedByPayment
=============================================================================

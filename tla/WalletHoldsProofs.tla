------------------------- MODULE WalletHoldsProofs -------------------------
(***************************************************************************)
(* Theorems about WalletHolds, for any number of holds, movements and      *)
(* processes, any amounts and any width of the balance column.             *)
(***************************************************************************)
EXTENDS WalletHolds, WellFoundedInduction, TLAPS

-----------------------------------------------------------------------------
(***************************************************************************)
(* What Total computes, for every length and every family of integers.     *)
(* The library's induction theorems take an operator as a parameter, which *)
(* no installed prover instantiates, so induction is done here by the      *)
(* least element of a set of counterexamples, once, and cited in the form  *)
(* of a set that holds 0 and every successor (IntervalInduction).          *)
(***************************************************************************)

(***************************************************************************)
(* A nonempty set of naturals has a least element: the induction principle *)
(* behind every fact about the sums of modules/wallet/repository.py.       *)
(***************************************************************************)
LEMMA NatLeast ==
    ASSUME NEW T \in SUBSET Nat, T # {}
    PROVE  \E x \in T : \A y \in T : x <= y
<1>1. PICK x \in T : \A y \in T : <<y, x>> \notin OpToRel(<, Nat)
  BY NatLessThanWellFounded, WFMin
<1>2. \A y \in T : ~(y < x)
  BY <1>1 DEF OpToRel
<1>3. \A y \in T : x \in Nat /\ y \in Nat
  OBVIOUS
<1>4. \A y \in T : x <= y
  BY <1>2, <1>3
<1>5. QED
  BY <1>4

(***************************************************************************)
(* Induction along 0..n: a set that holds 0 and, with each index but the   *)
(* last, the next one, holds them all.                                     *)
(***************************************************************************)
LEMMA IntervalInduction ==
    ASSUME NEW n \in Nat, NEW G, 0 \in G,
           \A i \in 1..n : i - 1 \in G => i \in G
    PROVE  \A i \in 0..n : i \in G
<1> DEFINE Bad == (0..n) \ G
<1>1. SUFFICES ASSUME Bad # {} PROVE FALSE
  OBVIOUS
<1>2. Bad \in SUBSET Nat
  OBVIOUS
<1>3. PICK k \in Bad : \A j \in Bad : k <= j
  BY <1>1, <1>2, NatLeast
<1>4. k \in 1..n /\ k - 1 \in 0..n /\ ~(k <= k - 1) /\ k \notin G
  OBVIOUS
<1>5. k - 1 \notin Bad
  BY <1>3, <1>4
<1>6. QED
  BY <1>4, <1>5

(***************************************************************************)
(* The recursive definition of Total describes a function: the running     *)
(* sums exist, start at zero, grow by one weight at a time and end in the  *)
(* total.                                                                  *)
(***************************************************************************)
LEMMA TotalSteps ==
    ASSUME NEW n \in Nat, NEW w \in [1..n -> Int]
    PROVE  \E f \in [0..n -> Int] :
              /\ f[0] = 0
              /\ \A i \in 1..n : f[i] = f[i - 1] + w[i]
              /\ Total(w, n) = f[n]
<1> DEFINE Sums(k, g) == /\ g \in [0..k -> Int]
                         /\ g[0] = 0
                         /\ \A i \in 1..k : g[i] = g[i - 1] + w[i]
           Summed == {k \in 0..n : \E g : Sums(k, g)}
           Body(f) == [i \in 0..n |-> IF i = 0 THEN 0 ELSE f[i - 1] + w[i]]
           F == CHOOSE f : f = Body(f)
<1>1. 0 \in Summed
  <2>1. Sums(0, [i \in 0..0 |-> 0])
    OBVIOUS
  <2>2. \E g : Sums(0, g)
    BY <2>1
  <2>3. QED
    <3> HIDE DEF Sums
    <3>1. QED
      BY <2>2
<1>2. ASSUME NEW k \in 1..n, k - 1 \in Summed PROVE k \in Summed
  <2>1. PICK g : Sums(k - 1, g)
    BY <1>2
  <2> DEFINE h == [i \in 0..k |-> IF i = k THEN g[k - 1] + w[k] ELSE g[i]]
  <2>2. h \in [0..k -> Int]
    BY <2>1
  <2>3. h[0] = 0
    BY <2>1
  <2>4. ASSUME NEW i \in 1..k PROVE h[i] = h[i - 1] + w[i]
    <3>1. CASE i = k
      BY <3>1
    <3>2. CASE i # k
      <4>1. i \in 1..(k - 1) /\ i - 1 \in 0..k /\ i - 1 # k
        BY <3>2
      <4>2. QED
        BY <4>1, <3>2, <2>1
    <3>3. QED
      BY <3>1, <3>2
  <2>5. Sums(k, h)
    BY <2>2, <2>3, <2>4
  <2>6. \E f : Sums(k, f)
    <3> HIDE DEF Sums, h
    <3>1. QED
      BY <2>5
  <2>7. QED
    <3> HIDE DEF Sums
    <3>1. QED
      BY <2>6
<1>3. n \in Summed
  <2> HIDE DEF Summed
  <2>1. \A i \in 0..n : i \in Summed
    BY <1>1, <1>2, IntervalInduction
  <2>2. QED
    BY <2>1
<1>4. PICK g : Sums(n, g)
  BY <1>3
<1>5. g = Body(g)
  BY <1>4
<1>6. F = Body(F)
  BY <1>5
<1>7. Total(w, n) = F[n]
  BY DEF Total
<1>8. F[0] = 0 /\ \A i \in 1..n : F[i] = F[i - 1] + w[i]
  <2> HIDE DEF F
  <2>1. F[0] = 0
    BY <1>6, 0 \in 0..n
  <2>2. ASSUME NEW i \in 1..n PROVE F[i] = F[i - 1] + w[i]
    BY <1>6, i \in 0..n, i # 0
  <2>3. QED
    BY <2>1, <2>2
<1>9. F \in [0..n -> Int]
  <2> DEFINE Ints == {k \in 0..n : F[k] \in Int}
  <2>1. 0 \in Ints
    BY <1>8
  <2>2. ASSUME NEW k \in 1..n, k - 1 \in Ints PROVE k \in Ints
    BY <1>8, <2>2
  <2>3. \A k \in 0..n : k \in Ints
    <3> HIDE DEF Ints
    <3>1. QED
      BY <2>1, <2>2, IntervalInduction
  <2>4. QED
    BY <2>3, <1>6
<1>10. QED
  BY <1>7, <1>8, <1>9

(* A total of integers is an integer. *)
LEMMA TotalType ==
    ASSUME NEW n \in Nat, NEW w \in [1..n -> Int]
    PROVE  Total(w, n) \in Int
BY TotalSteps

(***************************************************************************)
(* When one weight changes, the total changes by the difference: what a    *)
(* write to one row does to SUM(amount).                                   *)
(***************************************************************************)
LEMMA TotalChange ==
    ASSUME NEW n \in Nat, NEW w \in [1..n -> Int], NEW v \in [1..n -> Int],
           NEW k \in 1..n, \A i \in 1..n : i # k => v[i] = w[i]
    PROVE  Total(v, n) = Total(w, n) + v[k] - w[k]
<1>1. PICK f \in [0..n -> Int] : /\ f[0] = 0
                                 /\ \A i \in 1..n : f[i] = f[i - 1] + w[i]
                                 /\ Total(w, n) = f[n]
  BY TotalSteps
<1>2. PICK g \in [0..n -> Int] : /\ g[0] = 0
                                 /\ \A i \in 1..n : g[i] = g[i - 1] + v[i]
                                 /\ Total(v, n) = g[n]
  BY TotalSteps
<1> DEFINE Shifted == {i \in 0..n : g[i] = f[i] + (IF i < k THEN 0 ELSE v[k] - w[k])}
<1>3. 0 \in Shifted
  BY <1>1, <1>2
<1>4. ASSUME NEW i \in 1..n, i - 1 \in Shifted PROVE i \in Shifted
  <2>1. i \in 0..n /\ i - 1 \in 0..n
    OBVIOUS
  <2>2. /\ f[i] = f[i - 1] + w[i] /\ f[i - 1] \in Int
        /\ g[i] = g[i - 1] + v[i] /\ g[i - 1] \in Int
        /\ w[i] \in Int /\ v[i] \in Int /\ w[k] \in Int /\ v[k] \in Int
    BY <1>1, <1>2, <2>1
  <2>3. g[i - 1] = f[i - 1] + (IF i - 1 < k THEN 0 ELSE v[k] - w[k])
    BY <1>4
  <2>4. CASE i = k
    BY <2>1, <2>2, <2>3, <2>4
  <2>5. CASE i # k
    <3>1. v[i] = w[i] /\ (i - 1 < k <=> i < k)
      BY <2>5
    <3>2. QED
      BY <2>1, <2>2, <2>3, <3>1
  <2>6. QED
    BY <2>4, <2>5
<1>5. \A i \in 0..n : i \in Shifted
  <2> HIDE DEF Shifted
  <2>1. QED
    BY <1>3, <1>4, IntervalInduction
<1>6. n \in 0..n /\ ~(n < k) /\ f[n] \in Int /\ v[k] \in Int /\ w[k] \in Int
  OBVIOUS
<1>7. g[n] = f[n] + (v[k] - w[k])
  BY <1>5, <1>6
<1>8. QED
  BY <1>1, <1>2, <1>6, <1>7

(* Nonnegative weights have a nonnegative total. *)
LEMMA TotalNonnegative ==
    ASSUME NEW n \in Nat, NEW w \in [1..n -> Nat]
    PROVE  Total(w, n) \in Nat
<1>1. PICK f \in [0..n -> Int] : /\ f[0] = 0
                                 /\ \A i \in 1..n : f[i] = f[i - 1] + w[i]
                                 /\ Total(w, n) = f[n]
  <2>1. w \in [1..n -> Int]
    OBVIOUS
  <2>2. QED
    BY <2>1, TotalSteps
<1> DEFINE Good == {i \in 0..n : f[i] \in Nat}
<1>2. 0 \in Good
  BY <1>1
<1>3. ASSUME NEW i \in 1..n, i - 1 \in Good PROVE i \in Good
  BY <1>1, <1>3
<1>4. \A i \in 0..n : i \in Good
  <2> HIDE DEF Good
  <2>1. QED
    BY <1>2, <1>3, IntervalInduction
<1>5. n \in 0..n
  OBVIOUS
<1>6. f[n] \in Nat
  BY <1>4, <1>5
<1>7. QED
  BY <1>1, <1>6

-----------------------------------------------------------------------------
(* The same facts for the total weight of a set of rows. *)

LEMMA WeighType ==
    ASSUME NEW n \in Nat, NEW weight \in [1..n -> Int], NEW S
    PROVE  /\ Weigh(S, weight, n) \in [1..n -> Int]
           /\ Total(Weigh(S, weight, n), n) \in Int
<1>1. Weigh(S, weight, n) \in [1..n -> Int]
  BY DEF Weigh
<1>2. QED
  BY <1>1, TotalType

(* An empty set of rows adds up to zero. *)
LEMMA WeighNone ==
    ASSUME NEW n \in Nat, NEW weight \in [1..n -> Int]
    PROVE  Total(Weigh({}, weight, n), n) = 0
<1> DEFINE w == Weigh({}, weight, n)
<1>1. w \in [1..n -> Int] /\ \A i \in 1..n : w[i] = 0
  BY DEF Weigh
<1>2. PICK f \in [0..n -> Int] : /\ f[0] = 0
                                 /\ \A i \in 1..n : f[i] = f[i - 1] + w[i]
                                 /\ Total(w, n) = f[n]
  BY <1>1, TotalSteps
<1> DEFINE Zero == {i \in 0..n : f[i] = 0}
<1> HIDE DEF w
<1>3. 0 \in Zero
  BY <1>2
<1>4. ASSUME NEW i \in 1..n, i - 1 \in Zero PROVE i \in Zero
  BY <1>1, <1>2, <1>4
<1>5. \A i \in 0..n : i \in Zero
  <2> HIDE DEF Zero
  <2>1. QED
    BY <1>3, <1>4, IntervalInduction
<1>6. n \in 0..n
  OBVIOUS
<1>7. f[n] = 0
  BY <1>5, <1>6
<1>8. QED
  BY <1>2, <1>7 DEF w

(* A row that joins the set adds its weight. *)
LEMMA WeighAdd ==
    ASSUME NEW n \in Nat, NEW weight \in [1..n -> Int], NEW S,
           NEW k \in 1..n, k \notin S
    PROVE  Total(Weigh(S \union {k}, weight, n), n)
             = Total(Weigh(S, weight, n), n) + weight[k]
<1> DEFINE w == Weigh(S, weight, n)
           v == Weigh(S \union {k}, weight, n)
<1>1. w \in [1..n -> Int] /\ v \in [1..n -> Int]
  BY WeighType
<1>2. /\ \A i \in 1..n : i # k => v[i] = w[i]
      /\ w[k] = 0 /\ v[k] = weight[k]
  BY DEF Weigh
<1>3. Total(w, n) \in Int
  BY <1>1, TotalType
<1> HIDE DEF w, v
<1>4. Total(v, n) = Total(w, n) + v[k] - w[k]
  BY <1>1, <1>2, TotalChange
<1>5. QED
  BY <1>2, <1>3, <1>4 DEF w, v

(* A row that leaves the set takes its weight with it. *)
LEMMA WeighRemove ==
    ASSUME NEW n \in Nat, NEW weight \in [1..n -> Int], NEW S,
           NEW k \in 1..n, k \in S
    PROVE  Total(Weigh(S \ {k}, weight, n), n)
             = Total(Weigh(S, weight, n), n) - weight[k]
<1>1. Total(Weigh((S \ {k}) \union {k}, weight, n), n)
        = Total(Weigh(S \ {k}, weight, n), n) + weight[k]
  BY WeighAdd, k \notin S \ {k}
<1>2. (S \ {k}) \union {k} = S
  OBVIOUS
<1>3. Total(Weigh(S \ {k}, weight, n), n) \in Int /\ weight[k] \in Int
  BY WeighType
<1>4. Total(Weigh(S, weight, n), n) = Total(Weigh(S \ {k}, weight, n), n) + weight[k]
  BY <1>1, <1>2
<1>5. QED
  BY <1>3, <1>4

(* The weights of a set of rows with amounts in Nat are not negative. *)
LEMMA WeighNonnegative ==
    ASSUME NEW n \in Nat, NEW weight \in [1..n -> Nat], NEW S
    PROVE  Total(Weigh(S, weight, n), n) \in Nat
<1>1. Weigh(S, weight, n) \in [1..n -> Nat]
  BY DEF Weigh
<1>2. QED
  BY <1>1, TotalNonnegative

-----------------------------------------------------------------------------
(***************************************************************************)
(* A call that has only its ledger row left is about a hold that exists    *)
(* (create_hold) or is over (release_hold, capture_hold).  This is what    *)
(* EntriesFollowHolds needs to be inductive.                               *)
(***************************************************************************)
Backed(op, h) == IF op = "hold" THEN status[h] # "none" ELSE status[h] \in Terminal

CallsBacked ==
    \A p \in Procs, op \in EntryTypes : InCall(p, op, "post") => Backed(op, calls[p].hold)

Inv == TypeOK /\ CallsBacked /\ EntriesFollowHolds

(* The sum queries, as the lemmas on totals speak of them. *)
SumOf(s) == Total(Weigh(InStatus(s), Amount, NumHolds), NumHolds)
Moved == Total(Weigh(posted, Delta, NumMoves), NumMoves)

LEMMA SumTypes == \A s : SumOf(s) \in Nat
BY WeighNonnegative, HoldsAssumption DEF SumOf, Holds

LEMMA MovedType == Moved \in Int
BY WeighType, MovesAssumption DEF Moved, Moves

-----------------------------------------------------------------------------
(* What one status write does to the sets of holds, and so to the sums. *)

(* A hold row that appears joins the active holds. *)
LEMMA CreatedSets ==
    ASSUME NEW h \in Holds, TypeOK, status[h] = "none",
           status' = [status EXCEPT ![h] = "created"]
    PROVE  /\ InStatus("created")' = InStatus("created") \union {h}
           /\ h \notin InStatus("created")
           /\ InStatus("captured")' = InStatus("captured")
           /\ InStatus("released")' = InStatus("released")
BY DEF TypeOK, InStatus, Terminal

(* A released hold leaves the active ones and is never counted as paid. *)
LEMMA ReleasedSets ==
    ASSUME NEW h \in Holds, TypeOK, MarkReleased(h)
    PROVE  /\ InStatus("created")' = InStatus("created") \ {h}
           /\ h \in InStatus("created")
           /\ InStatus("captured")' = InStatus("captured")
           /\ InStatus("released")' = InStatus("released") \union {h}
BY DEF TypeOK, InStatus, Terminal, MarkReleased

(* A captured hold moves from the active ones to the paid ones. *)
LEMMA CapturedSets ==
    ASSUME NEW h \in Holds, TypeOK, MarkCaptured(h)
    PROVE  /\ InStatus("created")' = InStatus("created") \ {h}
           /\ h \in InStatus("created")
           /\ h \notin InStatus("captured")
           /\ InStatus("captured")' = InStatus("captured") \union {h}
           /\ InStatus("released")' = InStatus("released")
BY DEF TypeOK, InStatus, Terminal, MarkCaptured

-----------------------------------------------------------------------------
(***************************************************************************)
(* Every step of the program is one of five things to the money: a new     *)
(* movement, a new hold, a release, a capture, or nothing at all.  Every   *)
(* invariant and the refinement are proved from these five cases.          *)
(***************************************************************************)
Inserts(h)  == InsertHold(h) /\ UNCHANGED <<balance, posted>>
Releases(h) == MarkReleased(h) /\ UNCHANGED <<balance, posted>>
Captures(h) == MarkCaptured(h) /\ UNCHANGED posted
Nothing     == UNCHANGED <<balance, status, posted>>
Moving(m)   == /\ Movable(m)
               /\ balance' = balance + Delta[m]
               /\ posted' = posted \union {m}
               /\ UNCHANGED status

(* A call in progress is of a hold. *)
LEMMA CallHold ==
    ASSUME TypeOK, NEW p \in Procs, NEW op \in EntryTypes, NEW s, InCall(p, op, s)
    PROVE  calls[p].hold \in Holds /\ calls[p] \in Call /\ calls[p].op = op
<1>1. calls[p] \in Call \union {Idle}
  BY DEF TypeOK
<1>2. calls[p] # Idle
  BY DEF InCall, Idle, EntryTypes
<1>3. QED
  BY <1>1, <1>2 DEF Call, InCall

LEMMA StepKinds ==
    ASSUME TypeOK, [Next]_vars
    PROVE  \/ \E m \in Moves : Moving(m)
           \/ \E h \in Holds : Inserts(h) \/ Releases(h) \/ Captures(h)
           \/ Nothing
<1>1. CASE UNCHANGED vars
  BY <1>1 DEF vars, Nothing
<1>2. ASSUME NEW m \in Moves, CreditDeposit(m) \/ Adjust(m)
      PROVE  Moving(m)
  BY <1>2 DEF CreditDeposit, Adjust, Move, Moving
<1>3. ASSUME NEW h \in Holds, DirectCreate(h) PROVE Inserts(h)
  BY <1>3 DEF DirectCreate, Inserts
<1>4. ASSUME NEW h \in Holds, DirectRelease(h) PROVE Releases(h)
  BY <1>4 DEF DirectRelease, Releases
<1>5. ASSUME NEW p \in Procs, NEW h \in Holds,
             CreateLookup(p, h) \/ ReleaseResolve(p, h) \/ CaptureResolve(p, h)
      PROVE  Nothing
  BY <1>5 DEF CreateLookup, ReleaseResolve, CaptureResolve, Nothing
<1>6. ASSUME NEW p \in Procs, CreateApply(p)
      PROVE  Inserts(calls[p].hold) \/ Nothing
  BY <1>6 DEF CreateApply, Inserts, Nothing
<1>7. ASSUME NEW p \in Procs, ReleaseApply(p)
      PROVE  Releases(calls[p].hold) \/ Nothing
  BY <1>7 DEF ReleaseApply, Releases, Nothing
<1>8. ASSUME NEW p \in Procs, CaptureApply(p)
      PROVE  Captures(calls[p].hold) \/ Nothing
  BY <1>8 DEF CaptureApply, Captures, Nothing
<1>9. ASSUME NEW p \in Procs, PostEntry(p) \/ Crash(p)
      PROVE  Nothing
  BY <1>9 DEF PostEntry, Crash, Nothing
<1>10. ASSUME NEW p \in Procs, CreateApply(p) \/ ReleaseApply(p) \/ CaptureApply(p)
       PROVE  calls[p].hold \in Holds
  <2>1. \E op \in EntryTypes : InCall(p, op, "apply")
    BY <1>10 DEF CreateApply, ReleaseApply, CaptureApply, EntryTypes
  <2>2. QED
    BY <2>1, CallHold
<1>11. QED
  BY <1>1, <1>2, <1>3, <1>4, <1>5, <1>6, <1>7, <1>8, <1>9, <1>10 DEF Next

-----------------------------------------------------------------------------
(* A hold row never disappears and a terminal status never changes. *)
LEMMA StatusGrows ==
    ASSUME TypeOK, [Next]_vars, NEW h \in Holds
    PROVE  /\ status[h] # "none" => status'[h] # "none"
           /\ status[h] \in Terminal => status'[h] = status[h]
<1>1. CASE \E m \in Moves : Moving(m)
  BY <1>1 DEF Moving
<1>2. ASSUME NEW g \in Holds, Inserts(g) \/ Releases(g) \/ Captures(g)
      PROVE  /\ status[h] # "none" => status'[h] # "none"
             /\ status[h] \in Terminal => status'[h] = status[h]
  BY <1>2 DEF Inserts, InsertHold, Releases, MarkReleased, Captures, MarkCaptured,
              TypeOK, Terminal
<1>3. CASE Nothing
  BY <1>3 DEF Nothing
<1>4. QED
  BY <1>1, <1>2, <1>3, StepKinds

LEMMA InitInv == Init => Inv
<1> SUFFICES ASSUME Init PROVE Inv
  OBVIOUS
<1>1. TypeOK
  BY BalanceAssumption DEF Init, TypeOK, Terminal
<1>2. CallsBacked
  BY DEF Init, CallsBacked, InCall, Idle, EntryTypes
<1>3. EntriesFollowHolds
  BY DEF Init, EntriesFollowHolds
<1>4. QED
  BY <1>1, <1>2, <1>3 DEF Inv

(* Stored values keep their types: no balance below zero or past int64. *)
LEMMA TypeStep == TypeOK /\ [Next]_vars => TypeOK'
<1> SUFFICES ASSUME TypeOK, [Next]_vars PROVE TypeOK'
  OBVIOUS
<1> DEFINE Rows == /\ balance' \in 0..MaxBalance
                   /\ status' \in [Holds -> {"none", "created"} \union Terminal]
                   /\ posted' \subseteq Moves
           Ledger == entries' \subseteq EntryTypes \X Holds
           Memory == calls' \in [Procs -> Call \union {Idle}]
<1>1. Rows
  <2>1. ASSUME NEW m \in Moves, Moving(m)
        PROVE  Rows
    BY <2>1 DEF Moving, Movable, TypeOK
  <2>2. ASSUME NEW h \in Holds, Inserts(h) \/ Releases(h)
        PROVE  Rows
    BY <2>2 DEF Inserts, InsertHold, Releases, MarkReleased, TypeOK, Terminal
  <2>3. ASSUME NEW h \in Holds, Captures(h)
        PROVE  Rows
    <3>1. Amount[h] \in Nat /\ balance >= Amount[h] /\ balance' = balance - Amount[h]
      BY <2>3, HoldsAssumption DEF Captures, MarkCaptured
    <3>2. balance' \in 0..MaxBalance
      BY <3>1, BalanceAssumption DEF TypeOK
    <3>3. QED
      BY <2>3, <3>2 DEF Captures, MarkCaptured, TypeOK, Terminal
  <2>4. CASE Nothing
    BY <2>4 DEF Nothing, TypeOK
  <2>5. QED
    BY <2>1, <2>2, <2>3, <2>4, StepKinds
<1>2. Ledger
  <2>1. CASE UNCHANGED entries
    BY <2>1 DEF TypeOK
  <2>2. ASSUME NEW p \in Procs, PostEntry(p)
        PROVE  Ledger
    <3>1. calls[p].hold \in Holds /\ calls[p].op \in EntryTypes
      BY <2>2, CallHold DEF PostEntry
    <3>2. QED
      BY <2>2, <3>1 DEF PostEntry, TypeOK
  <2>3. QED
    BY <2>1, <2>2 DEF Next, vars, CreditDeposit, Adjust, Move, DirectCreate, DirectRelease,
          CreateLookup, ReleaseResolve, CaptureResolve, CreateApply, ReleaseApply,
          CaptureApply, Crash
<1>3. Memory
  <2>1. CASE UNCHANGED calls
    BY <2>1 DEF TypeOK
  <2>2. ASSUME NEW p \in Procs, Finish(p)
        PROVE  Memory
    BY <2>2 DEF Finish, TypeOK
  <2>3. ASSUME NEW p \in Procs, NEW op \in EntryTypes, NEW step \in {"apply", "post"},
               NEW h \in Holds, Goto(p, op, step, h)
        PROVE  Memory
    BY <2>3 DEF Goto, TypeOK, Call
  <2>4. ASSUME NEW p \in Procs, NEW h \in Holds,
               CreateLookup(p, h) \/ ReleaseResolve(p, h) \/ CaptureResolve(p, h)
        PROVE  Memory
    BY <2>3, <2>4 DEF CreateLookup, ReleaseResolve, CaptureResolve, EntryTypes
  <2>5. ASSUME NEW p \in Procs, CreateApply(p) \/ ReleaseApply(p) \/ CaptureApply(p)
        PROVE  Memory
    <3>1. calls[p].hold \in Holds
      BY <2>5, CallHold DEF CreateApply, ReleaseApply, CaptureApply, EntryTypes
    <3>2. Finish(p) \/ \E op \in EntryTypes : Goto(p, op, "post", calls[p].hold)
      BY <2>5 DEF CreateApply, ReleaseApply, CaptureApply, EntryTypes
    <3>3. QED
      BY <2>2, <2>3, <3>1, <3>2
  <2>6. QED
    BY <2>1, <2>2, <2>4, <2>5 DEF Next, vars, CreditDeposit, Adjust, Move, DirectCreate,
          DirectRelease, PostEntry, Crash
<1>4. QED
  BY <1>1, <1>2, <1>3 DEF TypeOK

(***************************************************************************)
(* A call reaches its ledger row only after the repository has made the    *)
(* hold exist, or has seen it over; no later step undoes that.             *)
(***************************************************************************)
LEMMA BackedStep == TypeOK /\ CallsBacked /\ [Next]_vars => CallsBacked'
<1> SUFFICES ASSUME TypeOK, CallsBacked, [Next]_vars,
                    NEW q \in Procs, NEW o \in EntryTypes, InCall(q, o, "post")'
             PROVE  Backed(o, calls[q].hold)'
  BY DEF CallsBacked
<1>1. CASE calls'[q] = calls[q]
  <2>1. InCall(q, o, "post") /\ calls'[q].hold = calls[q].hold
    BY <1>1 DEF InCall
  <2>2. Backed(o, calls[q].hold) /\ calls[q].hold \in Holds
    BY <2>1, CallHold DEF CallsBacked
  <2>3. QED
    BY <2>1, <2>2, StatusGrows DEF Backed
<1>2. ASSUME NEW p \in Procs, Finish(p) PROVE calls'[q] = calls[q]
  BY <1>2 DEF Finish, TypeOK, InCall, Idle, EntryTypes
<1>3. ASSUME NEW p \in Procs, NEW op, NEW step, NEW h, Goto(p, op, step, h)
      PROVE  calls'[q] = calls[q] \/ (p = q /\ calls'[q].hold = h /\ op = o /\ step = "post")
  BY <1>3 DEF Goto, TypeOK, InCall
<1>4. ASSUME NEW p \in Procs, NEW h \in Holds,
             CreateLookup(p, h) \/ ReleaseResolve(p, h) \/ CaptureResolve(p, h)
      PROVE  calls'[q] = calls[q] \/ Backed(o, calls[q].hold)'
  <2>1. CASE CreateLookup(p, h)
    BY <2>1, <1>3 DEF CreateLookup, Backed
  <2>2. CASE ReleaseResolve(p, h)
    BY <2>2, <1>3 DEF ReleaseResolve, Accepted, Backed, Terminal
  <2>3. CASE CaptureResolve(p, h)
    BY <2>3, <1>3 DEF CaptureResolve, Accepted, Backed, Terminal
  <2>4. QED
    BY <1>4, <2>1, <2>2, <2>3
<1>5. ASSUME NEW p \in Procs, CreateApply(p) \/ ReleaseApply(p) \/ CaptureApply(p)
      PROVE  calls'[q] = calls[q] \/ Backed(o, calls[q].hold)'
  <2>1. calls[p].hold \in Holds
    BY <1>5, CallHold DEF CreateApply, ReleaseApply, CaptureApply, EntryTypes
  <2>2. CASE CreateApply(p)
    BY <2>1, <2>2, <1>2, <1>3 DEF CreateApply, InsertHold, Backed, TypeOK
  <2>3. CASE ReleaseApply(p)
    BY <2>1, <2>3, <1>3 DEF ReleaseApply, MarkReleased, Backed, TypeOK, Terminal
  <2>4. CASE CaptureApply(p)
    BY <2>1, <2>4, <1>2, <1>3 DEF CaptureApply, MarkCaptured, Backed, TypeOK, Terminal
  <2>5. QED
    BY <1>5, <2>2, <2>3, <2>4
<1>6. ASSUME NEW p \in Procs, PostEntry(p) \/ Crash(p)
      PROVE  calls'[q] = calls[q]
  BY <1>6, <1>2 DEF PostEntry, Crash
<1>7. CASE UNCHANGED calls
  BY <1>7, <1>1
<1>8. QED
  BY <1>1, <1>4, <1>5, <1>6, <1>7 DEF Next, vars, CreditDeposit, Adjust, Move,
        DirectCreate, DirectRelease

(* A ledger row is written only by PostEntry, whose call is backed. *)
LEMMA EntriesStep ==
    TypeOK /\ CallsBacked /\ EntriesFollowHolds /\ [Next]_vars => EntriesFollowHolds'
<1> SUFFICES ASSUME TypeOK, CallsBacked, EntriesFollowHolds, [Next]_vars
             PROVE  EntriesFollowHolds'
  OBVIOUS
<1>1. ASSUME NEW o \in EntryTypes, NEW h \in Holds, <<o, h>> \in entries'
      PROVE  Backed(o, h)
  <2>1. CASE <<o, h>> \in entries
    BY <2>1 DEF EntriesFollowHolds, Backed, EntryTypes
  <2>2. CASE <<o, h>> \notin entries
    <3>1. PICK p \in Procs : PostEntry(p)
      BY <2>2, <1>1 DEF Next, vars, CreditDeposit, Adjust, Move, DirectCreate, DirectRelease,
            CreateLookup, ReleaseResolve, CaptureResolve, CreateApply, ReleaseApply,
            CaptureApply, Crash
    <3>2. calls[p].op = o /\ calls[p].hold = h
      BY <3>1, <2>2, <1>1 DEF PostEntry
    <3>3. InCall(p, o, "post")
      BY <3>1, <3>2 DEF PostEntry, InCall
    <3>4. QED
      BY <3>2, <3>3 DEF CallsBacked
  <2>3. QED
    BY <2>1, <2>2
<1>2. QED
  BY <1>1, StatusGrows DEF EntriesFollowHolds, Backed, EntryTypes

(***************************************************************************)
(* Type correctness and the order of row and ledger hold in every state    *)
(* WalletHolds can reach.                                                  *)
(***************************************************************************)
THEOREM InvInvariant == Spec => []Inv
<1>1. Inv /\ [Next]_vars => Inv'
  BY TypeStep, BackedStep, EntriesStep DEF Inv
<1>2. QED
  BY InitInv, <1>1, PTL DEF Spec

(***************************************************************************)
(* TypeOK: in particular no interleaving of adjustments, captures and      *)
(* crashes takes the balance below zero or past the column's width.        *)
(***************************************************************************)
THEOREM TypeCorrect == Spec => []TypeOK
<1>1. Inv => TypeOK
  BY DEF Inv
<1>2. QED
  BY <1>1, InvInvariant, PTL

(***************************************************************************)
(* EntriesFollowHolds: no RELEASE or CHARGE row precedes the end of its    *)
(* hold and no HOLD row precedes the hold (HoldService, all interleavings).*)
(***************************************************************************)
THEOREM LedgerFollows == Spec => []EntriesFollowHolds
<1>1. Inv => EntriesFollowHolds
  BY DEF Inv
<1>2. QED
  BY <1>1, InvInvariant, PTL

(***************************************************************************)
(* HoldsFinal: whoever races, a captured or released hold stays so.        *)
(***************************************************************************)
THEOREM HoldsStayFinal == Spec => HoldsFinal
<1>1. Inv /\ [Next]_vars
        => [\A h \in Holds : status[h] \in Terminal => status'[h] = status[h]]_vars
  BY StatusGrows DEF Inv
<1>2. QED
  BY <1>1, InvInvariant, PTL DEF Spec, HoldsFinal

-----------------------------------------------------------------------------
(* What each kind of step does to the sums. *)

LEMMA MovingSums ==
    ASSUME TypeOK, NEW m \in Moves, Moving(m)
    PROVE  /\ Moved' = Moved + Delta[m]
           /\ \A s : SumOf(s)' = SumOf(s)
<1>1. m \notin posted /\ posted' = posted \union {m} /\ status' = status
  BY DEF Moving, Movable
<1>2. Moved' = Moved + Delta[m]
  BY <1>1, WeighAdd, MovesAssumption DEF Moved, Moves
<1>3. ASSUME NEW s PROVE SumOf(s)' = SumOf(s)
  BY <1>1 DEF SumOf, InStatus
<1>4. QED
  BY <1>2, <1>3

LEMMA InsertSums ==
    ASSUME TypeOK, NEW h \in Holds, Inserts(h)
    PROVE  /\ Moved' = Moved
           /\ SumOf("created")' = SumOf("created") + Amount[h]
           /\ SumOf("captured")' = SumOf("captured")
<1>1. /\ InStatus("created")' = InStatus("created") \union {h}
      /\ h \notin InStatus("created")
      /\ InStatus("captured")' = InStatus("captured")
  BY CreatedSets DEF Inserts, InsertHold
<1>2. SumOf("created")' = SumOf("created") + Amount[h]
  BY <1>1, WeighAdd, HoldsAssumption DEF SumOf, Holds
<1>3. QED
  BY <1>1, <1>2 DEF SumOf, Inserts, Moved

LEMMA ReleaseSums ==
    ASSUME TypeOK, NEW h \in Holds, Releases(h)
    PROVE  /\ Moved' = Moved
           /\ SumOf("created")' = SumOf("created") - Amount[h]
           /\ SumOf("captured")' = SumOf("captured")
<1>1. /\ InStatus("created")' = InStatus("created") \ {h}
      /\ h \in InStatus("created")
      /\ InStatus("captured")' = InStatus("captured")
  BY ReleasedSets DEF Releases
<1>2. SumOf("created")' = SumOf("created") - Amount[h]
  BY <1>1, WeighRemove, HoldsAssumption DEF SumOf, Holds
<1>3. QED
  BY <1>1, <1>2 DEF SumOf, Releases, Moved

LEMMA CaptureSums ==
    ASSUME TypeOK, NEW h \in Holds, Captures(h)
    PROVE  /\ Moved' = Moved
           /\ SumOf("created")' = SumOf("created") - Amount[h]
           /\ SumOf("captured")' = SumOf("captured") + Amount[h]
<1>1. /\ InStatus("created")' = InStatus("created") \ {h}
      /\ h \in InStatus("created")
      /\ h \notin InStatus("captured")
      /\ InStatus("captured")' = InStatus("captured") \union {h}
  BY CapturedSets DEF Captures
<1>2. SumOf("created")' = SumOf("created") - Amount[h]
  BY <1>1, WeighRemove, HoldsAssumption DEF SumOf, Holds
<1>3. SumOf("captured")' = SumOf("captured") + Amount[h]
  BY <1>1, WeighAdd, HoldsAssumption DEF SumOf, Holds
<1>4. QED
  BY <1>2, <1>3 DEF Captures, Moved

-----------------------------------------------------------------------------
LEMMA MoneyIs == MoneyAccounted <=> balance = Moved - SumOf("captured")
BY DEF MoneyAccounted, Moved, SumOf

(* With no hold and no movement every sum is zero. *)
LEMMA SumsOfNothing ==
    /\ Total(Weigh({}, Amount, NumHolds), NumHolds) = 0
    /\ Total(Weigh({}, Delta, NumMoves), NumMoves) = 0
<1>1. Amount \in [1..NumHolds -> Int] /\ NumHolds \in Nat
  BY HoldsAssumption DEF Holds
<1>2. Delta \in [1..NumMoves -> Int] /\ NumMoves \in Nat
  BY MovesAssumption DEF Moves
<1>3. QED
  BY <1>1, <1>2, WeighNone

LEMMA MoneyInit == Init => MoneyAccounted
<1> SUFFICES ASSUME Init PROVE MoneyAccounted
  OBVIOUS
<1>1. InStatus("captured") = {} /\ posted = {}
  BY DEF Init, InStatus
<1>2. Moved = 0 /\ SumOf("captured") = 0
  BY <1>1, SumsOfNothing DEF Moved, SumOf
<1>3. QED
  BY <1>2, MoneyIs DEF Init

LEMMA MoneyStep == TypeOK /\ MoneyAccounted /\ [Next]_vars => MoneyAccounted'
<1> SUFFICES ASSUME TypeOK, balance = Moved - SumOf("captured"), [Next]_vars
             PROVE  balance' = Moved' - SumOf("captured")'
  BY DEF MoneyAccounted, Moved, SumOf
<1>1. Moved \in Int /\ SumOf("captured") \in Int
  BY SumTypes, MovedType
<1>2. ASSUME NEW m \in Moves, Moving(m)
      PROVE  balance' = Moved' - SumOf("captured")'
  <2>1. Delta[m] \in Int /\ balance' = balance + Delta[m]
    BY <1>2, MovesAssumption DEF Moving
  <2>2. QED
    BY <2>1, <1>1, <1>2, MovingSums
<1>3. ASSUME NEW h \in Holds, Inserts(h)
      PROVE  balance' = Moved' - SumOf("captured")'
  BY <1>1, <1>3, InsertSums DEF Inserts
<1>4. ASSUME NEW h \in Holds, Releases(h)
      PROVE  balance' = Moved' - SumOf("captured")'
  BY <1>1, <1>4, ReleaseSums DEF Releases
<1>5. ASSUME NEW h \in Holds, Captures(h)
      PROVE  balance' = Moved' - SumOf("captured")'
  <2>1. Amount[h] \in Int /\ balance' = balance - Amount[h]
    BY <1>5, HoldsAssumption DEF Captures, MarkCaptured
  <2>2. QED
    BY <2>1, <1>1, <1>5, CaptureSums
<1>6. CASE Nothing
  BY <1>6 DEF Nothing, Moved, SumOf, InStatus
<1>7. QED
  BY <1>2, <1>3, <1>4, <1>5, <1>6, StepKinds

(***************************************************************************)
(* MoneyAccounted: the stored balance is the sum of the movements with a   *)
(* ledger row less the captured holds, for any number of processes.        *)
(***************************************************************************)
THEOREM MoneyConserved == Spec => []MoneyAccounted
<1>1. Inv /\ MoneyAccounted /\ [Next]_vars => MoneyAccounted'
  BY MoneyStep DEF Inv
<1>2. QED
  BY MoneyInit, <1>1, InvInvariant, PTL DEF Spec

-----------------------------------------------------------------------------
LEMMA CoveredStep ==
    ASSUME TypeOK, CreditsCovered, [Next]_vars
    PROVE  CreditsCovered'
<1> SUFFICES ASSUME \A m \in posted' : Delta[m] > 0
             PROVE  balance' - SumOf("created")' >= 0
  BY DEF CreditsCovered, ReservationsCovered, Held, SumOf
<1>0. posted \subseteq posted'
  <2>1. ASSUME NEW m \in Moves, Moving(m) PROVE posted \subseteq posted'
    BY <2>1 DEF Moving
  <2>2. ASSUME NEW h \in Holds, Inserts(h) \/ Releases(h) \/ Captures(h)
        PROVE  posted \subseteq posted'
    BY <2>2 DEF Inserts, Releases, Captures
  <2>3. CASE Nothing
    BY <2>3 DEF Nothing
  <2>4. QED
    BY <2>1, <2>2, <2>3, StepKinds
<1>1. SumOf("created") \in Int /\ balance \in Int /\ balance - SumOf("created") >= 0
  BY <1>0, SumTypes DEF TypeOK, CreditsCovered, ReservationsCovered, Held, SumOf
<1>2. ASSUME NEW m \in Moves, Moving(m)
      PROVE  balance' - SumOf("created")' >= 0
  <2>1. Delta[m] \in Int /\ Delta[m] > 0 /\ balance' = balance + Delta[m]
    BY <1>2, MovesAssumption DEF Moving
  <2>2. SumOf("created")' = SumOf("created")
    BY <1>2, MovingSums
  <2>3. QED
    BY <1>1, <2>1, <2>2
<1>3. ASSUME NEW h \in Holds, Inserts(h)
      PROVE  balance' - SumOf("created")' >= 0
  <2>1. balance' = balance /\ balance - SumOf("created") >= Amount[h] /\ Amount[h] \in Int
    BY <1>3, HoldsAssumption DEF Inserts, InsertHold, Reservable, Held, SumOf
  <2>2. SumOf("created")' = SumOf("created") + Amount[h]
    BY <1>3, InsertSums
  <2>3. QED
    BY <1>1, <2>1, <2>2
<1>4. ASSUME NEW h \in Holds, Releases(h)
      PROVE  balance' - SumOf("created")' >= 0
  <2>1. balance' = balance /\ Amount[h] \in Nat
    BY <1>4, HoldsAssumption DEF Releases
  <2>2. SumOf("created")' = SumOf("created") - Amount[h]
    BY <1>4, ReleaseSums
  <2>3. QED
    BY <1>1, <2>1, <2>2
<1>5. ASSUME NEW h \in Holds, Captures(h)
      PROVE  balance' - SumOf("created")' >= 0
  <2>1. balance' = balance - Amount[h] /\ Amount[h] \in Nat
    BY <1>5, HoldsAssumption DEF Captures, MarkCaptured
  <2>2. SumOf("created")' = SumOf("created") - Amount[h]
    BY <1>5, CaptureSums
  <2>3. QED
    BY <1>1, <2>1, <2>2
<1>6. CASE Nothing
  BY <1>1, <1>6 DEF Nothing, SumOf, InStatus
<1>7. QED
  BY <1>2, <1>3, <1>4, <1>5, <1>6, StepKinds

(***************************************************************************)
(* CreditsCovered: any number of purchases may race for the same cash, and *)
(* until a debit is posted the holds granted never exceed it.              *)
(***************************************************************************)
THEOREM CreditsKeepCovered == Spec => []CreditsCovered
<1>1. Init => CreditsCovered
  <2> SUFFICES ASSUME Init PROVE ReservationsCovered
    BY DEF CreditsCovered
  <2>1. InStatus("created") = {}
    BY DEF Init, InStatus
  <2>2. Held = 0
    BY <2>1, SumsOfNothing DEF Held
  <2>3. QED
    BY <2>2 DEF Init, ReservationsCovered
<1>2. Inv /\ CreditsCovered /\ [Next]_vars => CreditsCovered'
  BY CoveredStep DEF Inv
<1>3. QED
  BY <1>1, <1>2, InvInvariant, PTL DEF Spec

-----------------------------------------------------------------------------
(***************************************************************************)
(* Each step of WalletHolds is a step of Escrow or a stutter, because the  *)
(* stored balance equals the cash Escrow derives (MoneyAccounted).         *)
(***************************************************************************)
LEMMA RefinementStep ==
    ASSUME TypeOK, MoneyAccounted, [Next]_vars
    PROVE  [Abstract!EscrowNext]_(Abstract!escrowVars)
<1>1. balance = Abstract!Cash /\ balance - Held = Abstract!Free
  BY DEF MoneyAccounted, Held, Abstract!Cash, Abstract!Free,
         Total, Weigh, Abstract!Total, Abstract!Weigh
<1>2. ASSUME NEW m \in Moves, Moving(m)
      PROVE  Abstract!Apply(m)
  BY <1>1, <1>2 DEF Moving, Movable, Abstract!Apply, InStatus
<1>3. ASSUME NEW h \in Holds, Inserts(h)
      PROVE  Abstract!Reserve(h)
  <2>1. /\ InStatus("created")' = InStatus("created") \union {h}
        /\ InStatus("captured")' = InStatus("captured")
        /\ InStatus("released")' = InStatus("released")
    BY <1>3, CreatedSets DEF Inserts, InsertHold
  <2>2. h \notin InStatus("created") \union InStatus("captured") \union InStatus("released")
    BY <1>3 DEF Inserts, InsertHold, InStatus
  <2>3. balance - Held >= Amount[h] /\ balance - Held \in Int /\ Amount[h] \in Int
    <3>1. balance - Held >= Amount[h]
      BY <1>3 DEF Inserts, InsertHold, Reservable
    <3>2. Held \in Nat
      BY SumTypes DEF Held, SumOf
    <3>3. balance \in Int /\ Amount[h] \in Int
      BY HoldsAssumption DEF TypeOK
    <3>4. QED
      BY <3>1, <3>2, <3>3
  <2>4. Amount[h] <= Abstract!Free
    BY <1>1, <2>3
  <2>5. QED
    BY <1>3, <2>1, <2>2, <2>4 DEF Abstract!Reserve, Inserts
<1>4. ASSUME NEW h \in Holds, Releases(h)
      PROVE  Abstract!Return(h)
  <2>1. /\ InStatus("created")' = InStatus("created") \ {h}
        /\ h \in InStatus("created")
        /\ InStatus("captured")' = InStatus("captured")
        /\ InStatus("released")' = InStatus("released") \union {h}
    BY <1>4, ReleasedSets DEF Releases
  <2>2. QED
    BY <1>4, <2>1 DEF Abstract!Return, Releases
<1>5. ASSUME NEW h \in Holds, Captures(h)
      PROVE  Abstract!Settle(h)
  <2>1. /\ InStatus("created")' = InStatus("created") \ {h}
        /\ h \in InStatus("created")
        /\ InStatus("captured")' = InStatus("captured") \union {h}
        /\ InStatus("released")' = InStatus("released")
    BY <1>5, CapturedSets DEF Captures
  <2>2. Amount[h] <= balance
    BY <1>5, HoldsAssumption DEF Captures, MarkCaptured, TypeOK
  <2>3. QED
    BY <1>1, <1>5, <2>1, <2>2 DEF Abstract!Settle, Captures
<1>6. CASE Nothing
  BY <1>6 DEF Nothing, InStatus, Abstract!escrowVars
<1>7. QED
  BY <1>2, <1>3, <1>4, <1>5, <1>6, StepKinds DEF Abstract!EscrowNext, Holds, Moves

(***************************************************************************)
(* RefinesEscrow: the wallet of modules/wallet/repository.py, with its     *)
(* races and crashes, implements the atomic escrow account.                *)
(***************************************************************************)
THEOREM ImplementsEscrow == Spec => RefinesEscrow
<1>1. Init => Abstract!EscrowInit
  BY DEF Init, InStatus, Abstract!EscrowInit
<1>2. Inv /\ MoneyAccounted /\ [Next]_vars => [Abstract!EscrowNext]_(Abstract!escrowVars)
  BY RefinementStep DEF Inv
<1>3. QED
  BY <1>1, <1>2, InvInvariant, MoneyConserved, PTL
  DEF Spec, RefinesEscrow, Abstract!EscrowSpec
=============================================================================

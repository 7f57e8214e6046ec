---------------------------- MODULE OutboxProofs ----------------------------
(***************************************************************************)
(* Theorems about Outbox, for any number of events, overlapping passes,    *)
(* deaths and failed sends, any batch size and any number of attempts.     *)
(*                                                                         *)
(* A claim counts the attempt before the message is sent and outlives the  *)
(* pass that made it.  So a row in a living pass' hands is not claimable,  *)
(* and each claim beyond the first has a death or a failed send behind it. *)
(* The waiting times are left out: their bound is a power of two, which    *)
(* the provers cannot compute with, and no property depends on it.         *)
(***************************************************************************)
EXTENDS Outbox, FunctionTheorems, FiniteSetTheorems, WellFoundedInduction, TLAPS

Statuses == {"none", "pending", "sending", "retry", "sent", "abandoned"}

Types ==
    /\ status \in [Events -> Statuses]
    /\ attempts \in [Events -> Nat]
    /\ age \in [Events -> 0..Stale]
    /\ pass \in [Passes -> Running \union {Idle}]
    /\ \A d \in Passes : pass[d] # Idle => pass[d].rest # <<>>
    /\ delivered \in [Events -> Nat]
    /\ kills \in 0..MaxKills
    /\ faults \in Nat

(* The places of the batch a pass still has in hand. *)
Hand(r) == IF r = Idle THEN {} ELSE 1..Len(r.rest)

(***************************************************************************)
(* What a pass holds is its own latest claim, no older than the pass; the  *)
(* message of that claim is not out, but for the row it has begun with.    *)
(***************************************************************************)
RowOK(row, begun, r, st, att, ag, del, k, f) ==
    /\ row.tries = att[row.event] /\ st[row.event] = "sending" /\ ag[row.event] <= r.spent
    /\ IF begun THEN att[row.event] <= MaxAttempts ELSE del[row.event] < att[row.event]
    /\ begun /\ r.at = "sent" => del[row.event] >= 1
    /\ begun /\ r.at = "failed" => att[row.event] <= k + f

HandOK(r, st, att, ag, del, k, f) ==
    \A i \in Hand(r) : RowOK(r.rest[i], i = 1 /\ r.at # "send", r, st, att, ag, del, k, f)

Held(e) == \E d \in Passes : \E i \in Hand(pass[d]) : pass[d].rest[i].event = e

(* No row is in two places. *)
Apart ==
    \A c, d \in Passes : \A i \in Hand(pass[c]), j \in Hand(pass[d]) :
        pass[c].rest[i].event = pass[d].rest[j].event => c = d /\ i = j

(* Every claim but the last was lost to a death or a failed send. *)
EventOK(s, a, n, k, f) ==
    /\ a <= k + f + 1 /\ a <= MaxAttempts + k + 1
    /\ n <= a /\ n <= MaxAttempts
    /\ s = "sent" => n >= 1
    /\ s = "abandoned" => a > MaxAttempts
(* Of a row nobody holds, the last one too. *)
LooseOK(s, a, k, f) ==
    s \notin {"sent", "abandoned"} => a <= k + f /\ a <= MaxAttempts + k

(* The inductive invariant. *)
Inv ==
    /\ Types /\ Apart
    /\ \A d \in Passes : HandOK(pass[d], status, attempts, age, delivered, kills, faults)
    /\ \A e \in Events :
           /\ EventOK(status[e], attempts[e], delivered[e], kills, faults)
           /\ Held(e) \/ LooseOK(status[e], attempts[e], kills, faults)

-----------------------------------------------------------------------------
LEMMA Policy ==
    /\ NumEvents \in Nat \ {0} /\ MaxAttempts \in Nat \ {0} /\ BatchSize \in Nat \ {0}
    /\ Stale \in Nat \ {0} /\ JobLimit \in Nat \ {0} /\ JobLimit < Stale
    /\ Backoff \in Nat /\ MaxKills \in Nat /\ MaxFaults \in Nat
BY PolicyAssumption, ClaimAssumption

LEMMA InvInit ==
    ASSUME Init
    PROVE  Inv
<1>1. Types
  BY Policy DEF Init, Types, Statuses, Idle
<1>2. \A d \in Passes : Hand(pass[d]) = {}
  BY DEF Init, Hand
<1>3. \A e \in Events : /\ EventOK(status[e], attempts[e], delivered[e], kills, faults)
                        /\ LooseOK(status[e], attempts[e], kills, faults)
  BY Policy DEF Init, EventOK, LooseOK
<1>4. QED
  BY <1>1, <1>2, <1>3 DEF Inv, Apart, HandOK

(* The batch of a pass in the middle. *)
LEMMA Batch ==
    ASSUME Types, NEW d \in Passes, pass[d] # Idle
    PROVE  /\ pass[d] \in Running /\ Len(pass[d].rest) \in Nat \ {0} /\ Hand(pass[d]) = 1..Len(pass[d].rest)
           /\ 1 \in Hand(pass[d]) /\ Row(d) = pass[d].rest[1] /\ pass[d].spent \in Nat
           /\ pass[d].spent <= JobLimit
           /\ \A i \in Hand(pass[d]) : /\ pass[d].rest[i].event \in Events
                                       /\ pass[d].rest[i].tries \in Nat
<1>1. /\ pass[d] \in Running /\ pass[d].rest \in Seq(Claimed) /\ pass[d].rest # <<>>
      /\ pass[d].spent \in 0..JobLimit
  BY DEF Types, Running
<1>2. Len(pass[d].rest) \in Nat \ {0} /\ Head(pass[d].rest) = pass[d].rest[1]
  BY <1>1
<1>3. \A i \in 1..Len(pass[d].rest) : pass[d].rest[i] \in Claimed
  BY <1>1
<1>4. \A c \in Claimed : c.event \in Events /\ c.tries \in Nat
  BY Policy DEF Claimed
<1>5. QED
  BY <1>1, <1>2, <1>3, <1>4, Policy DEF Hand, Row

LEMMA RunningIsBusy ==
    ASSUME NEW r \in Running
    PROVE  r # Idle /\ r.at # "idle"
BY DEF Running, Idle

-----------------------------------------------------------------------------
(***************************************************************************)
(* A finite set of events can be put in order, so InOrder is that order.   *)
(***************************************************************************)
Sorts(s, S) ==
    s \in [1..Cardinality(S) -> S] /\ \A i, j \in DOMAIN s : i < j => s[i] < s[j]

LEMMA LeastCounterexample ==
    ASSUME NEW G, 0 \in G, \A n \in Nat : n \in G => n + 1 \in G
    PROVE  \A n \in Nat : n \in G
<1> DEFINE Bad == Nat \ G
<1>1. SUFFICES ASSUME Bad # {} PROVE FALSE
  OBVIOUS
<1>2. PICK k \in Bad : \A j \in Bad : <<j, k>> \notin OpToRel(<, Nat)
  <2>1. Bad \in SUBSET Nat
    OBVIOUS
  <2>2. QED
    BY <1>1, <2>1, NatLessThanWellFounded, WFMin
<1>3. k \in Nat /\ k # 0 /\ k - 1 \in Nat /\ k - 1 < k
  OBVIOUS
<1>4. k - 1 \notin Bad
  BY <1>2, <1>3 DEF OpToRel
<1>5. k - 1 \in G
  BY <1>3, <1>4
<1>6. (k - 1) + 1 = k
  BY <1>3
<1>7. k \in G
  BY <1>3, <1>5, <1>6
<1>8. QED
  BY <1>2, <1>7

LEMMA SortedExists ==
    ASSUME NEW n \in Nat, NEW S \in SUBSET (1..n)
    PROVE  \E s : Sorts(s, S)
<1> DEFINE G == {m \in Nat : \A T \in SUBSET (1..m) : \E s : Sorts(s, T)}
<1>1. 0 \in G
  <2>1. ASSUME NEW T \in SUBSET (1..0) PROVE \E s : Sorts(s, T)
    <3>0. T = {}
      <4>1. \A i : i \notin 1..0
        OBVIOUS
      <4>2. QED
        BY <4>1
    <3>1. Cardinality(T) = 0
      BY <3>0, FS_EmptySet
    <3>2. PICK s : s = [i \in 1..0 |-> i]
      OBVIOUS
    <3>3. s \in [1..Cardinality(T) -> T] /\ DOMAIN s = {}
      BY <3>0, <3>1, <3>2
    <3>4. QED
      BY <3>3 DEF Sorts
  <2>2. QED
    BY <2>1
<1>2. ASSUME NEW m \in Nat, m \in G
      PROVE  m + 1 \in G
  <2>1. ASSUME NEW T \in SUBSET (1..(m + 1)) PROVE \E s : Sorts(s, T)
    <3>1. CASE m + 1 \notin T
      <4>1. T \in SUBSET (1..m)
        BY <3>1
      <4>2. QED
        BY <1>2, <4>1
    <3>2. CASE m + 1 \in T
      <4>1. PICK U : U = T \ {m + 1}
        OBVIOUS
      <4>2. U \in SUBSET (1..m) /\ T = U \union {m + 1} /\ m + 1 \notin U
        BY <3>2, <4>1
      <4>3. PICK u : Sorts(u, U)
        BY <1>2, <4>2
      <4>4. IsFiniteSet(U)
        <5>1. IsFiniteSet(1..m)
          BY FS_Interval
        <5>2. QED
          BY <4>2, <5>1, FS_Subset
      <4>5. PICK c : c = Cardinality(U)
        OBVIOUS
      <4>6. c \in Nat /\ Cardinality(T) = c + 1
        BY <4>2, <4>4, <4>5, FS_AddElement, FS_CardinalityType
      <4>7. PICK s : s = [i \in 1..(c + 1) |-> IF i <= c THEN u[i] ELSE m + 1]
        OBVIOUS
      <4>8. u \in [1..c -> U] /\ DOMAIN u = 1..c /\ \A i, j \in 1..c : i < j => u[i] < u[j]
        BY <4>3, <4>5 DEF Sorts
      <4>9. s \in [1..(c + 1) -> T] /\ DOMAIN s = 1..(c + 1)
        BY <4>2, <4>6, <4>7, <4>8
      <4>10. ASSUME NEW i \in 1..(c + 1), NEW j \in 1..(c + 1), i < j
             PROVE  s[i] < s[j]
        <5>1. i <= c /\ s[i] = u[i] /\ i \in 1..c
          BY <4>6, <4>7, <4>10
        <5>2. u[i] \in 1..m
          BY <4>2, <4>8, <5>1
        <5>3. CASE j <= c
          <6>1. j \in 1..c /\ s[j] = u[j]
            BY <4>6, <4>7, <5>3
          <6>2. QED
            BY <4>8, <4>10, <5>1, <6>1
        <5>4. CASE ~(j <= c)
          <6>1. s[j] = m + 1
            BY <4>7, <5>4
          <6>2. QED
            BY <5>1, <5>2, <6>1
        <5>5. QED
          BY <5>3, <5>4
      <4>11. QED
        BY <4>6, <4>9, <4>10 DEF Sorts
    <3>3. QED
      BY <3>1, <3>2
  <2>2. QED
    BY <2>1
<1>3. \A m \in Nat : m \in G
  <2> HIDE DEF G
  <2>1. QED
    BY <1>1, <1>2, LeastCounterexample
<1>4. QED
  BY <1>3

(* InOrder takes every member of the set, once. *)
LEMMA InOrderFacts ==
    ASSUME NEW S \in SUBSET Events
    PROVE  /\ Cardinality(S) \in Nat
           /\ \A i \in 1..Cardinality(S) : InOrder(S)[i] \in S
           /\ \A i, j \in 1..Cardinality(S) : InOrder(S)[i] = InOrder(S)[j] => i = j
           /\ \A e \in S : \E i \in 1..Cardinality(S) : InOrder(S)[i] = e
<1>1. IsFiniteSet(S) /\ Cardinality(S) \in Nat
  <2>1. IsFiniteSet(1..NumEvents)
    BY Policy, FS_Interval
  <2>2. IsFiniteSet(S)
    BY <2>1, FS_Subset DEF Events
  <2>3. QED
    BY <2>2, FS_CardinalityType
<1>2. PICK c : c = Cardinality(S)
  OBVIOUS
<1>3. \E s \in [1..c -> S] : \A i, j \in DOMAIN s : i < j => s[i] < s[j]
  <2>1. \E s : Sorts(s, S)
    BY SortedExists, Policy DEF Events
  <2>2. QED
    BY <1>2, <2>1 DEF Sorts
<1>4. PICK q : q = InOrder(S)
  OBVIOUS
<1>5. q \in [1..c -> S] /\ \A i, j \in DOMAIN q : i < j => q[i] < q[j]
  BY <1>2, <1>3, <1>4 DEF InOrder
<1>6. ASSUME NEW i \in 1..c, NEW j \in 1..c, q[i] = q[j]
      PROVE  i = j
  <2>0. i \in 1..c /\ j \in 1..c /\ DOMAIN q = 1..c
    BY <1>5, <1>6
  <2>1. q[i] \in Int /\ q[j] \in Int
    <3>1. q[i] \in Events /\ q[j] \in Events
      BY <1>5, <2>0
    <3>2. QED
      BY <3>1, Policy DEF Events
  <2>2. ~(i < j) /\ ~(j < i)
    BY <1>5, <1>6, <2>0, <2>1
  <2>3. QED
    BY <1>1, <1>2, <2>2
<1>7. \A e \in S : \E i \in 1..c : q[i] = e
  <2>1. q \in Injection(1..c, S)
    BY <1>5, <1>6 DEF Injection, IsInjective
  <2>2. IsFiniteSet(1..c) /\ Cardinality(1..c) = c
    BY <1>1, <1>2, FS_Interval
  <2>3. q \in Surjection(1..c, S)
    BY <1>1, <1>2, <2>1, <2>2, FS_Injection
  <2>4. QED
    BY <2>3 DEF Surjection
<1>8. QED
  BY <1>1, <1>2, <1>4, <1>5, <1>6, <1>7

-----------------------------------------------------------------------------
(***************************************************************************)
(* What work on a batch does to it: the pass keeps its hand, or puts down  *)
(* the first row (k = 1).                                                  *)
(***************************************************************************)
Takes(d, r, k) ==
    /\ pass' = [pass EXCEPT ![d] = r]
    /\ r \in Running \union {Idle}
    /\ r # Idle => r.rest # <<>> /\ r.spent = pass[d].spent
    /\ k = 1 /\ r # Idle => r.at = "send"
    /\ \A i \in Hand(r) : i \in Nat \ {0} /\ i + k \in Hand(pass[d]) /\ r.rest[i] = pass[d].rest[i + k]
    /\ \A i \in Hand(pass[d]) : i > k => i - k \in Hand(r)

LEMMA GotoTakes ==
    ASSUME Types, NEW d \in Passes, pass[d] # Idle,
           NEW place \in {"sent", "failed"}, Goto(d, place)
    PROVE  \E r : Takes(d, r, 0) /\ r # Idle /\ r.at = place
<1>1. PICK r : r = [pass[d] EXCEPT !.at = place]
  OBVIOUS
<1>2. pass[d] \in Running /\ pass[d].rest # <<>>
  BY DEF Types
<1>3. /\ r \in Running /\ r.rest = pass[d].rest /\ r.spent = pass[d].spent /\ r.at = place
      /\ pass' = [pass EXCEPT ![d] = r]
  BY <1>1, <1>2 DEF Running, Goto
<1>4. r # Idle
  BY <1>3, RunningIsBusy
<1>5. Hand(r) = 1..Len(pass[d].rest) /\ Hand(pass[d]) = 1..Len(pass[d].rest)
  BY <1>3, <1>4 DEF Hand
<1>6. Len(pass[d].rest) \in Nat
  BY Batch
<1>7. /\ \A i \in Hand(r) : i \in Nat \ {0} /\ i + 0 = i /\ i + 0 \in Hand(pass[d])
      /\ \A i \in Hand(pass[d]) : i - 0 \in Hand(r)
  BY <1>5, <1>6
<1>8. Takes(d, r, 0)
  BY <1>2, <1>3, <1>7 DEF Takes
<1>9. QED
  BY <1>3, <1>4, <1>8

LEMMA NextRowTakes ==
    ASSUME Types, NEW d \in Passes, pass[d] # Idle, NextRow(d)
    PROVE  \E r : Takes(d, r, 1)
<1>1. /\ pass[d] \in Running /\ pass[d].rest \in Seq(Claimed) /\ pass[d].rest # <<>>
      /\ Hand(pass[d]) = 1..Len(pass[d].rest) /\ Len(pass[d].rest) \in Nat \ {0}
  BY Batch DEF Types, Running
<1>2. CASE Len(pass[d].rest) = 1
  <2>1. pass' = [pass EXCEPT ![d] = Idle]
    BY <1>2 DEF NextRow
  <2>2. Hand(Idle) = {}
    BY DEF Hand
  <2>3. \A i \in Hand(pass[d]) : ~(i > 1)
    BY <1>1, <1>2
  <2>4. Takes(d, Idle, 1)
    BY <2>1, <2>2, <2>3 DEF Takes
  <2>5. QED
    BY <2>4
<1>3. CASE Len(pass[d].rest) # 1
  <2>1. PICK r : r = [pass[d] EXCEPT !.at = "send", !.rest = Tail(pass[d].rest)]
    OBVIOUS
  <2>2. pass' = [pass EXCEPT ![d] = r]
    BY <1>3, <2>1 DEF NextRow
  <2>3. PICK s : s = pass[d].rest
    OBVIOUS
  <2>4. /\ Tail(s) \in Seq(Claimed) /\ Len(Tail(s)) = Len(s) - 1 /\ Tail(s) # <<>>
        /\ \A i \in 1..(Len(s) - 1) : Tail(s)[i] = s[i + 1]
    <3>1. s \in Seq(Claimed) /\ s # <<>> /\ Len(s) \in Nat /\ Len(s) > 1
      <4>1. s \in Seq(Claimed) /\ s # <<>> /\ Len(s) \in Nat \ {0} /\ Len(s) # 1
        BY <1>1, <1>3, <2>3
      <4>2. \A n \in Nat \ {0} : n # 1 => n \in Nat /\ n > 1
        OBVIOUS
      <4>3. QED
        BY <4>1, <4>2, Zenon
    <3>2. Tail(s) \in Seq(Claimed) /\ Len(Tail(s)) = Len(s) - 1
      BY <3>1
    <3>3. Tail(s) # <<>>
      BY <3>1, <3>2
    <3>4. \A i \in 1..(Len(s) - 1) : Tail(s)[i] = s[i + 1]
      BY <3>1
    <3>5. QED
      BY <3>2, <3>3, <3>4
  <2>5. r \in Running /\ r.rest = Tail(s) /\ r.spent = pass[d].spent /\ r.at = "send"
    BY <1>1, <2>1, <2>3, <2>4 DEF Running
  <2>6. r # Idle /\ Hand(r) = 1..(Len(s) - 1)
    BY <2>4, <2>5, RunningIsBusy DEF Hand
  <2>7. /\ \A i \in Hand(r) : i \in Nat \ {0} /\ i + 1 \in Hand(pass[d]) /\ r.rest[i] = s[i + 1]
        /\ \A i \in Hand(pass[d]) : i > 1 => i - 1 \in Hand(r)
    BY <1>1, <2>3, <2>4, <2>5, <2>6
  <2>8. Takes(d, r, 1)
    BY <2>2, <2>3, <2>4, <2>5, <2>6, <2>7 DEF Takes
  <2>9. QED
    BY <2>8
<1>4. QED
  BY <1>2, <1>3

(***************************************************************************)
(* Work on the first row disturbs no other: it is enough to look at that   *)
(* row and at its event.                                                   *)
(***************************************************************************)
LEMMA WorkFrame ==
    ASSUME Inv, NEW d \in Passes, pass[d] # Idle, NEW e, e = Row(d).event,
           NEW k \in {0, 1}, NEW r, Takes(d, r, k),
           UNCHANGED <<attempts, age, kills>>,
           status' \in [Events -> Statuses], delivered' \in [Events -> Nat],
           faults' \in Nat, faults <= faults',
           \A f \in Events \ {e} : status'[f] = status[f] /\ delivered'[f] = delivered[f],
           k = 0 => /\ r # Idle
                    /\ RowOK(r.rest[1], r.at # "send", r, status', attempts, age, delivered',
                             kills, faults'),
           EventOK(status'[e], attempts[e], delivered'[e], kills, faults'),
           k = 1 => LooseOK(status'[e], attempts[e], kills, faults')
    PROVE  Inv'
<1>0. Types /\ Apart
  BY DEF Inv
<1>1. /\ 1 \in Hand(pass[d]) /\ e = pass[d].rest[1].event /\ e \in Events
      /\ \A c \in Passes : \A i \in Hand(pass[c]) : i \in Nat \ {0}
  <2>1. 1 \in Hand(pass[d]) /\ e = pass[d].rest[1].event /\ e \in Events
    BY <1>0, Batch
  <2>2. ASSUME NEW c \in Passes, NEW i \in Hand(pass[c])
        PROVE  i \in Nat \ {0}
    <3>1. pass[c] # Idle
      BY DEF Hand
    <3>2. Hand(pass[c]) = 1..Len(pass[c].rest) /\ Len(pass[c].rest) \in Nat
      BY <1>0, <3>1, Batch
    <3>3. QED
      BY <3>2
  <2>3. QED
    BY <2>1, <2>2
<1>2. /\ pass' \in [Passes -> Running \union {Idle}] /\ pass'[d] = r
      /\ \A c \in Passes \ {d} : pass'[c] = pass[c]
  BY <1>0 DEF Takes, Types
<1>3. Types'
  <2>1. \A c \in Passes : pass'[c] # Idle => pass'[c].rest # <<>>
    BY <1>0, <1>2 DEF Takes, Types
  <2>2. QED
    BY <1>0, <1>2, <2>1 DEF Types
(* Where a row in hand came from. *)
<1>4. \A c \in Passes : \A i \in Hand(pass'[c]) :
          \E j \in Hand(pass[c]) : /\ pass'[c].rest[i] = pass[c].rest[j] /\ i \in Nat \ {0}
                                   /\ j = IF c = d THEN i + k ELSE i
  <2>1. ASSUME NEW c \in Passes, NEW i \in Hand(pass'[c]), c = d
        PROVE  i + k \in Hand(pass[c]) /\ pass'[c].rest[i] = pass[c].rest[i + k] /\ i \in Nat \ {0}
    BY <1>2, <2>1 DEF Takes
  <2>2. ASSUME NEW c \in Passes, NEW i \in Hand(pass'[c]), c # d
        PROVE  i \in Hand(pass[c]) /\ pass'[c].rest[i] = pass[c].rest[i] /\ i \in Nat \ {0}
    BY <1>1, <1>2, <2>2
  <2>3. QED
    BY <2>1, <2>2
<1>5. Apart'
  <2>1. ASSUME NEW b \in Passes, NEW c \in Passes, NEW i \in Hand(pass'[b]), NEW j \in Hand(pass'[c]),
               pass'[b].rest[i].event = pass'[c].rest[j].event
        PROVE  b = c /\ i = j
    <3>1. PICK x \in Hand(pass[b]) : /\ pass'[b].rest[i] = pass[b].rest[x] /\ i \in Nat \ {0}
                                     /\ x = IF b = d THEN i + k ELSE i
      BY <1>4
    <3>2. PICK y \in Hand(pass[c]) : /\ pass'[c].rest[j] = pass[c].rest[y] /\ j \in Nat \ {0}
                                     /\ y = IF c = d THEN j + k ELSE j
      BY <1>4
    <3>3. b = c /\ x = y
      BY <1>0, <2>1, <3>1, <3>2 DEF Apart
    <3>4. QED
      BY <3>1, <3>2, <3>3
  <2>2. QED
    BY <2>1 DEF Apart
<1>6. ASSUME NEW c \in Passes, NEW i \in Hand(pass'[c])
      PROVE  RowOK(pass'[c].rest[i], i = 1 /\ pass'[c].at # "send", pass'[c], status', attempts',
                   age', delivered', kills', faults')
  <2>1. CASE c = d /\ i + k = 1
    <3>1. i = 1 /\ k = 0
      BY <1>4, <2>1
    <3>2. QED
      BY <1>2, <2>1, <3>1
  <2>2. CASE ~(c = d /\ i + k = 1)
    <3>1. PICK j \in Hand(pass[c]) : /\ pass'[c].rest[i] = pass[c].rest[j] /\ i \in Nat \ {0}
                                     /\ j = IF c = d THEN i + k ELSE i
      BY <1>4
    <3>2. pass[c].rest[j].event # e
      <4>1. ~(c = d /\ j = 1)
        BY <2>2, <3>1
      <4>2. QED
        BY <1>0, <1>1, <4>1 DEF Apart
    <3>3. pass[c] # Idle /\ pass'[c] # Idle
      BY DEF Hand
    <3>4. pass[c].rest[j].event \in Events
      BY <1>0, <3>3, Batch
    <3>5. RowOK(pass[c].rest[j], j = 1 /\ pass[c].at # "send", pass[c], status, attempts, age,
                delivered, kills, faults)
      BY DEF Inv, HandOK
    <3>6. pass'[c].spent = pass[c].spent
      BY <1>2, <3>3 DEF Takes
    <3>7. CASE c # d
      <4>1. j = i /\ pass'[c] = pass[c] /\ kills \in Nat /\ faults \in Nat
            /\ attempts[pass[c].rest[j].event] \in Nat
        BY <1>0, <1>2, <3>1, <3>4, <3>7, Policy DEF Types
      <4>2. status'[pass[c].rest[j].event] = status[pass[c].rest[j].event]
            /\ delivered'[pass[c].rest[j].event] = delivered[pass[c].rest[j].event]
        BY <3>2, <3>4
      <4>3. QED
        BY <3>1, <3>5, <4>1, <4>2 DEF RowOK
    <3>8. CASE c = d
      <4>1. j # 1 /\ ~(i = 1 /\ pass'[c].at # "send")
        BY <1>2, <2>2, <3>1, <3>3, <3>8 DEF Takes
      <4>2. status'[pass[c].rest[j].event] = status[pass[c].rest[j].event]
            /\ delivered'[pass[c].rest[j].event] = delivered[pass[c].rest[j].event]
        BY <3>2, <3>4
      <4>3. QED
        BY <3>1, <3>5, <3>6, <4>1, <4>2 DEF RowOK
    <3>9. QED
      BY <3>7, <3>8
  <2>3. QED
    BY <2>1, <2>2
<1>7. ASSUME NEW f \in Events
      PROVE  /\ EventOK(status'[f], attempts'[f], delivered'[f], kills', faults')
             /\ Held(f)' \/ LooseOK(status'[f], attempts'[f], kills', faults')
  <2>1. CASE f = e
    <3>1. CASE k = 0
      <4>1. 1 \in Hand(pass'[d])
        <5>1. 1 - 0 \in Hand(r)
          BY <1>1, <3>1 DEF Takes
        <5>2. QED
          BY <1>2, <5>1
      <4>2. PICK j \in Hand(pass[d]) : pass'[d].rest[1] = pass[d].rest[j] /\ j = 1 + k
        BY <1>4, <4>1
      <4>3. pass'[d].rest[1].event = e
        BY <1>1, <3>1, <4>2
      <4>4. Held(e)'
        BY <4>1, <4>3 DEF Held
      <4>5. QED
        BY <2>1, <4>4
    <3>2. QED
      BY <2>1, <3>1
  <2>2. CASE f # e
    <3>1. status'[f] = status[f] /\ delivered'[f] = delivered[f]
      BY <2>2
    <3>2. kills \in Nat /\ faults \in Nat /\ attempts[f] \in Nat
      BY <1>0, Policy DEF Types
    <3>3. EventOK(status[f], attempts[f], delivered[f], kills, faults)
          /\ (Held(f) \/ LooseOK(status[f], attempts[f], kills, faults))
      BY DEF Inv
    <3>4. EventOK(status'[f], attempts'[f], delivered'[f], kills', faults')
      BY <3>1, <3>2, <3>3 DEF EventOK
    <3>5. CASE LooseOK(status[f], attempts[f], kills, faults)
      BY <3>1, <3>2, <3>4, <3>5 DEF LooseOK
    <3>6. CASE Held(f)
      <4>1. PICK c \in Passes : \E i \in Hand(pass[c]) : pass[c].rest[i].event = f
        BY <3>6 DEF Held
      <4>2. PICK i \in Hand(pass[c]) : pass[c].rest[i].event = f
        BY <4>1
      <4>3. CASE c # d
        BY <1>2, <3>4, <4>2, <4>3 DEF Held
      <4>4. CASE c = d
        <5>1. i # 1 /\ i \in Nat \ {0} /\ i > k
          BY <1>1, <2>2, <4>2, <4>4
        <5>2. i - k \in Hand(r)
          BY <4>4, <5>1 DEF Takes
        <5>3. r.rest[i - k] = pass[d].rest[(i - k) + k] /\ (i - k) + k = i
          BY <5>1, <5>2 DEF Takes
        <5>4. pass'[d].rest[i - k].event = f
          BY <1>2, <4>2, <4>4, <5>3
        <5>5. Held(f)'
          BY <1>2, <5>2, <5>4 DEF Held
        <5>6. QED
          BY <3>4, <5>5
      <4>5. QED
        BY <4>3, <4>4
    <3>7. QED
      BY <3>3, <3>5, <3>6
  <2>3. QED
    BY <2>1, <2>2
<1>8. QED
  BY <1>3, <1>5, <1>6, <1>7 DEF Inv, HandOK

-----------------------------------------------------------------------------
(* What is known of the row the pass works on. *)
LEMMA FirstRow ==
    ASSUME Inv, NEW d \in Passes, pass[d].at \in {"send", "sent", "failed"}
    PROVE  /\ Types /\ pass[d] # Idle
           /\ Row(d) = pass[d].rest[1] /\ Row(d).event \in Events
           /\ RowOK(Row(d), pass[d].at # "send", pass[d], status, attempts, age, delivered, kills, faults)
           /\ EventOK(status[Row(d).event], attempts[Row(d).event], delivered[Row(d).event], kills, faults)
           /\ attempts[Row(d).event] \in Nat /\ delivered[Row(d).event] \in Nat
           /\ kills \in Nat /\ faults \in Nat
<1>1. Types
  BY DEF Inv
<1>2. pass[d] # Idle
  BY DEF Idle
<1>3. Row(d) = pass[d].rest[1] /\ 1 \in Hand(pass[d]) /\ Row(d).event \in Events
  BY <1>1, <1>2, Batch
<1>4. RowOK(Row(d), pass[d].at # "send", pass[d], status, attempts, age, delivered, kills, faults)
  BY <1>3 DEF Inv, HandOK
<1>5. QED
  BY <1>1, <1>2, <1>3, <1>4, Policy DEF Inv, Types

LEMMA AbandonKeeps ==
    ASSUME Inv, NEW d \in Passes, Abandon(d)
    PROVE  Inv'
<1>1. At(d, "send") /\ Exhausted(Row(d)) /\ NextRow(d)
      /\ status' = [status EXCEPT ![Row(d).event] = "abandoned"]
      /\ UNCHANGED <<attempts, age, delivered, kills, faults>>
  BY DEF Abandon
<1>2. PICK e : e = Row(d).event
  OBVIOUS
<1>3. /\ Types /\ pass[d] # Idle /\ e \in Events /\ attempts[e] \in Nat
      /\ Row(d).tries = attempts[e]
      /\ EventOK(status[e], attempts[e], delivered[e], kills, faults)
  BY <1>1, <1>2, FirstRow DEF At, RowOK
<1>4. PICK r : Takes(d, r, 1)
  BY <1>1, <1>3, NextRowTakes
<1>5. status' \in [Events -> Statuses] /\ status'[e] = "abandoned"
      /\ \A f \in Events \ {e} : status'[f] = status[f]
  BY <1>1, <1>2, <1>3 DEF Types, Statuses
<1>6. attempts[e] > MaxAttempts
  BY <1>1, <1>2, <1>3 DEF Exhausted
<1>7. EventOK(status'[e], attempts[e], delivered'[e], kills, faults')
      /\ LooseOK(status'[e], attempts[e], kills, faults')
  BY <1>1, <1>3, <1>5, <1>6 DEF EventOK, LooseOK
<1>8. delivered' \in [Events -> Nat] /\ faults' \in Nat /\ faults <= faults'
  BY <1>1, <1>3 DEF Types
<1>9. QED
  BY <1>1, <1>2, <1>3, <1>4, <1>5, <1>7, <1>8, WorkFrame

LEMMA SendKeeps ==
    ASSUME Inv, NEW d \in Passes, Send(d)
    PROVE  Inv'
<1>1. At(d, "send") /\ ~Exhausted(Row(d)) /\ Goto(d, "sent") /\ Deliver(Row(d).event)
      /\ UNCHANGED <<status, attempts, age, kills, faults>>
  BY DEF Send
<1>2. PICK e : e = Row(d).event
  OBVIOUS
<1>3. /\ Types /\ pass[d] # Idle /\ e \in Events /\ attempts[e] \in Nat /\ delivered[e] \in Nat
      /\ Row(d).tries = attempts[e] /\ status[e] = "sending" /\ age[e] <= pass[d].spent
      /\ delivered[e] < attempts[e]
      /\ EventOK(status[e], attempts[e], delivered[e], kills, faults)
  BY <1>1, <1>2, FirstRow DEF At, RowOK
<1>4. PICK r : Takes(d, r, 0) /\ r # Idle /\ r.at = "sent"
  BY <1>1, <1>3, GotoTakes
<1>5. delivered' \in [Events -> Nat] /\ delivered'[e] = delivered[e] + 1
      /\ \A f \in Events \ {e} : delivered'[f] = delivered[f]
  BY <1>1, <1>2, <1>3 DEF Types, Deliver
<1>6. attempts[e] <= MaxAttempts /\ MaxAttempts \in Nat
  BY <1>1, <1>2, <1>3, Policy DEF Exhausted
<1>7. EventOK(status'[e], attempts[e], delivered'[e], kills, faults')
  BY <1>1, <1>3, <1>5, <1>6 DEF EventOK
<1>8. r.rest[1] = Row(d) /\ r.spent = pass[d].spent
  <2>1. 1 \in Hand(pass[d]) /\ Row(d) = pass[d].rest[1]
    BY <1>3, Batch
  <2>2. 1 - 0 \in Hand(r)
    BY <1>4, <2>1 DEF Takes
  <2>3. QED
    BY <1>4, <2>1, <2>2 DEF Takes
<1>9. RowOK(r.rest[1], r.at # "send", r, status', attempts, age, delivered', kills, faults')
  BY <1>1, <1>2, <1>3, <1>4, <1>5, <1>6, <1>8 DEF RowOK
<1>10. status' \in [Events -> Statuses] /\ faults' \in Nat /\ faults <= faults'
  BY <1>1, <1>3 DEF Types
<1>11. QED
  BY <1>1, <1>2, <1>3, <1>4, <1>5, <1>7, <1>9, <1>10, WorkFrame

LEMMA SendFailsKeeps ==
    ASSUME Inv, NEW d \in Passes, SendFails(d)
    PROVE  Inv'
<1>1. At(d, "send") /\ ~Exhausted(Row(d)) /\ Goto(d, "failed")
      /\ (Deliver(Row(d).event) \/ UNCHANGED delivered) /\ faults' = faults + 1
      /\ UNCHANGED <<status, attempts, age, kills>>
  BY DEF SendFails
<1>2. PICK e : e = Row(d).event
  OBVIOUS
<1>3. /\ Types /\ pass[d] # Idle /\ e \in Events /\ attempts[e] \in Nat /\ delivered[e] \in Nat
      /\ Row(d).tries = attempts[e] /\ status[e] = "sending" /\ age[e] <= pass[d].spent
      /\ delivered[e] < attempts[e] /\ kills \in Nat /\ faults \in Nat
      /\ EventOK(status[e], attempts[e], delivered[e], kills, faults)
  BY <1>1, <1>2, FirstRow DEF At, RowOK
<1>4. PICK r : Takes(d, r, 0) /\ r # Idle /\ r.at = "failed"
  BY <1>1, <1>3, GotoTakes
<1>5. delivered' \in [Events -> Nat] /\ delivered'[e] \in {delivered[e], delivered[e] + 1}
      /\ \A f \in Events \ {e} : delivered'[f] = delivered[f]
  BY <1>1, <1>2, <1>3 DEF Types, Deliver
<1>6. attempts[e] <= MaxAttempts /\ MaxAttempts \in Nat
  BY <1>1, <1>2, <1>3, Policy DEF Exhausted
<1>7. EventOK(status'[e], attempts[e], delivered'[e], kills, faults')
  BY <1>1, <1>3, <1>5, <1>6 DEF EventOK
<1>8. r.rest[1] = Row(d) /\ r.spent = pass[d].spent
  <2>1. 1 \in Hand(pass[d]) /\ Row(d) = pass[d].rest[1]
    BY <1>3, Batch
  <2>2. 1 - 0 \in Hand(r)
    BY <1>4, <2>1 DEF Takes
  <2>3. QED
    BY <1>4, <2>1, <2>2 DEF Takes
<1>9. attempts[e] <= kills + faults'
  BY <1>1, <1>3 DEF EventOK
<1>10. RowOK(r.rest[1], r.at # "send", r, status', attempts, age, delivered', kills, faults')
  BY <1>1, <1>2, <1>3, <1>4, <1>6, <1>8, <1>9 DEF RowOK
<1>11. status' \in [Events -> Statuses] /\ faults' \in Nat /\ faults <= faults'
  BY <1>1, <1>3 DEF Types
<1>12. QED
  BY <1>1, <1>2, <1>3, <1>4, <1>5, <1>7, <1>10, <1>11, WorkFrame

LEMMA MarkSentKeeps ==
    ASSUME Inv, NEW d \in Passes, MarkSent(d)
    PROVE  Inv'
<1>1. At(d, "sent") /\ NextRow(d)
      /\ status' = [status EXCEPT ![Row(d).event] = "sent"]
      /\ UNCHANGED <<attempts, age, delivered, kills, faults>>
  BY DEF MarkSent
<1>2. PICK e : e = Row(d).event
  OBVIOUS
<1>3. /\ Types /\ pass[d] # Idle /\ e \in Events /\ attempts[e] \in Nat
      /\ delivered[e] >= 1
      /\ EventOK(status[e], attempts[e], delivered[e], kills, faults)
  BY <1>1, <1>2, FirstRow DEF At, RowOK
<1>4. PICK r : Takes(d, r, 1)
  BY <1>1, <1>3, NextRowTakes
<1>5. status' \in [Events -> Statuses] /\ status'[e] = "sent"
      /\ \A f \in Events \ {e} : status'[f] = status[f]
  BY <1>1, <1>2, <1>3 DEF Types, Statuses
<1>6. EventOK(status'[e], attempts[e], delivered'[e], kills, faults')
      /\ LooseOK(status'[e], attempts[e], kills, faults')
  BY <1>1, <1>3, <1>5 DEF EventOK, LooseOK
<1>7. delivered' \in [Events -> Nat] /\ faults' \in Nat /\ faults <= faults'
  BY <1>1, <1>3 DEF Types
<1>8. QED
  BY <1>1, <1>2, <1>3, <1>4, <1>5, <1>6, <1>7, WorkFrame

LEMMA MarkRetryKeeps ==
    ASSUME Inv, NEW d \in Passes, MarkRetry(d)
    PROVE  Inv'
<1>1. At(d, "failed") /\ NextRow(d)
      /\ status' = [status EXCEPT ![Row(d).event] = "retry"]
      /\ UNCHANGED <<attempts, age, delivered, kills, faults>>
  BY DEF MarkRetry
<1>2. PICK e : e = Row(d).event
  OBVIOUS
<1>3. /\ Types /\ pass[d] # Idle /\ e \in Events /\ attempts[e] \in Nat /\ kills \in Nat
      /\ attempts[e] <= MaxAttempts /\ attempts[e] <= kills + faults
      /\ EventOK(status[e], attempts[e], delivered[e], kills, faults)
  BY <1>1, <1>2, FirstRow DEF At, RowOK
<1>4. PICK r : Takes(d, r, 1)
  BY <1>1, <1>3, NextRowTakes
<1>5. status' \in [Events -> Statuses] /\ status'[e] = "retry"
      /\ \A f \in Events \ {e} : status'[f] = status[f]
  BY <1>1, <1>2, <1>3 DEF Types, Statuses
<1>6. EventOK(status'[e], attempts[e], delivered'[e], kills, faults')
      /\ LooseOK(status'[e], attempts[e], kills, faults')
  BY <1>1, <1>3, <1>5, Policy DEF EventOK, LooseOK
<1>7. delivered' \in [Events -> Nat] /\ faults' \in Nat /\ faults <= faults'
  BY <1>1, <1>3 DEF Types
<1>8. QED
  BY <1>1, <1>2, <1>3, <1>4, <1>5, <1>6, <1>7, WorkFrame

-----------------------------------------------------------------------------
LEMMA EnqueueKeeps ==
    ASSUME Inv, NEW e \in Events, Enqueue(e)
    PROVE  Inv'
<1>1. Types
  BY DEF Inv
<1>2. /\ status[e] = "none" /\ status' \in [Events -> Statuses] /\ status'[e] = "pending"
      /\ \A f \in Events \ {e} : status'[f] = status[f]
      /\ UNCHANGED <<attempts, age, pass, delivered, kills, faults>>
  BY <1>1 DEF Enqueue, Types, Statuses
<1>3. Types' /\ Apart'
  BY <1>1, <1>2 DEF Inv, Types, Apart
<1>4. ASSUME NEW c \in Passes, NEW i \in Hand(pass[c])
      PROVE  RowOK(pass[c].rest[i], i = 1 /\ pass[c].at # "send", pass[c], status', attempts, age,
                   delivered, kills, faults)
  <2>1. RowOK(pass[c].rest[i], i = 1 /\ pass[c].at # "send", pass[c], status, attempts, age,
              delivered, kills, faults)
    BY DEF Inv, HandOK
  <2>2. pass[c].rest[i].event \in Events
    <3>1. pass[c] # Idle
      BY DEF Hand
    <3>2. QED
      BY <1>1, <3>1, Batch
  <2>3. status[pass[c].rest[i].event] = "sending"
    BY <2>1 DEF RowOK
  <2>4. status'[pass[c].rest[i].event] = status[pass[c].rest[i].event]
    BY <1>2, <2>2, <2>3
  <2>5. QED
    BY <2>1, <2>4 DEF RowOK
<1>5. ASSUME NEW f \in Events
      PROVE  /\ EventOK(status'[f], attempts[f], delivered[f], kills, faults)
             /\ Held(f)' \/ LooseOK(status'[f], attempts[f], kills, faults)
  <2>1. /\ EventOK(status[f], attempts[f], delivered[f], kills, faults)
        /\ Held(f) \/ LooseOK(status[f], attempts[f], kills, faults)
    BY DEF Inv
  <2>2. status'[f] = status[f] \/ (status'[f] = "pending" /\ status[f] = "none")
    BY <1>2
  <2>3. Held(f) => Held(f)'
    BY <1>2 DEF Held
  <2>4. QED
    BY <2>1, <2>2, <2>3 DEF EventOK, LooseOK
<1>6. QED
  BY <1>2, <1>3, <1>4, <1>5 DEF Inv, HandOK

LEMMA KillKeeps ==
    ASSUME Inv, NEW d \in Passes, Kill(d)
    PROVE  Inv'
<1>1. Types
  BY DEF Inv
<1>2. /\ kills' = kills + 1 /\ kills \in Nat /\ faults \in Nat /\ kills' \in 0..MaxKills
      /\ pass' \in [Passes -> Running \union {Idle}] /\ pass'[d] = Idle
      /\ \A c \in Passes \ {d} : pass'[c] = pass[c]
      /\ UNCHANGED <<status, attempts, age, delivered, faults>>
  BY <1>1, Policy DEF Kill, Types
<1>3. \A c \in Passes : \A i \in Hand(pass'[c]) : pass'[c] = pass[c] /\ i \in Hand(pass[c])
  BY <1>2 DEF Hand
<1>4. Types'
  BY <1>1, <1>2 DEF Types
<1>5. Apart'
  BY <1>3 DEF Inv, Apart
<1>6. ASSUME NEW c \in Passes, NEW i \in Hand(pass'[c])
      PROVE  RowOK(pass'[c].rest[i], i = 1 /\ pass'[c].at # "send", pass'[c], status, attempts, age,
                   delivered, kills', faults)
  <2>1. RowOK(pass[c].rest[i], i = 1 /\ pass[c].at # "send", pass[c], status, attempts, age,
              delivered, kills, faults)
    BY <1>3 DEF Inv, HandOK
  <2>2. pass[c].rest[i].event \in Events
    <3>1. pass[c] # Idle
      BY <1>3 DEF Hand
    <3>2. QED
      BY <1>1, <1>3, <3>1, Batch
  <2>3. attempts[pass[c].rest[i].event] \in Nat
    BY <1>1, <2>2 DEF Types
  <2>4. pass'[c] = pass[c]
    BY <1>3
  <2>5. QED
    BY <1>2, <2>1, <2>3, <2>4 DEF RowOK
<1>7. ASSUME NEW f \in Events
      PROVE  /\ EventOK(status[f], attempts[f], delivered[f], kills', faults)
             /\ Held(f)' \/ LooseOK(status[f], attempts[f], kills', faults)
  <2>1. /\ EventOK(status[f], attempts[f], delivered[f], kills, faults)
        /\ attempts[f] \in Nat /\ MaxAttempts \in Nat
    BY <1>1, Policy DEF Inv, Types
  <2>2. LooseOK(status[f], attempts[f], kills', faults)
    BY <1>2, <2>1 DEF EventOK, LooseOK
  <2>3. QED
    BY <1>2, <2>1, <2>2 DEF EventOK
<1>8. QED
  BY <1>2, <1>4, <1>5, <1>6, <1>7 DEF Inv, HandOK

LEMMA TickKeeps ==
    ASSUME Inv, Tick
    PROVE  Inv'
<1>1. Types
  BY DEF Inv
<1>2. UNCHANGED <<status, attempts, delivered, kills, faults>>
  BY DEF Tick
<1>3. age' \in [Events -> 0..Stale] /\ \A e \in Events : age'[e] <= age[e] + 1
  <2>1. \A e \in Events : age[e] \in 0..Stale
    BY <1>1 DEF Types
  <2>2. QED
    BY <2>1, Policy DEF Tick
<1>4. ASSUME NEW c \in Passes
      PROVE  /\ pass'[c] \in Running \union {Idle}
             /\ Hand(pass'[c]) = Hand(pass[c])
             /\ pass'[c] = Idle <=> pass[c] = Idle
             /\ pass[c] # Idle => /\ pass'[c].rest = pass[c].rest /\ pass'[c].at = pass[c].at
                                  /\ pass'[c].spent = pass[c].spent + 1
  <2>1. CASE pass[c] = Idle
    BY <2>1 DEF Tick
  <2>2. CASE pass[c] # Idle
    <3>1. pass[c] \in Running /\ pass[c].spent \in 0..JobLimit /\ pass[c].spent < JobLimit
      BY <1>1, <2>2 DEF Types, Running, Tick
    <3>2. pass'[c] = [pass[c] EXCEPT !.spent = @ + 1]
      BY <2>2 DEF Tick
    <3>3. pass[c].spent + 1 \in 0..JobLimit
      BY <3>1, Policy
    <3>4. pass'[c] \in Running /\ pass'[c].rest = pass[c].rest /\ pass'[c].at = pass[c].at
          /\ pass'[c].spent = pass[c].spent + 1
      BY <3>1, <3>2, <3>3 DEF Running
    <3>5. pass'[c] # Idle
      BY <3>4, RunningIsBusy
    <3>6. QED
      BY <2>2, <3>4, <3>5 DEF Hand
  <2>3. QED
    BY <2>1, <2>2
<1>5. Types'
  <2>1. pass' \in [Passes -> Running \union {Idle}]
    <3>1. pass' = [d \in Passes |-> pass'[d]]
      BY DEF Tick
    <3>2. QED
      BY <1>4, <3>1
  <2>2. \A c \in Passes : pass'[c] # Idle => pass'[c].rest # <<>>
    BY <1>1, <1>4 DEF Types
  <2>3. QED
    BY <1>1, <1>2, <1>3, <2>1, <2>2 DEF Types
<1>6. \A c \in Passes : \A i \in Hand(pass[c]) : pass'[c].rest[i] = pass[c].rest[i]
  BY <1>4 DEF Hand
<1>7. Apart'
  BY <1>4, <1>6 DEF Inv, Apart
<1>8. ASSUME NEW c \in Passes, NEW i \in Hand(pass'[c])
      PROVE  RowOK(pass'[c].rest[i], i = 1 /\ pass'[c].at # "send", pass'[c], status, attempts, age',
                   delivered, kills, faults)
  <2>1. i \in Hand(pass[c]) /\ pass'[c].rest[i] = pass[c].rest[i] /\ pass[c] # Idle
    BY <1>4, <1>6 DEF Hand
  <2>2. RowOK(pass[c].rest[i], i = 1 /\ pass[c].at # "send", pass[c], status, attempts, age,
              delivered, kills, faults)
    BY <2>1 DEF Inv, HandOK
  <2>3. pass[c].rest[i].event \in Events /\ pass[c].spent \in Nat
    BY <1>1, <2>1, Batch
  <2>4. age[pass[c].rest[i].event] \in 0..Stale /\ age'[pass[c].rest[i].event] \in 0..Stale
    BY <1>1, <1>3, <2>3 DEF Types
  <2>5. age[pass[c].rest[i].event] <= pass[c].spent
    BY <2>2 DEF RowOK
  <2>6. age'[pass'[c].rest[i].event] <= pass'[c].spent
    BY <1>3, <1>4, <2>1, <2>3, <2>4, <2>5, Policy
  <2>7. QED
    BY <1>4, <2>1, <2>2, <2>6 DEF RowOK
<1>9. \A f \in Events : Held(f) => Held(f)'
  BY <1>4, <1>6 DEF Held
<1>10. QED
  BY <1>2, <1>5, <1>7, <1>8, <1>9 DEF Inv, HandOK

-----------------------------------------------------------------------------
(***************************************************************************)
(* What is handed out is in nobody's hands: a claim gets stale only after  *)
(* the pass that made it.                                                  *)
(***************************************************************************)
LEMMA CandidatesAreLoose ==
    ASSUME Inv, NEW e \in Candidates
    PROVE  /\ e \in Events /\ ~Held(e) /\ status[e] \in {"pending", "retry", "sending"}
           /\ attempts[e] <= kills + faults /\ attempts[e] <= MaxAttempts + kills
<1>0. Types
  BY DEF Inv
<1>1. e \in Events /\ Claimable(e)
  BY DEF Candidates
<1>2. ASSUME Held(e) PROVE FALSE
  <2>1. PICK c \in Passes : \E i \in Hand(pass[c]) : pass[c].rest[i].event = e
    BY <1>2 DEF Held
  <2>2. PICK i \in Hand(pass[c]) : pass[c].rest[i].event = e
    BY <2>1
  <2>3. pass[c] # Idle
    BY <2>2 DEF Hand
  <2>4. pass[c].spent \in Nat /\ pass[c].spent <= JobLimit
    BY <1>0, <2>3, Batch
  <2>5. status[e] = "sending" /\ age[e] <= pass[c].spent
    BY <2>2 DEF Inv, HandOK, RowOK
  <2>6. age[e] = Stale
    BY <1>1, <2>5 DEF Claimable
  <2>7. QED
    BY <2>4, <2>5, <2>6, Policy
<1>3. status[e] \in {"pending", "retry", "sending"}
  BY <1>1 DEF Claimable
<1>4. LooseOK(status[e], attempts[e], kills, faults)
  BY <1>1, <1>2 DEF Inv
<1>5. QED
  BY <1>1, <1>2, <1>3, <1>4 DEF LooseOK

LEMMA ClaimKeeps ==
    ASSUME Inv, NEW d \in Passes, Claim(d)
    PROVE  Inv'
<1>0. Types
  BY DEF Inv
<1>1. PICK S : S = Candidates
  OBVIOUS
<1>2. S \in SUBSET Events /\ S # {}
  BY <1>1 DEF Candidates, Claim
<1>3. PICK n : n = Cardinality(S)
  OBVIOUS
<1>4. PICK q : q = InOrder(S)
  OBVIOUS
<1>5. /\ n \in Nat
      /\ \A i \in 1..n : q[i] \in S
      /\ \A i, j \in 1..n : q[i] = q[j] => i = j
      /\ \A e \in S : \E i \in 1..n : q[i] = e
  BY <1>2, <1>3, <1>4, InOrderFacts
<1>6. n # 0
  BY <1>2, <1>5
<1>7. PICK rest : rest = [i \in 1..n |-> [event |-> q[i], tries |-> attempts[q[i]] + 1]]
  OBVIOUS
<1>8. PICK r : r = [at |-> "send", spent |-> 0, rest |-> rest]
  OBVIOUS
<1>9. pass' = [pass EXCEPT ![d] = r]
  BY <1>1, <1>3, <1>4, <1>7, <1>8 DEF Claim, Counted
<1>10. /\ status' = [e \in Events |-> IF e \in S THEN "sending" ELSE status[e]]
       /\ attempts' = [e \in Events |-> IF e \in S THEN attempts[e] + 1 ELSE attempts[e]]
       /\ age' = [e \in Events |-> IF e \in S THEN 0 ELSE age[e]]
       /\ UNCHANGED <<delivered, kills, faults>>
  BY <1>1 DEF Claim, Counted
<1>11. pass[d] = Idle /\ Hand(pass[d]) = {}
  BY DEF Claim, Hand
<1>12. \A e \in S : /\ e \in Events /\ ~Held(e) /\ status[e] \in {"pending", "retry", "sending"}
                    /\ attempts[e] <= kills + faults /\ attempts[e] <= MaxAttempts + kills
  BY <1>1, CandidatesAreLoose
<1>13. kills \in Nat /\ kills <= MaxKills /\ faults \in Nat /\ \A e \in Events : attempts[e] \in Nat
  BY <1>0, Policy DEF Types
<1>14. /\ rest \in Seq(Claimed) /\ Len(rest) = n /\ rest # <<>>
       /\ \A i \in 1..n : rest[i].event = q[i] /\ rest[i].tries = attempts[q[i]] + 1
  <2>1. \A i \in 1..n : [event |-> q[i], tries |-> attempts[q[i]] + 1] \in Claimed
    <3>1. ASSUME NEW i \in 1..n
          PROVE  q[i] \in Events /\ attempts[q[i]] + 1 \in 1..(MaxAttempts + MaxKills + 1)
      BY <1>5, <1>12, <1>13, Policy
    <3>2. QED
      BY <3>1 DEF Claimed
  <2>2. rest \in [1..n -> Claimed]
    BY <1>7, <2>1
  <2>3. rest \in Seq(Claimed) /\ Len(rest) = n
    BY <1>5, <2>2
  <2>4. rest # <<>>
    BY <1>6, <2>3
  <2>5. \A i \in 1..n : rest[i].event = q[i] /\ rest[i].tries = attempts[q[i]] + 1
    BY <1>7
  <2>6. QED
    BY <2>3, <2>4, <2>5
<1>15. r \in Running /\ r # Idle /\ Hand(r) = 1..n
  <2>1. r \in Running
    BY <1>8, <1>14, Policy DEF Running
  <2>2. r # Idle
    BY <2>1, RunningIsBusy
  <2>3. QED
    BY <1>8, <1>14, <2>1, <2>2 DEF Hand
<1>16. /\ pass' \in [Passes -> Running \union {Idle}] /\ pass'[d] = r
       /\ \A c \in Passes \ {d} : pass'[c] = pass[c]
  BY <1>0, <1>9, <1>15 DEF Types
<1>17. Types'
  <2>1. status' \in [Events -> Statuses]
    BY <1>0, <1>10 DEF Types, Statuses
  <2>2. attempts' \in [Events -> Nat]
    BY <1>10, <1>13
  <2>3. age' \in [Events -> 0..Stale]
    BY <1>0, <1>10, Policy DEF Types
  <2>4. \A c \in Passes : pass'[c] # Idle => pass'[c].rest # <<>>
    BY <1>0, <1>8, <1>14, <1>16 DEF Types
  <2>5. QED
    BY <1>0, <1>10, <1>16, <2>1, <2>2, <2>3, <2>4 DEF Types
(* The other passes hold none of the rows handed out. *)
<1>18. \A c \in Passes \ {d} : \A i \in Hand(pass[c]) :
           pass[c].rest[i].event \in Events /\ pass[c].rest[i].event \notin S
  <2>1. ASSUME NEW c \in Passes \ {d}, NEW i \in Hand(pass[c])
        PROVE  pass[c].rest[i].event \in Events /\ pass[c].rest[i].event \notin S
    <3>1. pass[c] # Idle
      BY DEF Hand
    <3>2. Held(pass[c].rest[i].event)
      BY DEF Held
    <3>3. QED
      BY <1>0, <1>12, <3>1, <3>2, Batch
  <2>2. QED
    BY <2>1
<1>19. \A i \in Hand(pass'[d]) : i \in 1..n /\ pass'[d].rest[i].event = q[i]
  BY <1>8, <1>14, <1>15, <1>16
<1>20. Apart'
  <2>1. ASSUME NEW b \in Passes, NEW c \in Passes, NEW i \in Hand(pass'[b]), NEW j \in Hand(pass'[c]),
               pass'[b].rest[i].event = pass'[c].rest[j].event
        PROVE  b = c /\ i = j
    <3>1. CASE b = d /\ c = d
      BY <1>5, <1>19, <2>1, <3>1
    <3>2. CASE b = d /\ c # d
      BY <1>5, <1>16, <1>18, <1>19, <2>1, <3>2
    <3>3. CASE b # d /\ c = d
      BY <1>5, <1>16, <1>18, <1>19, <2>1, <3>3
    <3>4. CASE b # d /\ c # d
      BY <1>16, <2>1, <3>4 DEF Inv, Apart
    <3>5. QED
      BY <3>1, <3>2, <3>3, <3>4
  <2>2. QED
    BY <2>1 DEF Apart
<1>21. ASSUME NEW c \in Passes, NEW i \in Hand(pass'[c])
       PROVE  RowOK(pass'[c].rest[i], i = 1 /\ pass'[c].at # "send", pass'[c], status', attempts',
                    age', delivered, kills, faults)
  <2>1. CASE c = d
    <3>1. i \in 1..n /\ q[i] \in S /\ q[i] \in Events
      BY <1>5, <1>12, <1>19, <2>1
    <3>2. /\ pass'[c].rest[i].event = q[i] /\ pass'[c].rest[i].tries = attempts[q[i]] + 1
          /\ pass'[c].at = "send" /\ pass'[c].spent = 0
      BY <1>8, <1>14, <1>16, <2>1, <3>1
    <3>3. status'[q[i]] = "sending" /\ attempts'[q[i]] = attempts[q[i]] + 1 /\ age'[q[i]] = 0
      BY <1>10, <3>1
    <3>4. delivered[q[i]] < attempts[q[i]] + 1
      <4>1. EventOK(status[q[i]], attempts[q[i]], delivered[q[i]], kills, faults)
        BY <3>1 DEF Inv
      <4>2. delivered[q[i]] \in Nat /\ attempts[q[i]] \in Nat
        BY <1>0, <3>1 DEF Types
      <4>3. QED
        BY <4>1, <4>2 DEF EventOK
    <3>5. QED
      BY <3>2, <3>3, <3>4 DEF RowOK
  <2>2. CASE c # d
    <3>1. pass'[c] = pass[c] /\ i \in Hand(pass[c])
      BY <1>16, <2>2
    <3>2. pass[c].rest[i].event \in Events /\ pass[c].rest[i].event \notin S
      BY <1>18, <2>2, <3>1
    <3>3. RowOK(pass[c].rest[i], i = 1 /\ pass[c].at # "send", pass[c], status, attempts, age,
                delivered, kills, faults)
      BY <3>1 DEF Inv, HandOK
    <3>4. QED
      BY <1>10, <3>1, <3>2, <3>3 DEF RowOK
  <2>3. QED
    BY <2>1, <2>2
<1>22. ASSUME NEW f \in Events
       PROVE  /\ EventOK(status'[f], attempts'[f], delivered[f], kills, faults)
              /\ Held(f)' \/ LooseOK(status'[f], attempts'[f], kills, faults)
  <2>1. /\ EventOK(status[f], attempts[f], delivered[f], kills, faults)
        /\ Held(f) \/ LooseOK(status[f], attempts[f], kills, faults)
        /\ delivered[f] \in Nat /\ attempts[f] \in Nat
    BY <1>0 DEF Inv, Types
  <2>2. CASE f \in S
    <3>1. PICK i \in 1..n : q[i] = f
      BY <1>5, <2>2
    <3>2. i \in Hand(pass'[d]) /\ pass'[d].rest[i].event = f
      BY <1>15, <1>16, <1>19, <3>1
    <3>3. Held(f)'
      BY <3>2 DEF Held
    <3>4. status'[f] = "sending" /\ attempts'[f] = attempts[f] + 1
      BY <1>10, <2>2
    <3>5. EventOK(status'[f], attempts'[f], delivered[f], kills, faults)
      BY <1>12, <1>13, <2>1, <2>2, <3>4, Policy DEF EventOK
    <3>6. QED
      BY <3>3, <3>5
  <2>3. CASE f \notin S
    <3>1. status'[f] = status[f] /\ attempts'[f] = attempts[f]
      BY <1>10, <2>3
    <3>2. ASSUME Held(f) PROVE Held(f)'
      <4>1. PICK c \in Passes : \E i \in Hand(pass[c]) : pass[c].rest[i].event = f
        BY <3>2 DEF Held
      <4>2. pass'[c] = pass[c]
        BY <1>11, <1>16, <4>1
      <4>3. QED
        BY <4>1, <4>2 DEF Held
    <3>3. QED
      BY <2>1, <3>1, <3>2
  <2>4. QED
    BY <2>2, <2>3
<1>23. QED
  BY <1>10, <1>17, <1>20, <1>21, <1>22 DEF Inv, HandOK

LEMMA NextKeeps ==
    ASSUME Inv, [Next]_vars
    PROVE  Inv'
<1>1. CASE \E e \in Events : Enqueue(e)
  BY <1>1, EnqueueKeeps
<1>2. CASE \E d \in Passes : Claim(d)
  BY <1>2, ClaimKeeps
<1>3. CASE \E d \in Passes : Work(d)
  BY <1>3, AbandonKeeps, SendKeeps, SendFailsKeeps, MarkSentKeeps, MarkRetryKeeps DEF Work
<1>4. CASE \E d \in Passes : Kill(d)
  BY <1>4, KillKeeps
<1>5. CASE Tick
  BY <1>5, TickKeeps
<1>6. CASE UNCHANGED vars
  BY <1>6 DEF vars, Inv, Types, Apart, HandOK, Held
<1>7. QED
  BY <1>1, <1>2, <1>3, <1>4, <1>5, <1>6 DEF Next

LEMMA Invariant == Spec => []Inv
<1>1. Init => Inv
  BY InvInit
<1>2. Inv /\ [Next]_vars => Inv'
  BY NextKeeps
<1>3. QED
  BY <1>1, <1>2, PTL DEF Spec

-----------------------------------------------------------------------------
(***************************************************************************)
(* RowHasOneHolder.  No interleaving of claims, deaths and the passing of *)
(* time puts a row into the hands of two living passes (claim_due_events,  *)
(* repository.py).                                                         *)
(***************************************************************************)
THEOREM RowHasOneHolder == Spec => []OneHolder
<1>1. ASSUME Inv PROVE OneHolder
  <2>1. ASSUME NEW e \in Events
        PROVE  /\ Cardinality(Holding(e)) <= 1
               /\ Holding(e) # {} => status[e] = "sending" /\ age[e] < Stale
    <3>1. \A d \in Holding(e) : d \in Passes /\ pass[d] # Idle
                                /\ \E i \in Hand(pass[d]) : pass[d].rest[i].event = e
      <4>1. ASSUME NEW d \in Holding(e)
            PROVE  d \in Passes /\ pass[d] # Idle
                   /\ \E i \in Hand(pass[d]) : pass[d].rest[i].event = e
        <5>1. d \in Passes /\ pass[d] # Idle
              /\ \E i \in DOMAIN pass[d].rest : pass[d].rest[i].event = e
          BY DEF Holding
        <5>2. pass[d].rest \in Seq(Claimed)
          BY <1>1, <5>1 DEF Inv, Types, Running
        <5>3. DOMAIN pass[d].rest = Hand(pass[d])
          BY <5>1, <5>2 DEF Hand
        <5>4. QED
          BY <5>1, <5>3
      <4>2. QED
        BY <4>1
    <3>2. \A c, d \in Holding(e) : c = d
      BY <1>1, <3>1 DEF Inv, Apart
    <3>3. CASE Holding(e) = {}
      BY <3>3, FS_EmptySet
    <3>4. CASE Holding(e) # {}
      <4>1. PICK d \in Holding(e) : Holding(e) = {d}
        BY <3>2, <3>4
      <4>2. Cardinality(Holding(e)) = 1
        BY <4>1, FS_Singleton
      <4>3. PICK i \in Hand(pass[d]) : pass[d].rest[i].event = e
        BY <3>1
      <4>4. status[e] = "sending" /\ age[e] <= pass[d].spent
        BY <1>1, <3>1, <4>3 DEF Inv, HandOK, RowOK
      <4>5. pass[d].spent \in Nat /\ pass[d].spent <= JobLimit
        BY <1>1, <3>1, Batch DEF Inv
      <4>6. age[e] \in 0..Stale
        BY <1>1 DEF Inv, Types
      <4>7. QED
        BY <4>2, <4>4, <4>5, <4>6, Policy
    <3>5. QED
      BY <3>3, <3>4
  <2>2. QED
    BY <2>1 DEF OneHolder
<1>2. QED
  BY <1>1, Invariant, PTL

(***************************************************************************)
(* CopiesAreBounded.  Copies of a message beyond the first are paid    *)
(* for by deaths and failed sends, and never exceed max_attempts, because  *)
(* the claim is counted before the message is sent.                        *)
(***************************************************************************)
THEOREM CopiesAreBounded == Spec => []BoundedCopies
<1>1. ASSUME Inv PROVE BoundedCopies
  <2>1. ASSUME NEW e \in Events
        PROVE  /\ delivered[e] <= 1 + kills + faults
               /\ delivered[e] <= MaxAttempts
               /\ status[e] = "sent" => delivered[e] >= 1
    <3>1. EventOK(status[e], attempts[e], delivered[e], kills, faults)
      BY <1>1 DEF Inv
    <3>2. /\ delivered[e] \in Nat /\ attempts[e] \in Nat /\ kills \in Nat /\ faults \in Nat
          /\ MaxAttempts \in Nat
      BY <1>1, Policy DEF Inv, Types
    <3>3. QED
      BY <3>1, <3>2 DEF EventOK
  <2>2. QED
    BY <2>1 DEF BoundedCopies
<1>2. QED
  BY <1>1, Invariant, PTL

(***************************************************************************)
(* GivenUpForCause.  A row is given up only after as many deaths  *)
(* and failed sends as the policy grants attempts.                         *)
(***************************************************************************)
THEOREM GivenUpForCause == Spec => []AbandonedForCause
<1>1. ASSUME Inv PROVE AbandonedForCause
  <2>1. ASSUME NEW e \in Events, status[e] = "abandoned"
        PROVE  kills + faults >= MaxAttempts
    <3>1. EventOK(status[e], attempts[e], delivered[e], kills, faults)
      BY <1>1 DEF Inv
    <3>2. attempts[e] \in Nat /\ kills \in Nat /\ faults \in Nat /\ MaxAttempts \in Nat
      BY <1>1, Policy DEF Inv, Types
    <3>3. QED
      BY <2>1, <3>1, <3>2 DEF EventOK
  <2>2. QED
    BY <2>1 DEF AbandonedForCause
<1>2. QED
  BY <1>1, Invariant, PTL

=============================================================================

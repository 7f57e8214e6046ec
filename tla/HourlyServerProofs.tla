------------------------- MODULE HourlyServerProofs -------------------------
(***************************************************************************)
(* Proofs about UsageBilling and HourlyServer, for any number of servers,  *)
(* executors and commands, lengths of hour, leads, caps and failures.      *)
(*                                                                         *)
(* Billing alone: coverage, ledger and accrual rows agree, a paid hour is  *)
(* never cut short for the next one, and the cap holds while nothing       *)
(* fails.  An hour of a server has one key it can be paid under: the       *)
(* capture of the hold when it is the first, its own accrual key           *)
(* otherwise.  So a job that comes after a dead one cannot pay an hour     *)
(* under a second key, and what the dead one left is found.  The lock      *)
(* makes the job's copy of the row the row itself.                         *)
(*                                                                         *)
(* With the rest of the life-cycle the copy is no longer the row, since    *)
(* everybody saves whole rows.  What is deleted is gone all the same, and  *)
(* what is shown as running has bought its first hour.                     *)
(***************************************************************************)
EXTENDS HourlyServer, FiniteSetTheorems, TLAPS

(* The key under which the hour at t is paid, for a server anchored at a. *)
KeyOf(a, t) == IF t = a THEN Capture ELSE Usage(t)

(* The hours a server anchored at a has up to w. *)
CoveredBy(a, w) ==
    {t \in Times : a # Never /\ a <= t /\ t < w /\ (t - a) % Hour = 0}

(* The hour is settled: recorded under its key, or capped. *)
Settled(a, t, nt, cp) == <<KeyOf(a, t), t>> \in nt \/ t \in cp

(* Coverage begins at the anchor and is a number of whole hours. *)
HoursOK(a, w) == w # Never => a # Never /\ a < w /\ (w - a) % Hour = 0

(***************************************************************************)
(* The books of one server: rows are recorded for keys of the ledger, each *)
(* for the hour of that key; the capture row follows the captured hold;    *)
(* every hour covered is settled; coverage without a capped hour began     *)
(* with the hold.                                                          *)
(***************************************************************************)
BooksOK(a, w, hd, ps, nt, cp) ==
    /\ ps # {} => a # Never
    /\ \A n \in nt : n[1] \in ps /\ n[1] = KeyOf(a, n[2])
    /\ Usage(a) \notin ps
    /\ Capture \in ps => hd = "captured"
    /\ \A t \in CoveredBy(a, w) : Settled(a, t, nt, cp)
    /\ w # Never /\ cp = {} => hd = "captured"

(* The steps at which the job has one server in hand. *)
InHand == {"anchor", "settle", "post", "record", "advance", "unpaid"}

(* What a job listed is still so: nobody else saves these rows. *)
TodoOK(j, rw, t) ==
    j.at # "over" =>
        /\ j.moment <= t /\ j.moment <= j.until /\ j.until <= Horizon + Lead
        /\ \A x \in j.todo : /\ j.copies[x] = rw[x] /\ rw[x].anchor # Never
                             /\ Last(rw[x]) <= j.until

(* The copy in hand is the row, and the hour is the next one of the row. *)
HandOK(j, rw) ==
    /\ j.at \in InHand => j.snap = rw[j.srv] /\ j.srv \notin j.todo
    /\ j.at = "anchor" => j.snap.anchor = Never
    /\ j.at \in InHand \ {"anchor"} =>
           j.snap.anchor # Never /\ j.start = Last(j.snap) /\ j.start <= j.until

(* What was done for the hour at hand. *)
DeedOK(j, hd, ps, nt, cp) ==
    /\ j.at = "post" => j.start = j.snap.anchor /\ hd[j.srv] = "captured"
    /\ j.at = "record" => j.key = KeyOf(j.snap.anchor, j.start) /\ j.key \in ps[j.srv]
    /\ j.at = "advance" =>
           /\ Settled(j.snap.anchor, j.start, nt[j.srv], cp[j.srv])
           /\ cp[j.srv] = {} /\ j.start = j.snap.anchor => hd[j.srv] = "captured"

RowsOK ==
    \A s \in Servers :
        /\ HoursOK(row[s].anchor, row[s].through)
        /\ BooksOK(row[s].anchor, row[s].through, hold[s], posted[s], noted[s], capped[s])

JobOK ==
    job # Idle => /\ TodoOK(job, row, now) /\ HandOK(job, row)
                  /\ DeedOK(job, hold, posted, noted, capped)

(* The inductive invariant. *)
Inv == BillingTypeOK /\ RowsOK /\ JobOK

-----------------------------------------------------------------------------
(* Instants, keys and records. *)

LEMMA TimesFacts ==
    /\ Times \subseteq Nat /\ Times \union {Never} \subseteq Int /\ Never \notin Times /\ Never = -1
    /\ Hour \in Nat \ {0} /\ Horizon \in Nat \ {0} /\ Lead \in Nat /\ Lead < Hour
    /\ \A t \in Int : t \in Times <=> 0 <= t /\ t <= Horizon + 2 * Hour
BY TimeAssumption DEF Times, Never

LEMMA KeysApart ==
    /\ Capture \in Keys
    /\ \A t \in Times : Usage(t) \in Keys
    /\ \A t : Usage(t) # Capture
    /\ \A t, u : Usage(t) = Usage(u) => t = u
<1>1. \A t : Usage(t) # Capture
  BY DEF Usage, Capture
<1>2. \A t, u : Usage(t) = Usage(u) => t = u
  BY DEF Usage
<1>3. QED
  BY <1>1, <1>2 DEF Keys

LEMMA KeyOfHour ==
    ASSUME NEW a, NEW t \in Times PROVE KeyOf(a, t) \in Keys
BY KeysApart DEF KeyOf

(* One key, one hour. *)
LEMMA OneHourPerKey ==
    ASSUME NEW a, NEW t, NEW u, KeyOf(a, t) = KeyOf(a, u)
    PROVE  t = u
BY KeysApart DEF KeyOf

LEMMA RowTypes ==
    ASSUME NEW r \in Row
    PROVE  /\ r.anchor \in Times \union {Never} /\ r.through \in Times \union {Never}
           /\ r.anchor \in Int /\ r.through \in Int
           /\ Last(r) \in Times \union {Never} /\ Last(r) \in Int
           /\ r.anchor # Never => Last(r) \in Times
<1>1. r.anchor \in Times \union {Never} /\ r.through \in Times \union {Never}
  BY DEF Row
<1>2. Last(r) \in Times \union {Never}
  BY <1>1 DEF Last
<1>3. r.anchor # Never => Last(r) \in Times
  BY <1>1 DEF Last
<1>4. QED
  BY <1>1, <1>2, <1>3, TimesFacts

LEMMA JobTypes ==
    ASSUME NEW j \in Job
    PROVE  /\ j.at \in {"next", "anchor", "settle", "post", "record", "advance", "unpaid", "over"}
           /\ j.kind \in {"run", "renew", "ready", "power", "final"}
           /\ j.srv \in Servers /\ j.todo \subseteq Servers /\ j.copies \in [Servers -> Row]
           /\ j.snap \in Row /\ j.moment \in Times /\ j.until \in Times
           /\ j.start \in Times \union {Never} /\ j.key \in Keys /\ j.ok \in BOOLEAN
           /\ j # Idle
BY DEF Job, Idle

LEMMA Ordering == Ordered \in Row
BY DEF Ordered, Row, Active

LEMMA Multiples ==
    ASSUME NEW a \in Nat, NEW b \in Nat \ {0}
    PROVE  a % b = 0 <=> \E k \in Nat : a = k * b
<1>1. ASSUME a % b = 0 PROVE \E k \in Nat : a = k * b
  BY <1>1
<1>2. ASSUME NEW k \in Nat PROVE (k * b) % b = 0
  OBVIOUS
<1>3. QED
  BY <1>1, <1>2

(* The hour after a whole number of hours ends a whole number of hours. *)
LEMMA WholeHours ==
    ASSUME NEW n \in Nat, n % Hour = 0
    PROVE  (n + Hour) % Hour = 0
<1>1. Hour \in Nat \ {0}
  BY TimesFacts
<1>2. PICK k \in Nat : n = k * Hour
  BY <1>1, Multiples
<1>3. (k + 1) * Hour = k * Hour + Hour /\ k + 1 \in Nat
  BY <1>1
<1>4. n + Hour = (k + 1) * Hour /\ n + Hour \in Nat
  BY <1>1, <1>2, <1>3
<1>5. QED
  BY <1>1, <1>3, <1>4, Multiples

(* No hour begins within another. *)
LEMMA HoursApart ==
    ASSUME NEW n \in Nat, NEW m \in Nat, n % Hour = 0, m % Hour = 0, m < n + Hour
    PROVE  m <= n
<1>1. Hour \in Nat \ {0}
  BY TimesFacts
<1>2. PICK j \in Nat : n = j * Hour
  BY <1>1, Multiples
<1>3. PICK k \in Nat : m = k * Hour
  BY <1>1, Multiples
<1>4. CASE k <= j
  <2>1. k * Hour <= j * Hour
    BY <1>1, <1>4
  <2>2. QED
    BY <1>2, <1>3, <2>1
<1>5. CASE j + 1 <= k
  <2>1. (j + 1) * Hour <= k * Hour
    BY <1>1, <1>5
  <2>2. (j + 1) * Hour = j * Hour + Hour
    BY <1>1
  <2>3. QED
    BY <1>1, <1>2, <1>3, <2>1, <2>2
<1>6. QED
  BY <1>4, <1>5

-----------------------------------------------------------------------------
(* What the invariant says, by part. *)

LEMMA TypeParts ==
    ASSUME Inv
    PROVE  /\ now \in 0..Horizon /\ now \in Nat /\ row \in [Servers -> Row]
           /\ hold \in [Servers -> {"created", "captured", "released"}]
           /\ balance \in 0..MaxBalance /\ posted \in [Servers -> SUBSET Keys]
           /\ noted \in [Servers -> SUBSET (Keys \X Times)] /\ capped \in [Servers -> SUBSET Times]
           /\ job \in Job \union {Idle} /\ trouble \in 0..MaxTrouble
BY TimesFacts DEF Inv, BillingTypeOK

LEMMA AtWork ==
    ASSUME Inv, NEW place, At(place), place # "idle"
    PROVE  /\ job \in Job /\ job.at = place /\ job # Idle
           /\ TodoOK(job, row, now) /\ HandOK(job, row) /\ DeedOK(job, hold, posted, noted, capped)
<1>1. job # Idle
  BY DEF At, Idle
<1>2. QED
  BY <1>1, TypeParts DEF At, Inv, JobOK

(* The server a job has in hand, its books and its hour. *)
LEMMA ServerInHand ==
    ASSUME Inv, job \in Job, job.at \in InHand
    PROVE  /\ job.srv \in Servers /\ job.snap = row[job.srv] /\ job.srv \notin job.todo
           /\ job.snap \in Row
           /\ HoursOK(job.snap.anchor, job.snap.through)
           /\ BooksOK(job.snap.anchor, job.snap.through, hold[job.srv], posted[job.srv],
                      noted[job.srv], capped[job.srv])
           /\ job.moment <= now /\ job.moment <= job.until /\ job.until <= Horizon + Lead
           /\ job.at # "anchor" =>
                  /\ job.snap.anchor # Never /\ job.start = Last(job.snap)
                  /\ job.start <= job.until /\ job.start \in Times
                  /\ job.start + Hour \in Times
<1>1. job \in Job /\ job # Idle
  BY JobTypes
<1>2. job.srv \in Servers /\ job.snap \in Row /\ job.until \in Times
  BY <1>1, JobTypes
<1>3. HandOK(job, row) /\ TodoOK(job, row, now)
  BY <1>1 DEF Inv, JobOK
<1>4. /\ job.snap = row[job.srv] /\ job.srv \notin job.todo
      /\ job.at # "anchor" =>
             job.snap.anchor # Never /\ job.start = Last(job.snap) /\ job.start <= job.until
  BY <1>3 DEF HandOK
<1>5. job.moment <= now /\ job.moment <= job.until /\ job.until <= Horizon + Lead
  BY <1>3 DEF TodoOK, InHand
<1>6. /\ HoursOK(job.snap.anchor, job.snap.through)
      /\ BooksOK(job.snap.anchor, job.snap.through, hold[job.srv], posted[job.srv],
                 noted[job.srv], capped[job.srv])
  BY <1>2, <1>4 DEF Inv, RowsOK
<1>7. ASSUME job.at # "anchor" PROVE job.start \in Times /\ job.start + Hour \in Times
  <2>1. job.start \in Times
    BY <1>2, <1>4, <1>7, RowTypes
  <2>2. job.start \in Nat /\ job.until \in Nat /\ job.start <= job.until
    BY <1>2, <1>4, <1>7, <2>1, TimesFacts
  <2>3. job.start + Hour \in Int /\ 0 <= job.start + Hour /\ job.start + Hour <= Horizon + 2 * Hour
    BY <1>5, <2>2, TimesFacts
  <2>4. QED
    BY <2>1, <2>3, TimesFacts
<1>8. QED
  BY <1>2, <1>4, <1>5, <1>6, <1>7

(* The books of one server, taken out and put back. *)
LEMMA BookTypes ==
    ASSUME Inv, NEW s \in Servers
    PROVE  /\ row[s] \in Row /\ row = [row EXCEPT ![s] = row[s]]
           /\ hold[s] \in {"created", "captured", "released"} /\ hold = [hold EXCEPT ![s] = hold[s]]
           /\ posted[s] \in SUBSET Keys /\ posted = [posted EXCEPT ![s] = posted[s]]
           /\ noted[s] \in SUBSET (Keys \X Times) /\ noted = [noted EXCEPT ![s] = noted[s]]
           /\ capped[s] \in SUBSET Times /\ capped = [capped EXCEPT ![s] = capped[s]]
BY TypeParts

-----------------------------------------------------------------------------
(* Frames. *)

(* Only the server in hand is touched, so the list of the job stays true. *)
LEMMA TodoKept ==
    ASSUME NEW j \in Job, NEW n \in Job, NEW rw, NEW rw2, NEW t \in Int, NEW t2 \in Int,
           TodoOK(j, rw, t), j.at # "over", t <= t2,
           n.todo \subseteq j.todo, n.copies = j.copies, n.until = j.until, n.moment = j.moment,
           \A x \in n.todo : rw2[x] = rw[x]
    PROVE  TodoOK(n, rw2, t2)
<1>1. j.moment \in Int
  BY JobTypes, TimesFacts
<1>2. QED
  BY <1>1 DEF TodoOK

(* A step that leaves the rows and the books alone. *)
LEMMA JobAlone ==
    ASSUME Inv, UNCHANGED <<now, row, hold, posted, noted, capped>>,
           balance' \in 0..MaxBalance, trouble' \in 0..MaxTrouble,
           job' \in Job \union {Idle},
           job' # Idle => /\ TodoOK(job', row, now) /\ HandOK(job', row)
                          /\ DeedOK(job', hold, posted, noted, capped)
    PROVE  Inv'
<1>1. BillingTypeOK'
  BY TypeParts DEF BillingTypeOK
<1>2. RowsOK'
  BY DEF Inv, RowsOK
<1>3. QED
  BY <1>1, <1>2 DEF Inv, JobOK

(* A step that changes the books of the server in hand. *)
LEMMA OneServer ==
    ASSUME Inv, NEW s \in Servers, now' = now,
           NEW r \in Row, row' = [row EXCEPT ![s] = r],
           NEW h \in {"created", "captured", "released"}, hold' = [hold EXCEPT ![s] = h],
           NEW ps \in SUBSET Keys, posted' = [posted EXCEPT ![s] = ps],
           NEW nt \in SUBSET (Keys \X Times), noted' = [noted EXCEPT ![s] = nt],
           NEW cp \in SUBSET Times, capped' = [capped EXCEPT ![s] = cp],
           balance' \in 0..MaxBalance, trouble' \in 0..MaxTrouble,
           HoursOK(r.anchor, r.through), BooksOK(r.anchor, r.through, h, ps, nt, cp),
           job' \in Job \union {Idle},
           job' # Idle => /\ TodoOK(job', row', now) /\ HandOK(job', row')
                          /\ DeedOK(job', hold', posted', noted', capped')
    PROVE  Inv'
<1>1. BillingTypeOK'
  BY TypeParts DEF BillingTypeOK
<1>2. ASSUME NEW x \in Servers
      PROVE  /\ HoursOK(row'[x].anchor, row'[x].through)
             /\ BooksOK(row'[x].anchor, row'[x].through, hold'[x], posted'[x], noted'[x], capped'[x])
  <2>1. CASE x = s
    BY <2>1, TypeParts
  <2>2. CASE x # s
    <3>1. /\ row'[x] = row[x] /\ hold'[x] = hold[x] /\ posted'[x] = posted[x]
          /\ noted'[x] = noted[x] /\ capped'[x] = capped[x]
      BY <2>2, TypeParts
    <3>2. QED
      BY <3>1 DEF Inv, RowsOK
  <2>3. QED
    BY <2>1, <2>2
<1>3. RowsOK'
  BY <1>2 DEF RowsOK
<1>4. JobOK'
  BY DEF JobOK
<1>5. QED
  BY <1>1, <1>3, <1>4 DEF Inv

(* The server in hand is done with, whatever came of it. *)
LEMMA OverOK ==
    ASSUME NEW rw, NEW rw2, job \in Job, NEW ok \in BOOLEAN, NEW snap \in Row, ServerOver(ok, snap),
           TodoOK(job, rw, now), now \in Nat, job.at # "over",
           \A x \in job.todo : rw2[x] = rw[x]
    PROVE  /\ job' \in Job \union {Idle}
           /\ job' # Idle => /\ TodoOK(job', rw2, now) /\ HandOK(job', rw2)
                             /\ \A h, p, n, c : DeedOK(job', h, p, n, c)
<1>1. CASE job.kind = "run" /\ job.todo # {}
  <2>1. job' = [job EXCEPT !.at = "next"]
    BY <1>1 DEF ServerOver
  <2>2. PICK n : n = job'
    OBVIOUS
  <2>3. /\ n \in Job /\ n.at = "next" /\ n.todo = job.todo /\ n.copies = job.copies
        /\ n.until = job.until /\ n.moment = job.moment
    BY <2>1, <2>2 DEF Job
  <2>4. TodoOK(n, rw2, now)
    BY <2>3, TodoKept
  <2>5. HandOK(n, rw2) /\ \A h, p, c, d : DeedOK(n, h, p, c, d)
    BY <2>3 DEF HandOK, DeedOK, InHand
  <2>6. QED
    BY <2>2, <2>3, <2>4, <2>5
<1>2. CASE job.kind = "renew" \/ (job.kind = "run" /\ job.todo = {})
  BY <1>2 DEF ServerOver
<1>3. CASE job.kind \notin {"run", "renew"}
  <2>1. job' = [job EXCEPT !.at = "over", !.ok = ok, !.snap = snap,
                           !.moment = 0, !.until = 0, !.start = Never, !.key = Capture]
    BY <1>3 DEF ServerOver
  <2>2. PICK n : n = job'
    OBVIOUS
  <2>3. 0 \in Times
    BY TimesFacts
  <2>4. n \in Job /\ n.at = "over"
    BY <2>1, <2>2, <2>3, KeysApart DEF Job
  <2>5. TodoOK(n, rw2, now) /\ HandOK(n, rw2) /\ \A h, p, c, d : DeedOK(n, h, p, c, d)
    BY <2>4 DEF TodoOK, HandOK, DeedOK, InHand
  <2>6. QED
    BY <2>2, <2>4, <2>5
<1>4. QED
  BY <1>1, <1>2, <1>3, JobTypes

-----------------------------------------------------------------------------
(* The beginnings. *)

LEMMA InitOK == BillingInit => Inv
<1>1. SUFFICES ASSUME BillingInit PROVE Inv
  OBVIOUS
<1>2. Cardinality(Servers) \in Nat /\ MaxBalance \in Nat /\ MaxTrouble \in Nat
  BY MoneyAssumption, FS_CardinalityType
<1>3. balance \in 0..MaxBalance /\ trouble \in 0..MaxTrouble /\ now \in 0..Horizon
  BY <1>1, <1>2, TimesFacts DEF BillingInit
<1>4. BillingTypeOK
  BY <1>1, <1>3, Ordering DEF BillingInit, BillingTypeOK
<1>5. ASSUME NEW s \in Servers
      PROVE  /\ HoursOK(row[s].anchor, row[s].through)
             /\ BooksOK(row[s].anchor, row[s].through, hold[s], posted[s], noted[s], capped[s])
  <2>1. /\ row[s].anchor = Never /\ row[s].through = Never
        /\ posted[s] = {} /\ noted[s] = {} /\ capped[s] = {}
    BY <1>1 DEF BillingInit, Ordered
  <2>2. QED
    BY <2>1 DEF HoursOK, BooksOK, CoveredBy
<1>6. QED
  BY <1>1, <1>4, <1>5 DEF BillingInit, Inv, RowsOK, JobOK

(* A job that begins with the hours of server s due until `until`. *)
LEMMA FreshOK ==
    ASSUME Inv, NEW kind \in {"run", "renew", "ready", "power", "final"}, NEW s \in Servers,
           NEW until \in Times, now <= until, until <= Horizon + Lead
    PROVE  LET j == Fresh(kind, s, row[s], until)
           IN  /\ j \in Job /\ j.at = "settle" /\ j.srv = s /\ j.todo = {} /\ j.snap = row[s]
               /\ j.moment = now /\ j.until = until /\ j.start = Last(row[s])
               /\ TodoOK(j, row, now)
<1>1. PICK j : j = Fresh(kind, s, row[s], until)
  OBVIOUS
<1>2. row[s] \in Row /\ now \in Times /\ now \in Nat
  BY TypeParts, TimesFacts
<1>3. Last(row[s]) \in Times \union {Never}
  BY <1>2, RowTypes
<1>4. /\ j.at = "settle" /\ j.srv = s /\ j.todo = {} /\ j.snap = row[s]
      /\ j.moment = now /\ j.until = until /\ j.start = Last(row[s])
  BY <1>1 DEF Fresh
<1>5. j \in Job
  <2>1. [x \in Servers |-> Ordered] \in [Servers -> Row]
    BY Ordering
  <2>2. QED
    BY <1>1, <1>2, <1>3, <2>1, KeysApart DEF Fresh, Job
<1>6. TodoOK(j, row, now)
  BY <1>2, <1>4 DEF TodoOK
<1>7. QED
  BY <1>1, <1>4, <1>5, <1>6

LEMMA RunBegins ==
    ASSUME Inv, BeginRun
    PROVE  Inv'
<1>1. PICK due : due = {s \in Servers : row[s].state \in Active /\ Due(row[s], now)}
  OBVIOUS
<1>2. PICK s \in due :
          job' = [Fresh("run", s, row[s], now) EXCEPT
                     !.todo = due \ {s},
                     !.copies = [x \in Servers |-> IF x \in due THEN row[x] ELSE Ordered]]
  BY <1>1 DEF BeginRun
<1>3. UNCHANGED <<now, row, hold, balance, posted, noted, capped, trouble>>
  BY DEF BeginRun, moneyVars
<1>4. s \in Servers /\ now \in Times /\ now <= now /\ now <= Horizon + Lead /\ now \in Nat
  BY <1>1, TypeParts, TimesFacts
<1>5. PICK j : j = Fresh("run", s, row[s], now)
  OBVIOUS
<1>6. /\ j \in Job /\ j.at = "settle" /\ j.srv = s /\ j.snap = row[s] /\ j.moment = now
      /\ j.until = now /\ j.start = Last(row[s])
  BY <1>4, <1>5, FreshOK
<1>7. PICK n : n = job'
  OBVIOUS
<1>8. n = [j EXCEPT !.todo = due \ {s},
                    !.copies = [x \in Servers |-> IF x \in due THEN row[x] ELSE Ordered]]
  BY <1>2, <1>5, <1>7
<1>9. /\ n \in Job /\ n.at = "settle" /\ n.srv = s /\ n.snap = row[s] /\ n.moment = now
      /\ n.until = now /\ n.start = Last(row[s]) /\ n.todo = due \ {s}
      /\ n.copies = [x \in Servers |-> IF x \in due THEN row[x] ELSE Ordered]
  <2>1. [x \in Servers |-> IF x \in due THEN row[x] ELSE Ordered] \in [Servers -> Row]
    BY TypeParts, Ordering
  <2>2. due \ {s} \in SUBSET Servers
    BY <1>1
  <2>3. QED
    BY <1>6, <1>8, <2>1, <2>2 DEF Job
<1>10. TodoOK(n, row, now)
  BY <1>1, <1>4, <1>9 DEF TodoOK, Due
<1>11. HandOK(n, row)
  BY <1>1, <1>9 DEF HandOK, Due
<1>12. DeedOK(n, hold, posted, noted, capped)
  BY <1>9 DEF DeedOK
<1>13. QED
  BY <1>3, <1>7, <1>9, <1>10, <1>11, <1>12, TypeParts, JobAlone

LEMMA NextServerKeeps ==
    ASSUME Inv, NextServer
    PROVE  Inv'
<1>1. UNCHANGED <<now, row, hold, balance, posted, noted, capped, trouble>>
  BY DEF NextServer, moneyVars
<1>2. job \in Job /\ job.at = "next" /\ TodoOK(job, row, now)
  BY AtWork DEF NextServer
<1>3. PICK s \in job.todo :
          job' = [job EXCEPT !.at = "settle", !.srv = s, !.todo = @ \ {s},
                             !.snap = job.copies[s], !.start = Last(job.copies[s]), !.key = Capture]
  BY DEF NextServer
<1>4. /\ s \in Servers /\ job.copies[s] = row[s] /\ row[s] \in Row /\ row[s].anchor # Never
      /\ Last(row[s]) <= job.until
  BY <1>2, <1>3, JobTypes, TypeParts DEF TodoOK
<1>5. PICK n : n = job'
  OBVIOUS
<1>6. Last(row[s]) \in Times \union {Never}
  BY <1>4, RowTypes
<1>7. /\ n \in Job /\ n.at = "settle" /\ n.srv = s /\ n.todo = job.todo \ {s} /\ n.snap = row[s]
      /\ n.start = Last(row[s]) /\ n.copies = job.copies /\ n.until = job.until
      /\ n.moment = job.moment
  BY <1>2, <1>3, <1>4, <1>5, <1>6, KeysApart DEF Job
<1>8. TodoOK(n, row, now)
  BY <1>2, <1>7, TypeParts, TodoKept
<1>9. HandOK(n, row) /\ DeedOK(n, hold, posted, noted, capped)
  BY <1>4, <1>7 DEF HandOK, DeedOK
<1>10. QED
  BY <1>1, <1>5, <1>7, <1>8, <1>9, TypeParts, JobAlone

(* prepay_server and the renewal: both re-read the row under the lock. *)
LEMMA PrepayBegins ==
    ASSUME Inv, NEW kind \in {"renew", "ready", "power"}, NEW s \in Servers,
           NEW lead \in {0, Lead}, BeginPrepay(kind, s, lead)
    PROVE  Inv'
<1>1. UNCHANGED <<now, row, hold, balance, posted, noted, capped, trouble>>
  BY DEF BeginPrepay, moneyVars
<1>2. /\ now + lead \in Times /\ now <= now + lead /\ now + lead <= Horizon + Lead /\ now \in Nat
  <2>1. now \in Nat /\ now <= Horizon /\ lead \in Nat /\ lead <= Lead
    BY TypeParts, TimesFacts
  <2>2. 0 <= now + lead /\ now + lead <= Horizon + 2 * Hour /\ now + lead \in Int
    BY <2>1, TimesFacts
  <2>3. QED
    BY <2>1, <2>2, TimesFacts
<1>3. PICK j : j = Fresh(kind, s, row[s], now + lead)
  OBVIOUS
<1>4. /\ j \in Job /\ j.at = "settle" /\ j.srv = s /\ j.todo = {} /\ j.snap = row[s] /\ j.moment = now
      /\ j.until = now + lead /\ j.start = Last(row[s]) /\ TodoOK(j, row, now)
  BY <1>2, <1>3, FreshOK
<1>5. job' = CASE row[s].anchor = Never -> [j EXCEPT !.at = "anchor"]
               [] row[s].anchor # Never /\ Due(row[s], now + lead) -> j
               [] row[s].anchor # Never /\ ~Due(row[s], now + lead) ->
                      [j EXCEPT !.at = "over", !.ok = TRUE, !.moment = 0,
                                !.until = 0, !.start = Never]
  BY <1>3 DEF BeginPrepay
<1>6. PICK n : n = job'
  OBVIOUS
<1>7. CASE row[s].anchor = Never
  <2>1. /\ n \in Job /\ n.at = "anchor" /\ n.srv = s /\ n.todo = {} /\ n.snap = row[s]
        /\ n.copies = j.copies /\ n.until = j.until /\ n.moment = j.moment
    BY <1>4, <1>5, <1>6, <1>7 DEF Job
  <2>2. TodoOK(n, row, now)
    BY <1>2, <1>4, <2>1, TodoKept
  <2>3. HandOK(n, row) /\ DeedOK(n, hold, posted, noted, capped)
    BY <1>7, <2>1 DEF HandOK, DeedOK
  <2>4. QED
    BY <1>1, <1>6, <2>1, <2>2, <2>3, TypeParts, JobAlone
<1>8. CASE row[s].anchor # Never /\ Due(row[s], now + lead)
  <2>1. HandOK(j, row) /\ DeedOK(j, hold, posted, noted, capped)
    BY <1>4, <1>8 DEF HandOK, DeedOK, Due
  <2>2. job' = j
    BY <1>5, <1>8
  <2>3. QED
    BY <1>1, <1>4, <2>1, <2>2, TypeParts, JobAlone
<1>9. CASE row[s].anchor # Never /\ ~Due(row[s], now + lead)
  <2>0. n = [j EXCEPT !.at = "over", !.ok = TRUE, !.moment = 0, !.until = 0, !.start = Never]
    BY <1>5, <1>6, <1>9
  <2>a. 0 \in Times /\ Never \in Times \union {Never}
    BY TimesFacts
  <2>1. n \in Job /\ n.at = "over"
    BY <1>4, <2>0, <2>a DEF Job
  <2>2. TodoOK(n, row, now) /\ HandOK(n, row) /\ DeedOK(n, hold, posted, noted, capped)
    BY <2>1 DEF TodoOK, HandOK, DeedOK, InHand
  <2>3. QED
    BY <1>1, <1>6, <2>1, <2>2, TypeParts, JobAlone
<1>10. QED
  BY <1>7, <1>8, <1>9

-----------------------------------------------------------------------------
(* The steps of a job. *)

(* The job stays with its server and moves to another step. *)
Moves(place, key) ==
    \/ job' = [job EXCEPT !.at = place, !.key = key]
    \/ job' = [job EXCEPT !.at = place] /\ key = job.key

Carries ==
    /\ job' \in Job
    /\ job'.srv = job.srv /\ job'.todo = job.todo /\ job'.copies = job.copies
    /\ job'.snap = job.snap /\ job'.moment = job.moment /\ job'.until = job.until
    /\ job'.start = job.start

LEMMA StepTo ==
    ASSUME job \in Job, NEW place \in {"post", "record", "advance", "unpaid"}, NEW key \in Keys,
           Moves(place, key)
    PROVE  Carries /\ job'.at = place /\ job'.key = key
BY DEF Job, Moves, Carries

(* The books of the others stay as they are. *)
OthersStay ==
    \A x \in Servers \ {job.srv} : /\ hold'[x] = hold[x] /\ posted'[x] = posted[x]
                                   /\ noted'[x] = noted[x] /\ capped'[x] = capped[x]

(* Once the books are right and the deed of the new step known, the rest follows. *)
LEMMA StepKeeps ==
    ASSUME Inv, job \in Job, job.at \in {"settle", "post", "record"},
           Carries, job'.at \in {"post", "record", "advance", "unpaid"},
           now' = now, row' = row, trouble' = trouble, BillingTypeOK', OthersStay,
           BooksOK(job.snap.anchor, job.snap.through, hold'[job.srv], posted'[job.srv],
                   noted'[job.srv], capped'[job.srv]),
           DeedOK(job', hold', posted', noted', capped')
    PROVE  Inv'
<1>1. /\ job.srv \in Servers /\ job.snap = row[job.srv]
      /\ job.snap.anchor # Never /\ job.start = Last(job.snap) /\ job.start <= job.until
      /\ job.srv \notin job.todo
  BY ServerInHand DEF InHand
<1>2. ASSUME NEW x \in Servers
      PROVE  /\ HoursOK(row'[x].anchor, row'[x].through)
             /\ BooksOK(row'[x].anchor, row'[x].through, hold'[x], posted'[x], noted'[x], capped'[x])
  <2>1. CASE x = job.srv
    BY <1>1, <2>1 DEF Inv, RowsOK
  <2>2. CASE x # job.srv
    BY <2>2 DEF Inv, RowsOK, OthersStay
  <2>3. QED
    BY <2>1, <2>2
<1>3. TodoOK(job, row, now)
  BY JobTypes DEF Inv, JobOK
<1>4. TodoOK(job', row', now')
  BY <1>3, TypeParts, TodoKept DEF Carries
<1>5. HandOK(job', row')
  BY <1>1 DEF HandOK, Carries
<1>6. QED
  BY <1>2, <1>4, <1>5 DEF Inv, RowsOK, JobOK

LEMMA AnchorKeeps ==
    ASSUME Inv, Anchor
    PROVE  Inv'
<1>1. UNCHANGED <<now, hold, balance, posted, noted, capped, trouble>>
  BY DEF Anchor, moneyVars
<1>2. job \in Job /\ job.at = "anchor" /\ TodoOK(job, row, now) /\ HandOK(job, row)
  BY AtWork DEF Anchor
<1>3. PICK s : s = job.srv
  OBVIOUS
<1>4. /\ s \in Servers /\ job.snap = row[s] /\ s \notin job.todo /\ job.snap \in Row
      /\ HoursOK(job.snap.anchor, job.snap.through)
      /\ BooksOK(job.snap.anchor, job.snap.through, hold[s], posted[s], noted[s], capped[s])
      /\ job.moment <= job.until
  BY <1>2, <1>3, ServerInHand DEF InHand
<1>5. job.snap.anchor = Never /\ job.snap.through = Never
  BY <1>2, <1>4 DEF HandOK, HoursOK
<1>6. posted[s] = {} /\ noted[s] = {}
  BY <1>4, <1>5, TypeParts DEF BooksOK
<1>7. PICK r : r = [job.snap EXCEPT !.anchor = job.moment]
  OBVIOUS
<1>8. job.moment \in Times /\ job.moment # Never
  BY <1>2, JobTypes, TimesFacts
<1>9. r \in Row /\ r.anchor = job.moment /\ r.through = Never
  BY <1>4, <1>5, <1>7, <1>8 DEF Row
<1>10. row' = [row EXCEPT ![s] = r]
  BY <1>3, <1>7 DEF Anchor, SaveRow
<1>11. HoursOK(r.anchor, r.through)
  BY <1>9 DEF HoursOK
<1>12. BooksOK(r.anchor, r.through, hold[s], posted[s], noted[s], capped[s])
  <2>1. \A t \in CoveredBy(r.anchor, r.through) : FALSE
    <3>1. \A t \in Times : ~(t < Never)
      BY TimesFacts
    <3>2. QED
      BY <1>9, <3>1 DEF CoveredBy
  <2>2. QED
    BY <1>6, <1>9, <2>1 DEF BooksOK
<1>13. PICK n : n = job'
  OBVIOUS
<1>14. n = [job EXCEPT !.at = "settle", !.start = job.moment, !.snap = r]
  BY <1>2, <1>7, <1>13 DEF Anchor, Job
<1>15. /\ n \in Job /\ n.at = "settle" /\ n.start = job.moment /\ n.snap = r /\ n.srv = s
       /\ n.todo = job.todo /\ n.copies = job.copies /\ n.until = job.until
       /\ n.moment = job.moment
  BY <1>2, <1>3, <1>8, <1>9, <1>14 DEF Job
<1>16. row'[s] = r /\ \A x \in n.todo : row'[x] = row[x]
  BY <1>2, <1>4, <1>10, <1>15, JobTypes, TypeParts
<1>17. TodoOK(n, row', now)
  BY <1>2, <1>15, <1>16, TypeParts, TodoKept
<1>18. HandOK(n, row')
  BY <1>4, <1>8, <1>9, <1>15, <1>16 DEF HandOK, Last
<1>19. DeedOK(n, hold', posted', noted', capped')
  BY <1>15 DEF DeedOK
<1>20. PICK h, ps, nt, cp : h = hold[s] /\ ps = posted[s] /\ nt = noted[s] /\ cp = capped[s]
  OBVIOUS
<1>21. /\ h \in {"created", "captured", "released"} /\ hold' = [hold EXCEPT ![s] = h]
       /\ ps \in SUBSET Keys /\ posted' = [posted EXCEPT ![s] = ps]
       /\ nt \in SUBSET (Keys \X Times) /\ noted' = [noted EXCEPT ![s] = nt]
       /\ cp \in SUBSET Times /\ capped' = [capped EXCEPT ![s] = cp]
       /\ balance' \in 0..MaxBalance /\ trouble' \in 0..MaxTrouble
  BY <1>1, <1>4, <1>20, BookTypes, TypeParts
<1>22. BooksOK(r.anchor, r.through, h, ps, nt, cp)
  BY <1>12, <1>20
<1>23. job' \in Job \union {Idle} /\ now' = now
  BY <1>1, <1>13, <1>15
<1>24. TodoOK(job', row', now) /\ HandOK(job', row') /\ DeedOK(job', hold', posted', noted', capped')
  BY <1>13, <1>17, <1>18, <1>19
<1>25. QED
  BY <1>4, <1>9, <1>10, <1>11, <1>21, <1>22, <1>23, <1>24, OneServer

(* An hour found in the ledger is found under its one key. *)
LEMMA FoundIsKey ==
    ASSUME Inv, At("settle"), NEW key \in Found
    PROVE  key = KeyOf(job.snap.anchor, job.start) /\ key \in posted[job.srv]
<1>1. job \in Job /\ job.at = "settle"
  BY AtWork
<1>2. BooksOK(job.snap.anchor, job.snap.through, hold[job.srv], posted[job.srv],
              noted[job.srv], capped[job.srv])
  BY <1>1, ServerInHand DEF InHand
<1>3. key \in posted[job.srv] /\ (key = Usage(job.start) \/ (First /\ key = Capture))
  BY DEF Found, CandidateKeys
<1>4. Usage(job.snap.anchor) \notin posted[job.srv]
  BY <1>2 DEF BooksOK
<1>5. QED
  BY <1>3, <1>4 DEF KeyOf, First

(* A job that gives up on the server it has in hand. *)
LEMMA FailedKeeps ==
    ASSUME Inv, job \in Job, job.at # "over", Failed,
           UNCHANGED <<now, row, hold, posted, noted, capped>>,
           balance' \in 0..MaxBalance, trouble' \in 0..MaxTrouble
    PROVE  Inv'
<1>1. TodoOK(job, row, now) /\ job.snap \in Row /\ FALSE \in BOOLEAN
  BY JobTypes DEF Inv, JobOK
<1>2. ServerOver(FALSE, job.snap)
  BY DEF Failed
<1>3. \A x \in job.todo : row[x] = row[x]
  OBVIOUS
<1>4. /\ job' \in Job \union {Idle}
      /\ job' # Idle => /\ TodoOK(job', row, now) /\ HandOK(job', row)
                        /\ DeedOK(job', hold, posted, noted, capped)
  BY <1>1, <1>2, TypeParts, OverOK
<1>5. QED
  BY <1>4, JobAlone

LEMMA ReplayKeeps ==
    ASSUME Inv, Replay
    PROVE  Inv'
<1>1. UNCHANGED <<now, row, hold, balance, posted, noted, capped, trouble>>
  BY DEF Replay, moneyVars
<1>2. job \in Job /\ job.at = "settle" /\ job.srv \in Servers
  BY AtWork, JobTypes DEF Replay
<1>3. CASE \E key \in Found : job' = [job EXCEPT !.at = "record", !.key = key]
  <2>1. PICK key \in Found : job' = [job EXCEPT !.at = "record", !.key = key]
    BY <1>3
  <2>2. key = KeyOf(job.snap.anchor, job.start) /\ key \in posted[job.srv] /\ key \in Keys
    BY <1>2, FoundIsKey, TypeParts DEF Replay
  <2>3. Carries /\ job'.at = "record" /\ job'.key = key
    BY <1>2, <2>1, <2>2, StepTo DEF Moves
  <2>4. BillingTypeOK' /\ OthersStay
    <3>1. job' \in Job
      BY <2>3 DEF Carries
    <3>2. QED
      BY <1>1, <3>1, TypeParts DEF BillingTypeOK, OthersStay
  <2>5. BooksOK(job.snap.anchor, job.snap.through, hold'[job.srv], posted'[job.srv],
                noted'[job.srv], capped'[job.srv])
    BY <1>1, <1>2, ServerInHand DEF InHand
  <2>6. DeedOK(job', hold', posted', noted', capped')
    BY <1>1, <2>2, <2>3 DEF DeedOK, Carries
  <2>7. QED
    BY <1>1, <1>2, <2>3, <2>4, <2>5, <2>6, StepKeeps
<1>4. CASE Failed
  BY <1>1, <1>2, <1>4, FailedKeeps, TypeParts
<1>5. QED
  BY <1>3, <1>4 DEF Replay

(* Books stay right when rows are added to them. *)
LEMMA BooksGrow ==
    ASSUME NEW a, NEW w, NEW hd, NEW hd2, NEW ps, NEW ps2, NEW nt, NEW cp, NEW cp2,
           a # Never, BooksOK(a, w, hd, ps, nt, cp),
           ps \subseteq ps2, cp \subseteq cp2, Usage(a) \notin ps2,
           Capture \in ps2 => hd2 = "captured",
           w # Never /\ cp2 = {} => hd2 = "captured"
    PROVE  BooksOK(a, w, hd2, ps2, nt, cp2)
BY DEF BooksOK, Settled

LEMMA SkipKeeps ==
    ASSUME Inv, Skip
    PROVE  Inv'
<1>1. UNCHANGED <<now, row, balance, posted, noted, trouble>>
  BY DEF Skip
<1>2. job \in Job /\ job.at = "settle" /\ job.srv \in Servers
  BY AtWork, JobTypes DEF Skip
<1>3. /\ job.snap.anchor # Never /\ job.start \in Times
      /\ BooksOK(job.snap.anchor, job.snap.through, hold[job.srv], posted[job.srv],
                 noted[job.srv], capped[job.srv])
  BY <1>2, ServerInHand DEF InHand
<1>4. job.key \in Keys
  BY <1>2, JobTypes
<1>5. CASE First /\ hold[job.srv] = "captured"
  <2>1. job' = [job EXCEPT !.at = "post"] /\ UNCHANGED <<hold, capped>>
    BY <1>5 DEF Skip, Goto
  <2>2. Carries /\ job'.at = "post"
    BY <1>2, <1>4, <2>1, StepTo DEF Moves
  <2>3. BillingTypeOK' /\ OthersStay
    <3>1. job' \in Job
      BY <2>2 DEF Carries
    <3>2. QED
      BY <1>1, <2>1, <3>1, TypeParts DEF BillingTypeOK, OthersStay
  <2>4. DeedOK(job', hold', posted', noted', capped')
    BY <1>1, <1>5, <2>1, <2>2 DEF DeedOK, Carries, First
  <2>5. QED
    BY <1>1, <1>2, <1>3, <2>1, <2>2, <2>3, <2>4, StepKeeps
<1>6. CASE ~(First /\ hold[job.srv] = "captured")
  <2>1. /\ job' = [job EXCEPT !.at = "advance"]
        /\ hold' = IF First /\ hold[job.srv] = "created"
                   THEN [hold EXCEPT ![job.srv] = "released"] ELSE hold
        /\ capped' = [capped EXCEPT ![job.srv] = @ \union {job.start}]
    BY <1>6 DEF Skip, Goto
  <2>2. Carries /\ job'.at = "advance"
    BY <1>2, <1>4, <2>1, StepTo DEF Moves
  <2>3. /\ hold' \in [Servers -> {"created", "captured", "released"}]
        /\ capped' \in [Servers -> SUBSET Times]
        /\ capped'[job.srv] = capped[job.srv] \union {job.start}
        /\ hold[job.srv] # "created" => hold'[job.srv] = hold[job.srv]
        /\ \A x \in Servers \ {job.srv} : hold'[x] = hold[x] /\ capped'[x] = capped[x]
    BY <1>2, <1>3, <2>1, TypeParts
  <2>4. BillingTypeOK' /\ OthersStay
    <3>1. job' \in Job
      BY <2>2 DEF Carries
    <3>2. QED
      BY <1>1, <2>3, <3>1, TypeParts DEF BillingTypeOK, OthersStay
  <2>5. BooksOK(job.snap.anchor, job.snap.through, hold'[job.srv], posted'[job.srv],
                noted'[job.srv], capped'[job.srv])
    <3>1. posted'[job.srv] = posted[job.srv] /\ noted'[job.srv] = noted[job.srv]
      BY <1>1
    <3>2. Usage(job.snap.anchor) \notin posted[job.srv]
      BY <1>3 DEF BooksOK
    <3>3. Capture \in posted[job.srv] => hold'[job.srv] = "captured"
      BY <1>3, <2>3 DEF BooksOK
    <3>4. capped'[job.srv] # {}
      BY <2>3
    <3>5. QED
      BY <1>3, <2>3, <3>1, <3>2, <3>3, <3>4, BooksGrow
  <2>6. DeedOK(job', hold', posted', noted', capped')
    BY <2>2, <2>3 DEF DeedOK, Carries, Settled
  <2>7. QED
    BY <1>1, <1>2, <2>2, <2>4, <2>5, <2>6, StepKeeps
<1>7. QED
  BY <1>5, <1>6

LEMMA CaptureHoldKeeps ==
    ASSUME Inv, CaptureHold
    PROVE  Inv'
<1>1. UNCHANGED <<now, row, posted, noted, capped, trouble>> /\ First
  BY DEF CaptureHold, ByHold
<1>2. job \in Job /\ job.at = "settle" /\ job.srv \in Servers
  BY AtWork, JobTypes DEF CaptureHold
<1>3. /\ job.snap.anchor # Never
      /\ BooksOK(job.snap.anchor, job.snap.through, hold[job.srv], posted[job.srv],
                 noted[job.srv], capped[job.srv])
  BY <1>2, ServerInHand DEF InHand
<1>4. job.key \in Keys
  BY <1>2, JobTypes
<1>5. CASE hold[job.srv] = "created" /\ ~Affordable
  <2>1. job' = [job EXCEPT !.at = "unpaid"] /\ UNCHANGED <<hold, balance>>
    BY <1>5 DEF CaptureHold, Goto
  <2>2. Carries /\ job'.at = "unpaid"
    BY <1>2, <1>4, <2>1, StepTo DEF Moves
  <2>3. BillingTypeOK' /\ OthersStay
    <3>1. job' \in Job
      BY <2>2 DEF Carries
    <3>2. QED
      BY <1>1, <2>1, <3>1, TypeParts DEF BillingTypeOK, OthersStay
  <2>4. DeedOK(job', hold', posted', noted', capped')
    BY <2>2 DEF DeedOK
  <2>5. QED
    BY <1>1, <1>2, <1>3, <2>1, <2>2, <2>3, <2>4, StepKeeps
<1>6. CASE ~(hold[job.srv] = "created" /\ ~Affordable)
  <2>1. /\ job' = [job EXCEPT !.at = "post"]
        /\ hold' = [hold EXCEPT ![job.srv] = "captured"]
        /\ balance' = IF hold[job.srv] = "created" THEN balance - 1 ELSE balance
    BY <1>6 DEF CaptureHold, Goto
  <2>2. Carries /\ job'.at = "post"
    BY <1>2, <1>4, <2>1, StepTo DEF Moves
  <2>3. /\ hold' \in [Servers -> {"created", "captured", "released"}]
        /\ hold'[job.srv] = "captured" /\ \A x \in Servers \ {job.srv} : hold'[x] = hold[x]
        /\ balance' \in 0..MaxBalance
    BY <1>2, <1>6, <2>1, TypeParts, MoneyAssumption DEF Affordable
  <2>4. BillingTypeOK' /\ OthersStay
    <3>1. job' \in Job
      BY <2>2 DEF Carries
    <3>2. QED
      BY <1>1, <2>3, <3>1, TypeParts DEF BillingTypeOK, OthersStay
  <2>5. BooksOK(job.snap.anchor, job.snap.through, hold'[job.srv], posted'[job.srv],
                noted'[job.srv], capped'[job.srv])
    BY <1>1, <1>3, <2>3 DEF BooksOK
  <2>6. DeedOK(job', hold', posted', noted', capped')
    BY <1>1, <2>2, <2>3 DEF DeedOK, Carries, First
  <2>7. QED
    BY <1>1, <1>2, <2>2, <2>4, <2>5, <2>6, StepKeeps
<1>7. QED
  BY <1>5, <1>6

LEMMA PostKeeps ==
    ASSUME Inv, Post
    PROVE  Inv'
<1>1. UNCHANGED <<now, row, hold, balance, noted, capped, trouble>>
  BY DEF Post
<1>2. /\ job \in Job /\ job.at = "post" /\ job.srv \in Servers
      /\ job.start = job.snap.anchor /\ hold[job.srv] = "captured"
  BY AtWork, JobTypes DEF Post, DeedOK
<1>3. /\ job.snap.anchor # Never
      /\ BooksOK(job.snap.anchor, job.snap.through, hold[job.srv], posted[job.srv],
                 noted[job.srv], capped[job.srv])
  BY <1>2, ServerInHand DEF InHand
<1>4. /\ job' = [job EXCEPT !.at = "record", !.key = Capture]
      /\ posted' = [posted EXCEPT ![job.srv] = @ \union {Capture}]
  BY DEF Post
<1>5. Carries /\ job'.at = "record" /\ job'.key = Capture
  BY <1>2, <1>4, KeysApart, StepTo DEF Moves
<1>6. /\ posted' \in [Servers -> SUBSET Keys]
      /\ posted'[job.srv] = posted[job.srv] \union {Capture}
      /\ \A x \in Servers \ {job.srv} : posted'[x] = posted[x]
  BY <1>2, <1>4, TypeParts, KeysApart
<1>7. BillingTypeOK' /\ OthersStay
  <2>1. job' \in Job
    BY <1>5 DEF Carries
  <2>2. QED
    BY <1>1, <1>6, <2>1, TypeParts DEF BillingTypeOK, OthersStay
<1>8. BooksOK(job.snap.anchor, job.snap.through, hold'[job.srv], posted'[job.srv],
              noted'[job.srv], capped'[job.srv])
  <2>1. Usage(job.snap.anchor) \notin posted'[job.srv]
    BY <1>3, <1>6, KeysApart DEF BooksOK
  <2>2. /\ hold'[job.srv] = "captured" /\ noted'[job.srv] = noted[job.srv]
        /\ capped'[job.srv] = capped[job.srv]
    BY <1>1, <1>2
  <2>3. QED
    BY <1>3, <1>6, <2>1, <2>2, BooksGrow
<1>9. DeedOK(job', hold', posted', noted', capped')
  BY <1>2, <1>5, <1>6 DEF DeedOK, Carries, KeyOf
<1>10. QED
  BY <1>1, <1>2, <1>5, <1>7, <1>8, <1>9, StepKeeps

LEMMA DebitKeeps ==
    ASSUME Inv, Debit
    PROVE  Inv'
<1>1. UNCHANGED <<now, row, hold, noted, capped, trouble>>
  BY DEF Debit
<1>2. job \in Job /\ job.at = "settle" /\ job.srv \in Servers
  BY AtWork, JobTypes DEF Debit
<1>3. /\ job.snap.anchor # Never /\ job.start \in Times
      /\ BooksOK(job.snap.anchor, job.snap.through, hold[job.srv], posted[job.srv],
                 noted[job.srv], capped[job.srv])
  BY <1>2, ServerInHand DEF InHand
<1>4. CASE First
  <2>1. Failed /\ UNCHANGED <<balance, posted>>
    BY <1>4 DEF Debit
  <2>2. QED
    BY <1>1, <1>2, <2>1, FailedKeeps, TypeParts
<1>5. CASE ~First /\ ~Affordable
  <2>1. job' = [job EXCEPT !.at = "unpaid"] /\ UNCHANGED <<posted, balance>>
    BY <1>5 DEF Debit, Goto
  <2>2. Carries /\ job'.at = "unpaid"
    BY <1>2, <2>1, JobTypes, StepTo DEF Moves
  <2>3. BillingTypeOK' /\ OthersStay
    <3>1. job' \in Job
      BY <2>2 DEF Carries
    <3>2. QED
      BY <1>1, <2>1, <3>1, TypeParts DEF BillingTypeOK, OthersStay
  <2>4. DeedOK(job', hold', posted', noted', capped')
    BY <2>2 DEF DeedOK
  <2>5. QED
    BY <1>1, <1>2, <1>3, <2>1, <2>2, <2>3, <2>4, StepKeeps
<1>6. CASE ~First /\ Affordable
  <2>1. /\ job' = [job EXCEPT !.at = "record", !.key = Usage(job.start)]
        /\ balance' = balance - 1
        /\ posted' = [posted EXCEPT ![job.srv] = @ \union {Usage(job.start)}]
    BY <1>6 DEF Debit
  <2>2. Usage(job.start) \in Keys
    BY <1>3, KeysApart
  <2>3. Carries /\ job'.at = "record" /\ job'.key = Usage(job.start)
    BY <1>2, <2>1, <2>2, StepTo DEF Moves
  <2>4. /\ posted' \in [Servers -> SUBSET Keys]
        /\ posted'[job.srv] = posted[job.srv] \union {Usage(job.start)}
        /\ \A x \in Servers \ {job.srv} : posted'[x] = posted[x]
        /\ balance' \in 0..MaxBalance
    BY <1>2, <1>6, <2>1, <2>2, TypeParts, MoneyAssumption DEF Affordable
  <2>5. BillingTypeOK' /\ OthersStay
    <3>1. job' \in Job
      BY <2>3 DEF Carries
    <3>2. QED
      BY <1>1, <2>4, <3>1, TypeParts DEF BillingTypeOK, OthersStay
  <2>6. BooksOK(job.snap.anchor, job.snap.through, hold'[job.srv], posted'[job.srv],
                noted'[job.srv], capped'[job.srv])
    <3>1. Usage(job.snap.anchor) \notin posted'[job.srv]
      BY <1>3, <1>6, <2>4, KeysApart DEF BooksOK, First
    <3>2. Capture \in posted'[job.srv] => hold[job.srv] = "captured"
      BY <1>3, <2>4, KeysApart DEF BooksOK
    <3>3. job.snap.through # Never /\ capped[job.srv] = {} => hold[job.srv] = "captured"
      BY <1>3 DEF BooksOK
    <3>4. /\ hold'[job.srv] = hold[job.srv] /\ noted'[job.srv] = noted[job.srv]
          /\ capped'[job.srv] = capped[job.srv]
      BY <1>1
    <3>5. QED
      BY <1>3, <2>4, <3>1, <3>2, <3>3, <3>4, BooksGrow
  <2>7. DeedOK(job', hold', posted', noted', capped')
    BY <1>6, <2>3, <2>4 DEF DeedOK, Carries, KeyOf, First
  <2>8. QED
    BY <1>1, <1>2, <2>3, <2>5, <2>6, <2>7, StepKeeps
<1>7. QED
  BY <1>4, <1>5, <1>6

LEMMA RecordKeeps ==
    ASSUME Inv, Record
    PROVE  Inv'
<1>1. UNCHANGED <<now, row, hold, balance, posted, capped, trouble>>
  BY DEF Record
<1>2. /\ job \in Job /\ job.at = "record" /\ job.srv \in Servers
      /\ job.key = KeyOf(job.snap.anchor, job.start) /\ job.key \in posted[job.srv]
  BY AtWork, JobTypes DEF Record, DeedOK
<1>3. /\ job.snap.anchor # Never /\ job.start \in Times /\ job.start = Last(job.snap)
      /\ BooksOK(job.snap.anchor, job.snap.through, hold[job.srv], posted[job.srv],
                 noted[job.srv], capped[job.srv])
  BY <1>2, ServerInHand DEF InHand
<1>4. CASE Failed /\ UNCHANGED noted
  BY <1>1, <1>2, <1>4, FailedKeeps, TypeParts
<1>5. CASE /\ noted' = [noted EXCEPT ![job.srv] = @ \union {<<job.key, job.start>>}]
           /\ Goto("advance")
  <2>1. job.key \in Keys
    BY <1>2, JobTypes
  <2>2. Carries /\ job'.at = "advance"
    BY <1>2, <1>5, <2>1, StepTo DEF Moves, Goto
  <2>3. /\ noted' \in [Servers -> SUBSET (Keys \X Times)]
        /\ noted'[job.srv] = noted[job.srv] \union {<<job.key, job.start>>}
        /\ \A x \in Servers \ {job.srv} : noted'[x] = noted[x]
    <3>1. <<job.key, job.start>> \in Keys \X Times
      BY <1>3, <2>1
    <3>2. QED
      BY <1>2, <1>5, <3>1, TypeParts
  <2>4. BillingTypeOK' /\ OthersStay
    <3>1. job' \in Job
      BY <2>2 DEF Carries
    <3>2. QED
      BY <1>1, <2>3, <3>1, TypeParts DEF BillingTypeOK, OthersStay
  <2>5. BooksOK(job.snap.anchor, job.snap.through, hold'[job.srv], posted'[job.srv],
                noted'[job.srv], capped'[job.srv])
    <3>1. \A n \in noted'[job.srv] :
              n[1] \in posted[job.srv] /\ n[1] = KeyOf(job.snap.anchor, n[2])
      BY <1>2, <1>3, <2>3 DEF BooksOK
    <3>2. \A t \in CoveredBy(job.snap.anchor, job.snap.through) :
              Settled(job.snap.anchor, t, noted'[job.srv], capped[job.srv])
      BY <1>3, <2>3 DEF BooksOK, Settled
    <3>3. QED
      BY <1>1, <1>3, <3>1, <3>2 DEF BooksOK
  <2>6. DeedOK(job', hold', posted', noted', capped')
    <3>1. Settled(job.snap.anchor, job.start, noted'[job.srv], capped[job.srv])
      BY <1>2, <2>3 DEF Settled
    <3>2. capped[job.srv] = {} /\ job.start = job.snap.anchor => hold[job.srv] = "captured"
      BY <1>2, <1>3 DEF BooksOK, KeyOf
    <3>3. QED
      BY <1>1, <2>2, <3>1, <3>2 DEF DeedOK, Carries
  <2>7. QED
    BY <1>1, <1>2, <2>2, <2>4, <2>5, <2>6, StepKeeps
<1>6. QED
  BY <1>4, <1>5 DEF Record


(* One more settled hour: the books hold for a coverage that ends an hour later. *)
LEMMA HourAdded ==
    ASSUME NEW r \in Row, r.anchor # Never, HoursOK(r.anchor, r.through), Last(r) + Hour \in Times,
           NEW hd, NEW ps, NEW nt, NEW cp, BooksOK(r.anchor, r.through, hd, ps, nt, cp),
           Settled(r.anchor, Last(r), nt, cp),
           cp = {} /\ Last(r) = r.anchor => hd = "captured"
    PROVE  /\ HoursOK(r.anchor, Last(r) + Hour)
           /\ BooksOK(r.anchor, Last(r) + Hour, hd, ps, nt, cp)
           /\ r.through <= Last(r) + Hour
<1>1. /\ r.anchor \in Nat /\ r.through \in Int /\ Last(r) \in Nat /\ Hour \in Nat \ {0}
      /\ Last(r) \in Times /\ Times \subseteq Nat /\ Never = -1
  BY RowTypes, TimesFacts
<1>2. r.through = Never => Last(r) = r.anchor
  BY DEF Last
<1>3. r.through # Never => Last(r) = r.through
  BY DEF Last
<1>4. /\ r.anchor <= Last(r) /\ Last(r) - r.anchor \in Nat
      /\ (Last(r) - r.anchor) % Hour = 0
  <2>1. CASE r.through = Never
    <3>1. Last(r) - r.anchor = 0 /\ 0 % Hour = 0
      BY <1>1, <1>2, <2>1
    <3>2. QED
      BY <1>1, <1>2, <2>1, <3>1
  <2>2. CASE r.through # Never
    BY <1>1, <1>3, <2>2 DEF HoursOK
  <2>3. QED
    BY <2>1, <2>2
<1>5. HoursOK(r.anchor, Last(r) + Hour)
  <2>1. PICK n \in Nat : n = Last(r) - r.anchor
    BY <1>4
  <2>2. (n + Hour) % Hour = 0
    BY <1>4, <2>1, WholeHours
  <2>3. n + Hour = (Last(r) + Hour) - r.anchor
    BY <1>1, <2>1
  <2>4. ((Last(r) + Hour) - r.anchor) % Hour = 0
    BY <2>2, <2>3
  <2>5. r.anchor < Last(r) + Hour
    BY <1>1, <1>4
  <2>6. QED
    BY <2>4, <2>5 DEF HoursOK
<1>6. ASSUME NEW t \in CoveredBy(r.anchor, Last(r) + Hour)
      PROVE  Settled(r.anchor, t, nt, cp)
  <2>1. /\ t \in Nat /\ t \in Times /\ r.anchor <= t /\ t < Last(r) + Hour
        /\ (t - r.anchor) % Hour = 0
    BY <1>1 DEF CoveredBy
  <2>2. PICK n \in Nat : n = Last(r) - r.anchor
    BY <1>4
  <2>3. PICK m \in Nat : m = t - r.anchor
    BY <1>1, <2>1
  <2>4. m < n + Hour
    BY <1>1, <2>1, <2>2, <2>3
  <2>5. m <= n
    BY <1>4, <2>1, <2>2, <2>3, <2>4, HoursApart
  <2>6. CASE t = Last(r)
    BY <2>6
  <2>7. CASE t # Last(r)
    <3>1. t < Last(r)
      BY <1>1, <2>1, <2>2, <2>3, <2>5, <2>7
    <3>2. r.through # Never /\ t < r.through
      BY <1>1, <1>2, <1>3, <2>1, <3>1
    <3>3. t \in CoveredBy(r.anchor, r.through)
      BY <2>1, <3>2 DEF CoveredBy
    <3>4. QED
      BY <3>3 DEF BooksOK
  <2>8. QED
    BY <2>6, <2>7
<1>7. cp = {} => hd = "captured"
  BY <1>2 DEF BooksOK
<1>8. BooksOK(r.anchor, Last(r) + Hour, hd, ps, nt, cp)
  BY <1>6, <1>7 DEF BooksOK
<1>9. r.through <= Last(r) + Hour
  BY <1>1, <1>3
<1>10. QED
  BY <1>5, <1>8, <1>9

LEMMA AdvanceKeeps ==
    ASSUME Inv, Advance
    PROVE  Inv'
<1>1. UNCHANGED <<now, hold, balance, posted, noted, capped, trouble>>
  BY DEF Advance, moneyVars
<1>2. /\ job \in Job /\ job.at = "advance" /\ TodoOK(job, row, now)
      /\ Settled(job.snap.anchor, job.start, noted[job.srv], capped[job.srv])
      /\ capped[job.srv] = {} /\ job.start = job.snap.anchor => hold[job.srv] = "captured"
  BY AtWork DEF Advance, DeedOK
<1>3. PICK s : s = job.srv
  OBVIOUS
<1>4. /\ s \in Servers /\ job.snap = row[s] /\ s \notin job.todo /\ job.snap \in Row
      /\ HoursOK(job.snap.anchor, job.snap.through)
      /\ BooksOK(job.snap.anchor, job.snap.through, hold[s], posted[s], noted[s], capped[s])
      /\ job.snap.anchor # Never /\ job.start = Last(job.snap) /\ job.start + Hour \in Times
  BY <1>2, <1>3, ServerInHand DEF InHand
<1>5. PICK end : end = job.start + Hour
  OBVIOUS
<1>6. /\ HoursOK(job.snap.anchor, end) /\ job.snap.through <= end
      /\ BooksOK(job.snap.anchor, end, hold[s], posted[s], noted[s], capped[s])
  <2>1. /\ Last(job.snap) + Hour \in Times
        /\ Settled(job.snap.anchor, Last(job.snap), noted[s], capped[s])
        /\ capped[s] = {} /\ Last(job.snap) = job.snap.anchor => hold[s] = "captured"
    BY <1>2, <1>3, <1>4
  <2>2. QED
    BY <1>4, <1>5, <2>1, HourAdded
<1>7. end \in Times /\ end \in Int /\ job.snap.through \in Int /\ end # Never
  BY <1>4, <1>5, RowTypes, TimesFacts
<1>8. PICK r : r = [job.snap EXCEPT !.through = end]
  OBVIOUS
<1>9. r \in Row /\ r.anchor = job.snap.anchor /\ r.through = end /\ Last(r) = end
  BY <1>4, <1>7, <1>8 DEF Row, Last
<1>10. (IF job.snap.through > Advanced THEN job.snap.through ELSE Advanced) = end
  BY <1>5, <1>6, <1>7 DEF Advanced
<1>11. /\ row' = [row EXCEPT ![s] = r]
       /\ IF end <= job.until /\ job.kind # "final"
          THEN job' = [job EXCEPT !.at = "settle", !.snap = r, !.start = end, !.key = Capture]
          ELSE ServerOver(TRUE, r)
  BY <1>3, <1>5, <1>8, <1>10 DEF Advance, SaveRow, Advanced
<1>12. row'[s] = r /\ \A x \in job.todo : row'[x] = row[x]
  BY <1>2, <1>4, <1>9, <1>11, JobTypes, TypeParts
<1>13. /\ job' \in Job \union {Idle}
       /\ job' # Idle => /\ TodoOK(job', row', now) /\ HandOK(job', row')
                         /\ DeedOK(job', hold', posted', noted', capped')
  <2>1. CASE end <= job.until /\ job.kind # "final"
    <3>1. PICK n : n = job'
      OBVIOUS
    <3>2. n = [job EXCEPT !.at = "settle", !.snap = r, !.start = end, !.key = Capture]
      BY <1>11, <2>1, <3>1
    <3>3. /\ n \in Job /\ n.at = "settle" /\ n.start = end /\ n.snap = r /\ n.srv = s
          /\ n.todo = job.todo /\ n.copies = job.copies /\ n.until = job.until
          /\ n.moment = job.moment
      BY <1>2, <1>3, <1>7, <1>9, <3>2, KeysApart DEF Job
    <3>4. TodoOK(n, row', now)
      BY <1>2, <1>12, <3>3, TypeParts, TodoKept
    <3>5. HandOK(n, row')
      BY <1>4, <1>9, <1>12, <2>1, <3>3 DEF HandOK
    <3>6. DeedOK(n, hold', posted', noted', capped')
      BY <3>3 DEF DeedOK
    <3>7. QED
      BY <3>1, <3>3, <3>4, <3>5, <3>6
  <2>2. CASE ~(end <= job.until /\ job.kind # "final")
    <3>1. ServerOver(TRUE, r) /\ TRUE \in BOOLEAN
      BY <1>11, <2>2
    <3>2. PICK rw2 : rw2 = row'
      OBVIOUS
    <3>3. \A x \in job.todo : rw2[x] = row[x]
      BY <1>12, <3>2
    <3>4. /\ job' \in Job \union {Idle}
          /\ job' # Idle => /\ TodoOK(job', rw2, now) /\ HandOK(job', rw2)
                            /\ \A h, p, n, c : DeedOK(job', h, p, n, c)
      BY <1>2, <1>9, <3>1, <3>3, TypeParts, OverOK
    <3>5. QED
      BY <3>2, <3>4
  <2>3. QED
    BY <2>1, <2>2
<1>14. PICK h, ps, nt, cp : h = hold[s] /\ ps = posted[s] /\ nt = noted[s] /\ cp = capped[s]
  OBVIOUS
<1>15. /\ h \in {"created", "captured", "released"} /\ hold' = [hold EXCEPT ![s] = h]
       /\ ps \in SUBSET Keys /\ posted' = [posted EXCEPT ![s] = ps]
       /\ nt \in SUBSET (Keys \X Times) /\ noted' = [noted EXCEPT ![s] = nt]
       /\ cp \in SUBSET Times /\ capped' = [capped EXCEPT ![s] = cp]
       /\ balance' \in 0..MaxBalance /\ trouble' \in 0..MaxTrouble
  BY <1>1, <1>4, <1>14, BookTypes, TypeParts
<1>16. HoursOK(r.anchor, r.through) /\ BooksOK(r.anchor, r.through, h, ps, nt, cp)
  BY <1>6, <1>9, <1>14
<1>17. job' \in Job \union {Idle} /\ now' = now
  BY <1>1, <1>13
<1>18. job' # Idle => /\ TodoOK(job', row', now) /\ HandOK(job', row')
                      /\ DeedOK(job', hold', posted', noted', capped')
  BY <1>13
<1>19. QED
  BY <1>4, <1>9, <1>11, <1>15, <1>16, <1>17, <1>18, OneServer


LEMMA RequestDeletionKeeps ==
    ASSUME Inv, RequestDeletion
    PROVE  Inv'
<1>1. UNCHANGED <<now, hold, balance, posted, noted, capped, trouble>> /\ Failed
  BY DEF RequestDeletion, moneyVars
<1>2. job \in Job /\ job.at = "unpaid" /\ TodoOK(job, row, now)
  BY AtWork DEF RequestDeletion
<1>3. CASE UNCHANGED row
  BY <1>1, <1>2, <1>3, FailedKeeps, TypeParts
<1>4. CASE SaveRow(job.srv, [job.snap EXCEPT !.state = "requested"])
  <2>1. PICK s : s = job.srv
    OBVIOUS
  <2>2. /\ s \in Servers /\ s \notin job.todo /\ job.snap \in Row
        /\ HoursOK(job.snap.anchor, job.snap.through)
        /\ BooksOK(job.snap.anchor, job.snap.through, hold[s], posted[s], noted[s], capped[s])
    BY <1>2, <2>1, ServerInHand DEF InHand
  <2>3. PICK r : r = [job.snap EXCEPT !.state = "requested"]
    OBVIOUS
  <2>4. r \in Row /\ r.anchor = job.snap.anchor /\ r.through = job.snap.through
    BY <2>2, <2>3 DEF Row, InDeletion
  <2>5. row' = [row EXCEPT ![s] = r]
    BY <1>4, <2>1, <2>3 DEF SaveRow
  <2>6. PICK rw2 : rw2 = row'
    OBVIOUS
  <2>7. \A x \in job.todo : rw2[x] = row[x]
    BY <1>2, <2>2, <2>5, <2>6, JobTypes, TypeParts
  <2>8. ServerOver(FALSE, job.snap) /\ FALSE \in BOOLEAN
    BY <1>1 DEF Failed
  <2>9. /\ job' \in Job \union {Idle}
        /\ job' # Idle => /\ TodoOK(job', rw2, now) /\ HandOK(job', rw2)
                          /\ \A h, p, n, c : DeedOK(job', h, p, n, c)
    BY <1>2, <2>2, <2>7, <2>8, TypeParts, OverOK
  <2>10. job' # Idle => /\ TodoOK(job', row', now) /\ HandOK(job', row')
                        /\ DeedOK(job', hold', posted', noted', capped')
    BY <2>6, <2>9
  <2>11. PICK h, ps, nt, cp : h = hold[s] /\ ps = posted[s] /\ nt = noted[s] /\ cp = capped[s]
    OBVIOUS
  <2>12. /\ h \in {"created", "captured", "released"} /\ hold' = [hold EXCEPT ![s] = h]
         /\ ps \in SUBSET Keys /\ posted' = [posted EXCEPT ![s] = ps]
         /\ nt \in SUBSET (Keys \X Times) /\ noted' = [noted EXCEPT ![s] = nt]
         /\ cp \in SUBSET Times /\ capped' = [capped EXCEPT ![s] = cp]
         /\ balance' \in 0..MaxBalance /\ trouble' \in 0..MaxTrouble
    BY <1>1, <2>2, <2>11, BookTypes, TypeParts
  <2>13. HoursOK(r.anchor, r.through) /\ BooksOK(r.anchor, r.through, h, ps, nt, cp)
    BY <2>2, <2>4, <2>11
  <2>14. job' \in Job \union {Idle} /\ now' = now
    BY <1>1, <2>9
  <2>15. QED
    BY <2>2, <2>4, <2>5, <2>10, <2>12, <2>13, <2>14, OneServer
<1>5. QED
  BY <1>3, <1>4 DEF RequestDeletion

LEMMA TroubleKeeps ==
    ASSUME Inv, Stumble \/ JobDies
    PROVE  Inv'
<1>1. UNCHANGED <<now, row, hold, balance, posted, noted, capped>>
  BY DEF Stumble, JobDies, moneyVars
<1>2. trouble' \in 0..MaxTrouble
  BY TypeParts, MoneyAssumption DEF Stumble, JobDies, Stumbled, MoreTrouble
<1>3. CASE Stumble
  <2>1. job \in Job /\ job.at # "over" /\ Failed
    BY <1>3, TypeParts DEF Stumble, Working, At
  <2>2. QED
    BY <1>1, <1>2, <2>1, FailedKeeps, TypeParts
<1>4. CASE JobDies
  BY <1>1, <1>2, <1>4, JobAlone, TypeParts DEF JobDies
<1>5. QED
  BY <1>3, <1>4

(* The world outside: a wallet that moves, a clock, a caller that takes its answer. *)
LEMMA OutsideKeeps ==
    ASSUME Inv, TopUp \/ Spend
    PROVE  Inv'
<1>1. /\ UNCHANGED <<now, row, hold, posted, noted, capped, job, trouble>>
      /\ balance' \in 0..MaxBalance
  BY TypeParts, MoneyAssumption DEF TopUp, Spend
<1>2. QED
  BY <1>1, JobAlone, TypeParts DEF Inv, JobOK

LEMMA TickKeeps ==
    ASSUME Inv, Tick
    PROVE  Inv'
<1>1. /\ UNCHANGED <<row, hold, balance, posted, noted, capped, job, trouble>>
      /\ now' = now + 1 /\ now < Horizon
  BY DEF Tick, moneyVars
<1>2. now' \in 0..Horizon
  BY <1>1, TypeParts, TimesFacts
<1>3. BillingTypeOK' /\ RowsOK'
  BY <1>1, <1>2, TypeParts DEF Inv, BillingTypeOK, RowsOK
<1>4. ASSUME job # Idle PROVE TodoOK(job, row, now')
  <2>1. job \in Job /\ TodoOK(job, row, now) /\ HandOK(job, row)
    BY <1>4, TypeParts DEF Inv, JobOK
  <2>2. job.moment \in Int
    BY <2>1, JobTypes, TimesFacts
  <2>3. QED
    BY <1>1, <2>1, <2>2, TypeParts DEF TodoOK
<1>5. JobOK'
  BY <1>1, <1>4 DEF Inv, JobOK
<1>6. QED
  BY <1>3, <1>5 DEF Inv

LEMMA CollectKeeps ==
    ASSUME Inv, NEW s, NEW ok, Collect("ready", s, ok), UNCHANGED <<now, row, moneyVars, trouble>>
    PROVE  Inv'
BY JobAlone, TypeParts DEF Collect, moneyVars

(* Every step of billing. *)
LEMMA NextKeeps ==
    ASSUME Inv, BillingNext
    PROVE  Inv'
<1>1. CASE BeginRun
  BY <1>1, RunBegins
<1>2. CASE JobStep
  BY <1>2, NextServerKeeps, AnchorKeeps, ReplayKeeps, SkipKeeps, CaptureHoldKeeps, PostKeeps,
     DebitKeeps, RecordKeeps, AdvanceKeeps, RequestDeletionKeeps DEF JobStep
<1>3. CASE Stumble \/ JobDies
  BY <1>3, TroubleKeeps
<1>4. CASE TopUp \/ Spend
  BY <1>4, OutsideKeeps
<1>5. CASE Tick
  BY <1>5, TickKeeps
<1>6. ASSUME NEW s \in Servers, BeginRenewal(s)
      PROVE  Inv'
  <2>1. BeginPrepay("renew", s, Lead)
    BY <1>6 DEF BeginRenewal
  <2>2. QED
    BY <2>1, PrepayBegins
<1>7. ASSUME NEW s \in Servers, BeginPrepay("ready", s, 0)
      PROVE  Inv'
  BY <1>7, PrepayBegins
<1>8. ASSUME NEW s \in Servers, NEW ok \in BOOLEAN, Collect("ready", s, ok),
             UNCHANGED <<now, row, moneyVars, trouble>>
      PROVE  Inv'
  BY <1>8, CollectKeeps
<1>9. QED
  BY <1>1, <1>2, <1>3, <1>4, <1>5, <1>6, <1>7, <1>8 DEF BillingNext

LEMMA StutterKeeps ==
    ASSUME Inv, UNCHANGED billingVars
    PROVE  Inv'
BY JobAlone, TypeParts DEF billingVars, moneyVars, Inv, JobOK

LEMMA InvHolds == BillingSpec => []Inv
<1>1. BillingInit => Inv
  BY InitOK
<1>2. Inv /\ [BillingNext]_billingVars => Inv'
  BY NextKeeps, StutterKeeps
<1>3. QED
  BY <1>1, <1>2, PTL DEF BillingSpec


-----------------------------------------------------------------------------
(* The theorems of coverage. *)

(* The clock, the rows, the books and the job stay in their ranges. *)
THEOREM TypeCorrect == BillingSpec => []BillingTypeOK
<1>1. Inv => BillingTypeOK
  BY DEF Inv
<1>2. QED
  BY <1>1, InvHolds, PTL

LEMMA InvPays == Inv => CoverageIsPaid
<1>1. SUFFICES ASSUME Inv, NEW s \in Servers
               PROVE  /\ \A t \in CoveredHours(s) :
                             \/ t \in capped[s] /\ noted[s] \intersect (Keys \X {t}) = {}
                             \/ \E key \in posted[s] :
                                    noted[s] \intersect (Keys \X {t}) = {<<key, t>>}
                      /\ Capture \in posted[s] => hold[s] = "captured"
                      /\ row[s].through # Never /\ capped[s] = {} => hold[s] = "captured"
  BY DEF CoverageIsPaid
<1>2. BooksOK(row[s].anchor, row[s].through, hold[s], posted[s], noted[s], capped[s])
  BY <1>1 DEF Inv, RowsOK
<1>3. noted[s] \subseteq Keys \X Times
  BY <1>1, BookTypes
<1>4. ASSUME NEW t \in CoveredHours(s)
      PROVE  \/ t \in capped[s] /\ noted[s] \intersect (Keys \X {t}) = {}
             \/ \E key \in posted[s] : noted[s] \intersect (Keys \X {t}) = {<<key, t>>}
  <2>1. PICK key : key = KeyOf(row[s].anchor, t)
    OBVIOUS
  <2>2. Settled(row[s].anchor, t, noted[s], capped[s])
    BY <1>2, <1>4 DEF CoveredHours, CoveredBy, BooksOK
  <2>3. \A n \in noted[s] \intersect (Keys \X {t}) : n = <<key, t>>
    BY <1>2, <1>3, <2>1 DEF BooksOK
  <2>4. CASE <<key, t>> \in noted[s]
    <3>1. key \in posted[s]
      BY <1>2, <2>4 DEF BooksOK
    <3>2. <<key, t>> \in Keys \X {t}
      BY <1>3, <2>4
    <3>3. noted[s] \intersect (Keys \X {t}) = {<<key, t>>}
      BY <2>3, <2>4, <3>2
    <3>4. QED
      BY <3>1, <3>3
  <2>5. CASE <<key, t>> \notin noted[s]
    <3>1. t \in capped[s]
      BY <2>1, <2>2, <2>5 DEF Settled
    <3>2. noted[s] \intersect (Keys \X {t}) = {}
      BY <2>3, <2>5
    <3>3. QED
      BY <3>1, <3>2
  <2>6. QED
    BY <2>4, <2>5
<1>5. QED
  BY <1>2, <1>4 DEF BooksOK

(* An hour before paid-through is capped, or recorded once under a key of the *)
(* ledger; the hold was captured exactly when it paid the first hour.          *)
THEOREM CoverageAgrees == BillingSpec => []CoverageIsPaid
BY InvPays, InvHolds, PTL

(* What billing asks to be deleted, it asks once the hours it sold are over. *)
THEOREM PaidHourIsKept == BillingSpec => PaidHourKept
<1>1. ASSUME Inv, BillingNext, NEW s \in Servers, job # Idle, At("unpaid"), job' # job,
             row[s].state \in Active, row'[s].state = "requested"
      PROVE  row[s].through <= now
  <2>1. row' # row
    BY <1>1 DEF Active
  <2>2. RequestDeletion
    <3>1. \/ Anchor \/ Advance \/ RequestDeletion
      BY <1>1, <2>1 DEF BillingNext, BeginRun, BeginRenewal, BeginPrepay, JobStep, NextServer, Replay,
         Skip, CaptureHold, Post, Debit, Record, Stumble, JobDies, TopUp, Spend, Tick
    <3>2. ~Anchor /\ ~Advance
      BY <1>1 DEF At, Anchor, Advance
    <3>3. QED
      BY <3>1, <3>2
  <2>3. /\ row' = [row EXCEPT ![job.srv] = [job.snap EXCEPT !.state = "requested"]]
        /\ ~PaidHourLeft
    BY <2>1, <2>2 DEF RequestDeletion, SaveRow
  <2>4. job \in Job /\ job.at = "unpaid"
    BY <1>1, AtWork
  <2>5. job.srv \in Servers /\ job.snap = row[job.srv] /\ job.moment <= now
    BY <1>1, <2>4, ServerInHand DEF InHand
  <2>6. s = job.srv
    BY <1>1, <2>3, <2>5, TypeParts DEF Active
  <2>7. row[s].through = Never \/ row[s].through <= job.moment
    <3>1. row[s].through \in Int /\ job.moment \in Int
      BY <1>1, <2>4, BookTypes, RowTypes, JobTypes, TimesFacts
    <3>2. QED
      BY <2>3, <2>5, <2>6, <3>1 DEF PaidHourLeft
  <2>8. row[s].through \in Int /\ job.moment \in Int /\ now \in Nat
    BY <1>1, <2>4, BookTypes, RowTypes, JobTypes, TimesFacts, TypeParts
  <2>9. QED
    BY <2>5, <2>7, <2>8 DEF Never
<1>2. ASSUME UNCHANGED billingVars PROVE row' = row /\ job' = job
  BY <1>2 DEF billingVars
<1>3. Inv /\ [BillingNext]_billingVars =>
          [\A s \in Servers :
              (/\ job # Idle /\ At("unpaid") /\ job' # job
               /\ row[s].state \in Active /\ row'[s].state = "requested")
                  => row[s].through <= now]_billingVars
  BY <1>1, <1>2
<1>4. QED
  BY <1>3, InvHolds, PTL DEF BillingSpec, PaidHourKept


-----------------------------------------------------------------------------
(***************************************************************************)
(* The cap, while nothing fails.  It is checked against the accrual rows,  *)
(* and what is sold is the ledger: they differ by the hour at hand alone,  *)
(* since a job that goes on records what it has posted.                    *)
(***************************************************************************)

(* The key was recorded, for whatever hour. *)
Recorded(s, key) == \E t \in Times : <<key, t>> \in noted[s]

(* A captured hold is in the ledger, and the ledger in the accrual rows, except *)
(* for the step the job is about to take.                                        *)
BooksFollow ==
    \A s \in Servers :
        /\ hold[s] = "captured" => Capture \in posted[s] \/ (job.at = "post" /\ job.srv = s)
        /\ \A key \in posted[s] :
               Recorded(s, key) \/ (job.at = "record" /\ job.srv = s /\ job.key = key)

(* The hour at hand still fits under the cap. *)
HourFits ==
    /\ job.at = "post" => Billed + 1 <= Cap /\ Capture \notin posted[job.srv]
    /\ job.at = "record" /\ ~Recorded(job.srv, job.key) => Billed + 1 <= Cap

Smooth == trouble = 0 => BooksFollow /\ HourFits /\ Billed <= Cap

AllNoted == UNION {{s} \X noted[s] : s \in Servers}

LEMMA FiniteBooks ==
    ASSUME Inv
    PROVE  IsFiniteSet(AllNoted) /\ Billed = Cardinality(AllNoted) /\ Billed \in Nat /\ Cap \in Nat
<1>1. IsFiniteSet(Times)
  <2>1. Horizon + 2 * Hour \in Int
    BY TimesFacts
  <2>2. QED
    BY <2>1, FS_Interval DEF Times
<1>2. IsFiniteSet(Keys)
  <2>1. PICK f : f = [t \in Times |-> Usage(t)]
    OBVIOUS
  <2>2. f \in Surjection(Times, {Usage(t) : t \in Times})
    BY <2>1 DEF Surjection
  <2>3. IsFiniteSet({Usage(t) : t \in Times})
    BY <1>1, <2>2, FS_Surjection
  <2>4. IsFiniteSet({Capture})
    BY FS_Singleton
  <2>5. QED
    BY <2>3, <2>4, FS_Union DEF Keys
<1>3. IsFiniteSet(Servers \X (Keys \X Times))
  <2>1. IsFiniteSet(Keys \X Times)
    BY <1>1, <1>2, FS_Product
  <2>2. IsFiniteSet(Servers)
    BY MoneyAssumption
  <2>3. QED
    BY <2>1, <2>2, FS_Product
<1>4. AllNoted \subseteq Servers \X (Keys \X Times)
  BY TypeParts DEF AllNoted
<1>5. IsFiniteSet(AllNoted)
  BY <1>3, <1>4, FS_Subset
<1>6. Billed = Cardinality(AllNoted)
  BY DEF Billed, AllNoted
<1>7. QED
  BY <1>5, <1>6, FS_CardinalityType, MoneyAssumption

(* What is sold is recorded, or at hand. *)
LEMMA SmoothCaps ==
    ASSUME Inv, Smooth
    PROVE  CapKept
<1>1. SUFFICES ASSUME trouble = 0 PROVE Cardinality(Sold) <= Cap
  BY DEF CapKept, CapNeverExceeded
<1>2. BooksFollow /\ HourFits /\ Billed <= Cap
  BY <1>1 DEF Smooth
<1>3. PICK f : f = [n \in AllNoted |-> <<n[1], n[2][1]>>]
  OBVIOUS
<1>4. PICK F : F = {f[n] : n \in AllNoted}
  OBVIOUS
<1>5. IsFiniteSet(F) /\ Cardinality(F) <= Billed /\ Cardinality(F) \in Nat /\ Billed \in Nat /\ Cap \in Nat
  <2>1. f \in Surjection(AllNoted, F)
    BY <1>3, <1>4 DEF Surjection
  <2>2. QED
    BY <2>1, FiniteBooks, FS_Surjection, FS_CardinalityType
<1>6. ASSUME NEW s \in Servers, NEW key \in posted[s], Recorded(s, key)
      PROVE  <<s, key>> \in F
  <2>1. PICK t \in Times : <<key, t>> \in noted[s]
    BY <1>6 DEF Recorded
  <2>2. <<s, <<key, t>>>> \in AllNoted
    BY <2>1 DEF AllNoted
  <2>3. f[<<s, <<key, t>>>>] = <<s, key>>
    BY <1>3, <2>2
  <2>4. QED
    BY <1>4, <2>2, <2>3
<1>7. CASE job.at = "record" /\ ~Recorded(job.srv, job.key)
  <2>1. Sold \subseteq F \union {<<job.srv, job.key>>}
    BY <1>2, <1>6 DEF Sold, BooksFollow
  <2>2. /\ IsFiniteSet(F \union {<<job.srv, job.key>>})
        /\ Cardinality(F \union {<<job.srv, job.key>>}) <= Cardinality(F) + 1
        /\ Cardinality(F \union {<<job.srv, job.key>>}) \in Nat
    BY <1>5, FS_AddElement
  <2>3. Cardinality(Sold) <= Cardinality(F \union {<<job.srv, job.key>>}) /\ Cardinality(Sold) \in Nat
    BY <2>1, <2>2, FS_Subset, FS_CardinalityType
  <2>4. Billed + 1 <= Cap
    BY <1>2, <1>7 DEF HourFits
  <2>5. QED
    BY <1>5, <2>2, <2>3, <2>4
<1>8. CASE ~(job.at = "record" /\ ~Recorded(job.srv, job.key))
  <2>1. Sold \subseteq F
    BY <1>2, <1>6, <1>8 DEF Sold, BooksFollow
  <2>2. Cardinality(Sold) <= Cardinality(F) /\ Cardinality(Sold) \in Nat
    BY <1>5, <2>1, FS_Subset, FS_CardinalityType
  <2>3. QED
    BY <1>2, <1>5, <2>2
<1>9. QED
  BY <1>7, <1>8

LEMMA InitSmooth ==
    ASSUME Inv, BillingInit
    PROVE  Smooth
<1>1. \A s \in Servers : hold[s] = "created" /\ posted[s] = {} /\ noted[s] = {}
  BY DEF BillingInit
<1>2. AllNoted = {}
  BY <1>1 DEF AllNoted
<1>3. Billed = 0
  BY <1>2, FiniteBooks, FS_EmptySet
<1>4. BooksFollow /\ Billed <= Cap
  BY <1>1, <1>3, FiniteBooks DEF BooksFollow
<1>5. HourFits
  BY DEF HourFits, BillingInit, Idle
<1>6. QED
  BY <1>4, <1>5 DEF Smooth

(* A step that posts, captures and records nothing, between steps that do not either. *)
LEMMA SmoothAside ==
    ASSUME Smooth, UNCHANGED <<hold, posted, noted, trouble>>,
           job.at \notin {"post", "record"}, job'.at \notin {"post", "record"}
    PROVE  Smooth'
BY DEF Smooth, BooksFollow, HourFits, Recorded, Billed

LEMMA OverElsewhere ==
    ASSUME job \in Job, NEW ok, NEW snap, ServerOver(ok, snap)
    PROVE  job'.at \in {"next", "over", "idle"}
<1>1. CASE job.kind = "run" /\ job.todo # {}
  <2>1. job' = [job EXCEPT !.at = "next"]
    BY <1>1 DEF ServerOver
  <2>2. QED
    BY <2>1 DEF Job
<1>2. CASE job.kind = "renew" \/ (job.kind = "run" /\ job.todo = {})
  <2>1. job' = Idle
    BY <1>2 DEF ServerOver
  <2>2. QED
    BY <2>1 DEF Idle
<1>3. CASE job.kind \notin {"run", "renew"}
  <2>1. job' = [job EXCEPT !.at = "over", !.ok = ok, !.snap = snap,
                           !.moment = 0, !.until = 0, !.start = Never, !.key = Capture]
    BY <1>3 DEF ServerOver
  <2>2. QED
    BY <2>1 DEF Job
<1>4. QED
  BY <1>1, <1>2, <1>3


(* An hour found in the ledger was recorded, since nothing died before it was. *)
LEMMA ReplaySmooth ==
    ASSUME Inv, Smooth, Replay
    PROVE  Smooth'
<1>1. UNCHANGED <<hold, posted, noted, trouble>>
  BY DEF Replay, moneyVars
<1>2. job \in Job /\ job.at = "settle"
  BY AtWork DEF Replay
<1>3. CASE \E key \in Found : job' = [job EXCEPT !.at = "record", !.key = key]
  <2>1. PICK key \in Found : job' = [job EXCEPT !.at = "record", !.key = key]
    BY <1>3
  <2>2. job'.at = "record" /\ job'.srv = job.srv /\ job'.key = key /\ key \in posted[job.srv]
    BY <1>2, <2>1 DEF Job, Found
  <2>3. trouble = 0 => Recorded(job.srv, key)
    BY <1>2, <2>2, JobTypes DEF Smooth, BooksFollow
  <2>4. QED
    BY <1>1, <1>2, <2>2, <2>3 DEF Smooth, BooksFollow, HourFits, Recorded, Billed
<1>4. CASE Failed
  <2>1. job'.at \in {"next", "over", "idle"}
    BY <1>2, <1>4, OverElsewhere DEF Failed
  <2>2. QED
    BY <1>1, <1>2, <2>1, SmoothAside
<1>5. QED
  BY <1>3, <1>4 DEF Replay

(* A first hour that is not in the ledger has not captured its hold. *)
LEMMA FirstIsFree ==
    ASSUME Inv, Smooth, trouble = 0, At("settle"), Found = {}, First
    PROVE  hold[job.srv] # "captured" /\ Capture \notin posted[job.srv]
<1>1. job \in Job /\ job.at = "settle" /\ job.srv \in Servers
  BY AtWork, JobTypes
<1>2. Capture \notin posted[job.srv]
  BY DEF Found, CandidateKeys
<1>3. QED
  BY <1>1, <1>2 DEF Smooth, BooksFollow

LEMMA SkipSmooth ==
    ASSUME Inv, Smooth, Skip
    PROVE  Smooth'
<1>1. UNCHANGED <<posted, noted, trouble>>
  BY DEF Skip
<1>2. job \in Job /\ job.at = "settle" /\ At("settle") /\ Found = {}
  BY AtWork DEF Skip
<1>3. SUFFICES ASSUME trouble = 0 PROVE BooksFollow' /\ HourFits' /\ Billed' <= Cap
  BY <1>1 DEF Smooth
<1>4. ~(First /\ hold[job.srv] = "captured")
  BY <1>2, <1>3, FirstIsFree
<1>5. /\ job' = [job EXCEPT !.at = "advance"]
      /\ hold' = IF First /\ hold[job.srv] = "created"
                 THEN [hold EXCEPT ![job.srv] = "released"] ELSE hold
  BY <1>4 DEF Skip, Goto
<1>6. job'.at = "advance"
  BY <1>2, <1>5 DEF Job
<1>7. \A s \in Servers : hold'[s] = "captured" => hold[s] = "captured"
  BY <1>2, <1>5, TypeParts, JobTypes
<1>8. QED
  BY <1>1, <1>2, <1>3, <1>6, <1>7 DEF Smooth, BooksFollow, HourFits, Recorded, Billed

LEMMA CaptureHoldSmooth ==
    ASSUME Inv, Smooth, CaptureHold
    PROVE  Smooth'
<1>1. UNCHANGED <<posted, noted, trouble>>
  BY DEF CaptureHold
<1>2. /\ job \in Job /\ job.at = "settle" /\ At("settle") /\ Found = {} /\ First /\ ~CapReached
      /\ job.srv \in Servers
  BY AtWork, JobTypes DEF CaptureHold, ByHold
<1>3. CASE hold[job.srv] = "created" /\ ~Affordable
  <2>1. job' = [job EXCEPT !.at = "unpaid"] /\ UNCHANGED hold
    BY <1>3 DEF CaptureHold, Goto
  <2>2. job'.at = "unpaid"
    BY <1>2, <2>1 DEF Job
  <2>3. QED
    BY <1>1, <1>2, <2>1, <2>2, SmoothAside
<1>4. CASE ~(hold[job.srv] = "created" /\ ~Affordable)
  <2>1. job' = [job EXCEPT !.at = "post"] /\ hold' = [hold EXCEPT ![job.srv] = "captured"]
    BY <1>4 DEF CaptureHold, Goto
  <2>2. job'.at = "post" /\ job'.srv = job.srv
    BY <1>2, <2>1 DEF Job
  <2>3. \A s \in Servers \ {job.srv} : hold'[s] = hold[s]
    BY <2>1, TypeParts
  <2>4. SUFFICES ASSUME trouble = 0 PROVE BooksFollow' /\ HourFits' /\ Billed' <= Cap
    BY <1>1 DEF Smooth
  <2>5. Capture \notin posted[job.srv]
    BY <1>2, <2>4, FirstIsFree
  <2>6. Billed + 1 <= Cap
    BY <1>2, FiniteBooks DEF CapReached
  <2>7. BooksFollow'
    BY <1>1, <1>2, <2>2, <2>3, <2>4 DEF Smooth, BooksFollow, Recorded
  <2>8. HourFits' /\ Billed' <= Cap
    BY <1>1, <2>2, <2>4, <2>5, <2>6 DEF Smooth, HourFits, Recorded, Billed
  <2>9. QED
    BY <2>7, <2>8
<1>5. QED
  BY <1>3, <1>4

LEMMA PostSmooth ==
    ASSUME Inv, Smooth, Post
    PROVE  Smooth'
<1>1. UNCHANGED <<hold, noted, trouble>>
  BY DEF Post
<1>2. job \in Job /\ job.at = "post" /\ job.srv \in Servers
  BY AtWork, JobTypes DEF Post
<1>3. /\ job' = [job EXCEPT !.at = "record", !.key = Capture]
      /\ posted' = [posted EXCEPT ![job.srv] = @ \union {Capture}]
  BY DEF Post
<1>4. job'.at = "record" /\ job'.srv = job.srv /\ job'.key = Capture
  BY <1>2, <1>3 DEF Job
<1>5. /\ posted'[job.srv] = posted[job.srv] \union {Capture}
      /\ \A s \in Servers \ {job.srv} : posted'[s] = posted[s]
  BY <1>2, <1>3, TypeParts
<1>6. SUFFICES ASSUME trouble = 0 PROVE BooksFollow' /\ HourFits' /\ Billed' <= Cap
  BY <1>1 DEF Smooth
<1>7. BooksFollow'
  BY <1>1, <1>2, <1>4, <1>5, <1>6 DEF Smooth, BooksFollow, Recorded
<1>8. HourFits' /\ Billed' <= Cap
  BY <1>1, <1>2, <1>4, <1>6 DEF Smooth, HourFits, Recorded, Billed
<1>9. QED
  BY <1>7, <1>8

LEMMA DebitSmooth ==
    ASSUME Inv, Smooth, Debit
    PROVE  Smooth'
<1>1. UNCHANGED <<hold, noted, trouble>>
  BY DEF Debit
<1>2. job \in Job /\ job.at = "settle" /\ job.srv \in Servers /\ ~CapReached
  BY AtWork, JobTypes DEF Debit
<1>3. CASE First
  <2>1. Failed /\ UNCHANGED posted
    BY <1>3 DEF Debit
  <2>2. job'.at \in {"next", "over", "idle"}
    BY <1>2, <2>1, OverElsewhere DEF Failed
  <2>3. QED
    BY <1>1, <1>2, <2>1, <2>2, SmoothAside
<1>4. CASE ~First /\ ~Affordable
  <2>1. job' = [job EXCEPT !.at = "unpaid"] /\ UNCHANGED posted
    BY <1>4 DEF Debit, Goto
  <2>2. job'.at = "unpaid"
    BY <1>2, <2>1 DEF Job
  <2>3. QED
    BY <1>1, <1>2, <2>1, <2>2, SmoothAside
<1>5. CASE ~First /\ Affordable
  <2>1. /\ job' = [job EXCEPT !.at = "record", !.key = Usage(job.start)]
        /\ posted' = [posted EXCEPT ![job.srv] = @ \union {Usage(job.start)}]
    BY <1>5 DEF Debit
  <2>2. job'.at = "record" /\ job'.srv = job.srv /\ job'.key = Usage(job.start)
    BY <1>2, <2>1 DEF Job
  <2>3. /\ posted'[job.srv] = posted[job.srv] \union {Usage(job.start)}
        /\ \A s \in Servers \ {job.srv} : posted'[s] = posted[s]
    BY <1>2, <2>1, TypeParts
  <2>4. SUFFICES ASSUME trouble = 0 PROVE BooksFollow' /\ HourFits' /\ Billed' <= Cap
    BY <1>1 DEF Smooth
  <2>5. BooksFollow'
    BY <1>1, <1>2, <2>2, <2>3, <2>4 DEF Smooth, BooksFollow, Recorded
  <2>6. Billed + 1 <= Cap
    BY <1>2, FiniteBooks DEF CapReached
  <2>7. HourFits' /\ Billed' <= Cap
    BY <1>1, <2>2, <2>4, <2>6 DEF Smooth, HourFits, Recorded, Billed
  <2>8. QED
    BY <2>5, <2>7
<1>6. QED
  BY <1>3, <1>4, <1>5

LEMMA RecordSmooth ==
    ASSUME Inv, Smooth, Record
    PROVE  Smooth'
<1>1. UNCHANGED <<hold, posted, trouble>>
  BY DEF Record
<1>2. job \in Job /\ job.at = "record" /\ job.srv \in Servers /\ job.key \in Keys
  BY AtWork, JobTypes DEF Record
<1>3. job.start \in Times
  BY <1>2, ServerInHand DEF InHand
<1>4. SUFFICES ASSUME trouble = 0 PROVE BooksFollow' /\ HourFits' /\ Billed' <= Cap
  BY <1>1 DEF Smooth
<1>5. BooksFollow /\ HourFits /\ Billed <= Cap
  BY <1>4 DEF Smooth
<1>6. CASE (\E t \in Times \ {job.start} : <<job.key, t>> \in noted[job.srv])
  <2>1. Failed /\ UNCHANGED noted
    BY <1>6 DEF Record
  <2>2. job'.at \in {"next", "over", "idle"}
    BY <1>2, <2>1, OverElsewhere DEF Failed
  <2>3. Recorded(job.srv, job.key)
    BY <1>6 DEF Recorded
  <2>4. BooksFollow'
    BY <1>1, <1>2, <1>5, <2>1, <2>2, <2>3 DEF BooksFollow, Recorded
  <2>5. HourFits' /\ Billed' <= Cap
    BY <1>5, <2>1, <2>2 DEF HourFits, Billed
  <2>6. QED
    BY <2>4, <2>5
<1>7. CASE ~\E t \in Times \ {job.start} : <<job.key, t>> \in noted[job.srv]
  <2>1. /\ noted' = [noted EXCEPT ![job.srv] = @ \union {<<job.key, job.start>>}]
        /\ job' = [job EXCEPT !.at = "advance"]
    BY <1>7 DEF Record, Goto
  <2>2. job'.at = "advance"
    BY <1>2, <2>1 DEF Job
  <2>3. /\ noted'[job.srv] = noted[job.srv] \union {<<job.key, job.start>>}
        /\ \A s \in Servers \ {job.srv} : noted'[s] = noted[s]
    BY <1>2, <2>1, TypeParts
  <2>4. \A s \in Servers, key \in Keys :
            Recorded(s, key) \/ (s = job.srv /\ key = job.key) => Recorded(s, key)'
    BY <1>3, <2>3 DEF Recorded
  <2>5. BooksFollow'
    BY <1>1, <1>2, <1>5, <2>2, <2>4, TypeParts DEF BooksFollow
  <2>6. AllNoted' = AllNoted \union {<<job.srv, <<job.key, job.start>>>>}
    <3>1. \A s \in Servers :
              {s} \X noted'[s] = IF s = job.srv
                                 THEN ({s} \X noted[s]) \union {<<s, <<job.key, job.start>>>>}
                                 ELSE {s} \X noted[s]
      BY <2>3
    <3>2. ASSUME NEW n \in AllNoted'
          PROVE  n \in AllNoted \union {<<job.srv, <<job.key, job.start>>>>}
      <4>1. PICK s \in Servers : n \in {s} \X noted'[s]
        BY <3>2 DEF AllNoted
      <4>2. QED
        BY <3>1, <4>1 DEF AllNoted
    <3>3. ASSUME NEW n \in AllNoted
          PROVE  n \in AllNoted'
      <4>1. PICK s \in Servers : n \in {s} \X noted[s]
        BY <3>3 DEF AllNoted
      <4>2. n \in {s} \X noted'[s]
        BY <3>1, <4>1
      <4>3. QED
        BY <4>2 DEF AllNoted
    <3>4. <<job.srv, <<job.key, job.start>>>> \in AllNoted'
      <4>1. <<job.srv, <<job.key, job.start>>>> \in {job.srv} \X noted'[job.srv]
        BY <2>3
      <4>2. QED
        BY <1>2, <4>1 DEF AllNoted
    <3>5. QED
      BY <3>2, <3>3, <3>4
  <2>7. Billed' = Cardinality(AllNoted')
    BY DEF Billed, AllNoted
  <2>8. Billed' <= Cap
    <3>1. CASE <<job.key, job.start>> \in noted[job.srv]
      <4>1. <<job.srv, <<job.key, job.start>>>> \in AllNoted
        BY <1>2, <3>1 DEF AllNoted
      <4>2. AllNoted' = AllNoted
        BY <2>6, <4>1
      <4>3. QED
        BY <1>5, <2>7, <4>2, FiniteBooks
    <3>2. CASE <<job.key, job.start>> \notin noted[job.srv]
      <4>1. ~Recorded(job.srv, job.key)
        BY <1>7, <3>2 DEF Recorded
      <4>2. Billed + 1 <= Cap
        BY <1>2, <1>5, <4>1 DEF HourFits
      <4>3. PICK S, n : S = AllNoted /\ n = <<job.srv, <<job.key, job.start>>>>
        OBVIOUS
      <4>4. IsFiniteSet(S) /\ Billed = Cardinality(S) /\ Billed \in Nat /\ Cap \in Nat
        BY <4>3, FiniteBooks
      <4>5. Cardinality(S \union {n}) = IF n \in S THEN Billed ELSE Billed + 1
        BY <4>4, FS_AddElement
      <4>6. Billed' = Cardinality(S \union {n})
        BY <2>6, <2>7, <4>3
      <4>7. QED
        BY <4>2, <4>4, <4>5, <4>6
    <3>3. QED
      BY <3>1, <3>2
  <2>9. HourFits'
    BY <2>2 DEF HourFits
  <2>10. QED
    BY <2>5, <2>8, <2>9
<1>8. QED
  BY <1>6, <1>7


(* Everything else posts, captures and records nothing, or is a failure. *)
LEMMA ElsewhereSmooth ==
    ASSUME Inv, Smooth,
           \/ BeginRun \/ NextServer \/ Anchor \/ Advance \/ RequestDeletion
           \/ \E s \in Servers : \/ BeginPrepay("renew", s, Lead) \/ BeginPrepay("ready", s, 0)
                                 \/ \E ok \in BOOLEAN :
                                        /\ Collect("ready", s, ok)
                                        /\ UNCHANGED <<now, row, moneyVars, trouble>>
    PROVE  Smooth'
<1>1. UNCHANGED <<hold, posted, noted, trouble>>
  BY DEF BeginRun, NextServer, Anchor, Advance, RequestDeletion, BeginPrepay, moneyVars
<1>2. job.at \notin {"post", "record"} /\ job'.at \notin {"post", "record"}
  <2>1. CASE BeginRun
    <3>1. PICK s, todo, copies :
              job' = [Fresh("run", s, row[s], now) EXCEPT !.todo = todo, !.copies = copies]
      BY <2>1 DEF BeginRun
    <3>2. QED
      BY <2>1, <3>1 DEF BeginRun, Fresh, Idle
  <2>2. CASE NextServer
    <3>1. job \in Job /\ job.at = "next"
      BY <2>2, AtWork DEF NextServer
    <3>2. PICK s : job' = [job EXCEPT !.at = "settle", !.srv = s, !.todo = @ \ {s},
                                      !.snap = job.copies[s], !.start = Last(job.copies[s]),
                                      !.key = Capture]
      BY <2>2 DEF NextServer
    <3>3. job'.at = "settle"
      BY <3>1, <3>2 DEF Job
    <3>4. QED
      BY <3>1, <3>3
  <2>3. CASE Anchor
    <3>1. job \in Job /\ job.at = "anchor"
      BY <2>3, AtWork DEF Anchor
    <3>2. job'.at = "settle"
      BY <2>3, <3>1 DEF Anchor, Job
    <3>3. QED
      BY <3>1, <3>2
  <2>4. CASE Advance
    <3>1. job \in Job /\ job.at = "advance"
      BY <2>4, AtWork DEF Advance
    <3>2. PICK r : \/ job' = [job EXCEPT !.at = "settle", !.snap = r, !.start = Advanced, !.key = Capture]
                   \/ ServerOver(TRUE, r)
      BY <2>4 DEF Advance
    <3>3. job'.at \in {"settle", "next", "over", "idle"}
      <4>1. CASE ServerOver(TRUE, r)
        BY <3>1, <4>1, OverElsewhere
      <4>2. CASE job' = [job EXCEPT !.at = "settle", !.snap = r, !.start = Advanced, !.key = Capture]
        BY <3>1, <4>2 DEF Job
      <4>3. QED
        BY <3>2, <4>1, <4>2
    <3>4. QED
      BY <3>1, <3>3
  <2>5. CASE RequestDeletion
    <3>1. job \in Job /\ job.at = "unpaid" /\ ServerOver(FALSE, job.snap)
      BY <2>5, AtWork DEF RequestDeletion, Failed
    <3>2. job'.at \in {"next", "over", "idle"}
      BY <3>1, OverElsewhere
    <3>3. QED
      BY <3>1, <3>2
  <2>6. ASSUME NEW s \in Servers, NEW kind, NEW lead, BeginPrepay(kind, s, lead)
        PROVE  job.at \notin {"post", "record"} /\ job'.at \notin {"post", "record"}
    <3>1. job.at = "idle"
      BY <2>6 DEF BeginPrepay, Prepayable, Idle
    <3>2. PICK j : j = Fresh(kind, s, row[s], now + lead)
      OBVIOUS
    <3>3. job' \in {[j EXCEPT !.at = "anchor"], j,
                    [j EXCEPT !.at = "over", !.ok = TRUE, !.moment = 0, !.until = 0, !.start = Never]}
      BY <2>6, <3>2 DEF BeginPrepay
    <3>4. job'.at \in {"anchor", "settle", "over"}
      <4>1. j.at = "settle" /\ "at" \in DOMAIN j
        BY <3>2 DEF Fresh
      <4>2. \A n : n = [j EXCEPT !.at = "anchor"] => n.at = "anchor"
        BY <4>1
      <4>3. \A n : n = [j EXCEPT !.at = "over", !.ok = TRUE, !.moment = 0, !.until = 0,
                                 !.start = Never] => n.at = "over"
        BY <3>2 DEF Fresh
      <4>4. QED
        BY <3>3, <4>1, <4>2, <4>3
    <3>5. QED
      BY <3>1, <3>4
  <2>7. ASSUME NEW s \in Servers, NEW ok \in BOOLEAN, Collect("ready", s, ok)
        PROVE  job.at \notin {"post", "record"} /\ job'.at \notin {"post", "record"}
    BY <2>7 DEF Collect, At, Idle
  <2>8. QED
    BY <2>1, <2>2, <2>3, <2>4, <2>5, <2>6, <2>7
<1>3. QED
  BY <1>1, <1>2, SmoothAside

LEMMA OutsideSmooth ==
    ASSUME Inv, Smooth, TopUp \/ Spend \/ Tick \/ Stumble \/ JobDies \/ UNCHANGED billingVars
    PROVE  Smooth'
<1>1. UNCHANGED <<hold, posted, noted>>
  BY DEF TopUp, Spend, Tick, Stumble, JobDies, billingVars, moneyVars
<1>2. CASE TopUp \/ Spend \/ Tick \/ UNCHANGED billingVars
  <2>1. UNCHANGED <<job, trouble>>
    BY <1>2 DEF TopUp, Spend, Tick, billingVars, moneyVars
  <2>2. QED
    BY <1>1, <2>1 DEF Smooth, BooksFollow, HourFits, Recorded, Billed
<1>3. CASE Stumble \/ JobDies
  <2>1. trouble \in Nat /\ trouble' = trouble + 1
    BY <1>3, TypeParts, MoneyAssumption DEF Stumble, JobDies, Stumbled
  <2>2. trouble' # 0
    BY <2>1
  <2>3. QED
    BY <2>2 DEF Smooth
<1>4. QED
  BY <1>2, <1>3

LEMMA NextSmooth ==
    ASSUME Inv, Smooth, BillingNext
    PROVE  Smooth'
<1>1. CASE JobStep
  BY <1>1, ElsewhereSmooth, ReplaySmooth, SkipSmooth, CaptureHoldSmooth, PostSmooth, DebitSmooth,
     RecordSmooth DEF JobStep
<1>2. CASE BeginRun
  BY <1>2, ElsewhereSmooth
<1>3. CASE TopUp \/ Spend \/ Tick \/ Stumble \/ JobDies
  BY <1>3, OutsideSmooth
<1>4. ASSUME NEW s \in Servers, BeginRenewal(s) \/ BeginPrepay("ready", s, 0)
      PROVE  Smooth'
  <2>1. BeginPrepay("renew", s, Lead) \/ BeginPrepay("ready", s, 0)
    BY <1>4 DEF BeginRenewal
  <2>2. QED
    BY <2>1, ElsewhereSmooth
<1>5. ASSUME NEW s \in Servers, NEW ok \in BOOLEAN, Collect("ready", s, ok),
             UNCHANGED <<now, row, moneyVars, trouble>>
      PROVE  Smooth'
  BY <1>5, ElsewhereSmooth
<1>6. QED
  BY <1>1, <1>2, <1>3, <1>4, <1>5 DEF BillingNext

(* While no step fails and no job dies, the hours sold never exceed the cap. *)
THEOREM CapHolds == BillingSpec => []CapKept
<1>1. BillingInit => Inv /\ Smooth
  BY InitOK, InitSmooth
<1>2. Inv /\ Smooth /\ [BillingNext]_billingVars => Smooth'
  BY NextSmooth, OutsideSmooth
<1>3. Inv /\ Smooth => CapKept
  BY SmoothCaps
<1>4. QED
  BY <1>1, <1>2, <1>3, InvHolds, PTL DEF BillingSpec

-----------------------------------------------------------------------------
(***************************************************************************)
(* The whole life-cycle.                                                   *)
(*                                                                         *)
(* Copies of the row are everywhere: with the holder of the lock, the      *)
(* reconciler, the executors and the commands.  Each may be saved at any   *)
(* time, so what is to hold of the row must hold of every copy.  The types *)
(* are no finer than that needs: instants have no horizon.                 *)
(***************************************************************************)
Instant == Nat \union {Never}
State == Active \union InDeletion \union {"review", "none"}
Copy == [state : State, from : State, anchor : Instant, through : Instant]
Machine == {"building", "running", "stopped", "leaving", "gone"}
HoldState == {"created", "captured", "released"}
OpState == {"none", "pending", "in_flight", "completed", "failed"}

(* Activated in the past, not taken for gone too early, not shown unpaid. *)
CopyOK(rec, t, machine) ==
    /\ rec.anchor <= t
    /\ "deleted" \in {rec.state, rec.from} => machine = "gone"
    /\ rec.state = "running" \/ (rec.state = "review" /\ rec.from = "running")
           => rec.through # Never

RowFine(rec, t, machine) == rec \in Copy /\ CopyOK(rec, t, machine)

Holder == [kind : {"run", "renew", "ready", "power", "final"},
           at : {"next", "anchor", "settle", "post", "record", "advance", "unpaid", "over"},
           srv : Servers, todo : SUBSET Servers, copies : [Servers -> Copy], snap : Copy,
           moment : Nat, until : Int, start : Instant, key : {"capture", "usage"} \X Int,
           ok : BOOLEAN]

(* An hour reported as bought is in the copy that goes with the report. *)
JobFine(j, t, machines) ==
    j # Idle =>
        /\ j \in Holder
        /\ CopyOK(j.snap, t, machines[j.srv])
        /\ \A s \in Servers : CopyOK(j.copies[s], t, machines[s])
        /\ j.moment <= t
        /\ j.at = "over" /\ j.ok => j.snap.through # Never

Sweeper == [at : {"probe", "wait", "save"}, srv : Servers, snap : Copy,
            to : {"running", "stopped", "review", "none"}]

SweepFine(w, t, machines) ==
    w # Idle =>
        /\ w \in Sweeper
        /\ CopyOK(w.snap, t, machines[w.srv])
        /\ w.at = "save" /\ w.to = "running" => w.snap.through # Never

Switch == [at : {"wait", "call", "save"}, srv : Servers, snap : Copy, to : {"running", "stopped"}]

PowerFine(w, t, machines) ==
    w # Idle =>
        /\ w \in Switch
        /\ CopyOK(w.snap, t, machines[w.srv])
        /\ w.at \in {"call", "save"} /\ w.to = "running" => w.snap.through # Never

Asker == [key : UserKeys, at : {"save", "create"}, snap : Copy]

AskFine(a, t, machine) == a # Idle => a \in Asker /\ CopyOK(a.snap, t, machine)

Executor == [at : {"gate", "deleting", "call", "probe", "mark", "final", "wait", "complete"},
             snap : Copy]

(* Past the proof of absence the machine is gone; past the final charge,   *)
(* the hold is spent or back.                                              *)
ExecFine(x, t, machine, held) ==
    x # Idle =>
        /\ x \in Executor
        /\ CopyOK(x.snap, t, machine)
        /\ x.at \in {"mark", "final", "wait", "complete"} => machine = "gone"
        /\ x.at \in {"wait", "complete"} => held # "created"

OpFine(status, machine, held) ==
    status \in OpState /\ (status = "completed" => machine = "gone" /\ held # "created")

(* The inductive invariant of the whole life-cycle. *)
LifeInv ==
    /\ now \in Nat
    /\ remote \in [Servers -> Machine]
    /\ hold \in [Servers -> HoldState]
    /\ row \in [Servers -> Copy]
    /\ asking \in [Servers -> Asker \union {Idle}]
    /\ exec \in [Ops -> Executor \union {Idle}]
    /\ op \in [Ops -> OpState]
    /\ \A s \in Servers : RowFine(row[s], now, remote[s]) /\ AskFine(asking[s], now, remote[s])
    /\ JobFine(job, now, remote) /\ SweepFine(sweep, now, remote) /\ PowerFine(power, now, remote)
    /\ \A o \in Ops : /\ ExecFine(exec[o], now, remote[o[1]], hold[o[1]])
                      /\ OpFine(op[o], remote[o[1]], hold[o[1]])

(* What every step does: time and the end of a machine are not undone, nor *)
(* is the end of a hold.                                                   *)
Onward ==
    /\ now' \in Nat /\ now <= now'
    /\ remote' \in [Servers -> Machine]
    /\ \A s \in Servers : remote[s] = "gone" => remote'[s] = "gone"
    /\ hold' \in [Servers -> HoldState]
    /\ \A s \in Servers : hold[s] # "created" => hold'[s] # "created"

-----------------------------------------------------------------------------
LEMMA LifeTime ==
    /\ Hour \in Nat \ {0} /\ Lead \in Nat
    /\ \A a \in Instant : a \in Int /\ a >= -1
    /\ Never = -1 /\ Never \in Instant /\ Nat \subseteq Instant /\ 0 \in Nat
BY TimeAssumption DEF Instant, Never

LEMMA OpServer ==
    /\ \A o \in Ops : o[1] \in Servers
    /\ \A s \in Servers, k \in OpKeys : <<s, k>> \in Ops /\ <<s, k>>[1] = s
BY DEF Ops

LEMMA IdleIsNobody ==
    /\ Idle \notin Holder /\ Idle \notin Sweeper /\ Idle \notin Switch
    /\ Idle \notin Asker /\ Idle \notin Executor
BY DEF Idle, Holder, Sweeper, Switch, Asker, Executor

LEMMA OrderedFine ==
    ASSUME NEW t \in Nat, NEW machine
    PROVE  RowFine(Ordered, t, machine)
BY LifeTime DEF RowFine, Copy, CopyOK, Ordered, State, Active, InDeletion

(* A copy that was right stays right. *)
LEMMA CopyStays ==
    ASSUME LifeInv, Onward, NEW s \in Servers, NEW rec \in Copy, CopyOK(rec, now, remote[s])
    PROVE  CopyOK(rec, now', remote'[s])
<1>1. rec.anchor \in Int /\ now \in Int /\ now' \in Int /\ now <= now'
  BY LifeTime DEF LifeInv, Onward, Copy
<1>2. QED
  BY <1>1 DEF CopyOK, Onward

LEMMA JobStays ==
    ASSUME LifeInv, Onward
    PROVE  JobFine(job, now', remote')
<1>1. SUFFICES ASSUME job # Idle PROVE JobFine(job, now', remote')
  BY DEF JobFine
<1>2. JobFine(job, now, remote)
  BY DEF LifeInv
<1>3. job \in Holder /\ job.moment \in Int /\ now \in Int /\ now' \in Int
  BY <1>1, <1>2 DEF JobFine, Holder, LifeInv, Onward
<1>4. CopyOK(job.snap, now', remote'[job.srv])
  BY <1>1, <1>2, <1>3, CopyStays DEF JobFine, Holder
<1>5. \A s \in Servers : CopyOK(job.copies[s], now', remote'[s])
  BY <1>1, <1>2, <1>3, CopyStays DEF JobFine, Holder
<1>6. QED
  BY <1>1, <1>2, <1>3, <1>4, <1>5 DEF JobFine, Onward

LEMMA MemoryStays ==
    ASSUME LifeInv, Onward
    PROVE  /\ SweepFine(sweep, now', remote') /\ PowerFine(power, now', remote')
           /\ \A s \in Servers : /\ RowFine(row[s], now', remote'[s])
                                 /\ AskFine(asking[s], now', remote'[s])
           /\ \A o \in Ops : /\ ExecFine(exec[o], now', remote'[o[1]], hold'[o[1]])
                             /\ OpFine(op[o], remote'[o[1]], hold'[o[1]])
<1>1. SweepFine(sweep, now', remote')
  <2>1. SweepFine(sweep, now, remote)
    BY DEF LifeInv
  <2>2. QED
    BY <2>1, CopyStays DEF SweepFine, Sweeper
<1>2. PowerFine(power, now', remote')
  <2>1. PowerFine(power, now, remote)
    BY DEF LifeInv
  <2>2. QED
    BY <2>1, CopyStays DEF PowerFine, Switch
<1>3. ASSUME NEW s \in Servers
      PROVE  RowFine(row[s], now', remote'[s]) /\ AskFine(asking[s], now', remote'[s])
  <2>1. RowFine(row[s], now, remote[s]) /\ AskFine(asking[s], now, remote[s])
    BY DEF LifeInv
  <2>2. QED
    BY <2>1, CopyStays DEF RowFine, AskFine, Asker
<1>4. ASSUME NEW o \in Ops
      PROVE  /\ ExecFine(exec[o], now', remote'[o[1]], hold'[o[1]])
             /\ OpFine(op[o], remote'[o[1]], hold'[o[1]])
  <2>1. /\ ExecFine(exec[o], now, remote[o[1]], hold[o[1]])
        /\ OpFine(op[o], remote[o[1]], hold[o[1]]) /\ o[1] \in Servers
    BY OpServer DEF LifeInv
  <2>2. ASSUME exec[o] # Idle PROVE exec[o] \in Executor /\ CopyOK(exec[o].snap, now', remote'[o[1]])
    BY <2>1, <2>2, CopyStays DEF ExecFine, Executor
  <2>3. QED
    BY <2>1, <2>2 DEF ExecFine, OpFine, Onward
<1>5. QED
  BY <1>1, <1>2, <1>3, <1>4

(***************************************************************************)
(* A step keeps the invariant when what it writes is fine.                 *)
(***************************************************************************)
RowWritten ==
    \E s \in Servers, rec \in Copy : RowFine(rec, now', remote'[s]) /\ row' = [row EXCEPT ![s] = rec]
AskWritten ==
    \E s \in Servers, a \in Asker \union {Idle} :
        AskFine(a, now', remote'[s]) /\ asking' = [asking EXCEPT ![s] = a]
ExecWritten ==
    \E o \in Ops, x \in Executor \union {Idle} :
        ExecFine(x, now', remote'[o[1]], hold'[o[1]]) /\ exec' = [exec EXCEPT ![o] = x]
OpWritten ==
    \E o \in Ops, st \in OpState : OpFine(st, remote'[o[1]], hold'[o[1]]) /\ op' = [op EXCEPT ![o] = st]

LEMMA Assemble ==
    ASSUME LifeInv, Onward,
           row' = row \/ RowWritten,
           job' = job \/ JobFine(job', now', remote'),
           sweep' = sweep \/ SweepFine(sweep', now', remote'),
           power' = power \/ PowerFine(power', now', remote'),
           asking' = asking \/ AskWritten,
           exec' = exec \/ ExecWritten,
           op' = op \/ OpWritten
    PROVE  LifeInv'
<1>1. /\ now' \in Nat /\ remote' \in [Servers -> Machine] /\ hold' \in [Servers -> HoldState]
  BY DEF Onward
<1>2. /\ JobFine(job', now', remote') /\ SweepFine(sweep', now', remote')
      /\ PowerFine(power', now', remote')
  BY JobStays, MemoryStays
<1>3. row' \in [Servers -> Copy] /\ \A s \in Servers : RowFine(row'[s], now', remote'[s])
  <2>1. row \in [Servers -> Copy] /\ \A s \in Servers : RowFine(row[s], now', remote'[s])
    BY MemoryStays DEF LifeInv
  <2>2. CASE row' = row
    BY <2>1, <2>2
  <2>3. CASE RowWritten
    <3>1. PICK s \in Servers, rec \in Copy : /\ RowFine(rec, now', remote'[s])
                                             /\ row' = [row EXCEPT ![s] = rec]
      BY <2>3 DEF RowWritten, RowFine
    <3>2. rec \in Copy
      BY <3>1 DEF RowFine
    <3>3. QED
      BY <2>1, <3>1, <3>2
  <2>4. QED
    BY <2>2, <2>3
<1>4. /\ asking' \in [Servers -> Asker \union {Idle}]
      /\ \A s \in Servers : AskFine(asking'[s], now', remote'[s])
  <2>1. /\ asking \in [Servers -> Asker \union {Idle}]
        /\ \A s \in Servers : AskFine(asking[s], now', remote'[s])
    BY MemoryStays DEF LifeInv
  <2>2. CASE asking' = asking
    BY <2>1, <2>2
  <2>3. CASE AskWritten
    <3>1. PICK s \in Servers, a \in Asker \union {Idle} :
              /\ AskFine(a, now', remote'[s])
              /\ asking' = [asking EXCEPT ![s] = a]
      BY <2>3 DEF AskWritten
    <3>2. QED
      BY <2>1, <3>1
  <2>4. QED
    BY <2>2, <2>3
<1>5. /\ exec' \in [Ops -> Executor \union {Idle}]
      /\ \A o \in Ops : ExecFine(exec'[o], now', remote'[o[1]], hold'[o[1]])
  <2>1. /\ exec \in [Ops -> Executor \union {Idle}]
        /\ \A o \in Ops : ExecFine(exec[o], now', remote'[o[1]], hold'[o[1]])
    BY MemoryStays DEF LifeInv
  <2>2. CASE exec' = exec
    BY <2>1, <2>2
  <2>3. CASE ExecWritten
    <3>1. PICK o \in Ops, x \in Executor \union {Idle} :
              /\ ExecFine(x, now', remote'[o[1]], hold'[o[1]])
              /\ exec' = [exec EXCEPT ![o] = x]
      BY <2>3 DEF ExecWritten
    <3>2. QED
      BY <2>1, <3>1
  <2>4. QED
    BY <2>2, <2>3
<1>6. /\ op' \in [Ops -> OpState]
      /\ \A o \in Ops : OpFine(op'[o], remote'[o[1]], hold'[o[1]])
  <2>1. /\ op \in [Ops -> OpState]
        /\ \A o \in Ops : OpFine(op[o], remote'[o[1]], hold'[o[1]])
    BY MemoryStays DEF LifeInv
  <2>2. CASE op' = op
    BY <2>1, <2>2
  <2>3. CASE OpWritten
    <3>1. PICK o \in Ops, st \in OpState :
              /\ OpFine(st, remote'[o[1]], hold'[o[1]])
              /\ op' = [op EXCEPT ![o] = st]
      BY <2>3 DEF OpWritten, OpFine
    <3>2. st \in OpState
      BY <3>1 DEF OpFine
    <3>3. QED
      BY <2>1, <3>1, <3>2
  <2>4. QED
    BY <2>2, <2>3
<1>7. QED
  BY <1>1, <1>2, <1>3, <1>4, <1>5, <1>6 DEF LifeInv

-----------------------------------------------------------------------------
(* Billing. *)

LEMMA HolderFacts ==
    ASSUME LifeInv, job # Idle
    PROVE  /\ job \in Holder /\ job.srv \in Servers /\ job.snap \in Copy /\ job.start \in Instant
           /\ job.moment \in Nat /\ job.moment <= now /\ job.todo \in SUBSET Servers
           /\ job.copies \in [Servers -> Copy] /\ job.start \in Int /\ job.until \in Int
           /\ CopyOK(job.snap, now, remote[job.srv])
           /\ \A s \in Servers : CopyOK(job.copies[s], now, remote[s])
           /\ now \in Nat
<1>1. JobFine(job, now, remote) /\ now \in Nat
  BY DEF LifeInv
<1>2. QED
  BY <1>1, LifeTime DEF JobFine, Holder

LEMMA SameWorld ==
    ASSUME LifeInv, UNCHANGED <<now, remote, hold>>
    PROVE  Onward
BY DEF LifeInv, Onward

LEMMA OverFine ==
    ASSUME LifeInv, job # Idle, NEW ok \in BOOLEAN, NEW snap \in Copy,
           CopyOK(snap, now, remote[job.srv]), ok => snap.through # Never,
           ServerOver(ok, snap)
    PROVE  JobFine(job', now, remote)
<1>1. JobFine(job, now, remote) /\ job \in Holder
  BY HolderFacts DEF LifeInv
<1>2. CASE job.kind = "run" /\ job.todo # {}
  <2>1. job' = [job EXCEPT !.at = "next"]
    BY <1>2 DEF ServerOver
  <2>2. job' \in Holder
    BY <1>1, <2>1 DEF Holder
  <2>3. job'.snap = job.snap /\ job'.srv = job.srv /\ job'.copies = job.copies
        /\ job'.moment = job.moment /\ job'.at = "next"
    BY <1>1, <2>1 DEF Holder
  <2>4. QED
    BY <1>1, <2>2, <2>3 DEF JobFine
<1>3. CASE job.kind = "run" /\ job.todo = {}
  <2>1. job' = Idle
    BY <1>3 DEF ServerOver
  <2>2. QED
    BY <2>1 DEF JobFine
<1>4. CASE job.kind = "renew"
  <2>1. job' = Idle
    BY <1>4 DEF ServerOver
  <2>2. QED
    BY <2>1 DEF JobFine
<1>5. CASE job.kind \notin {"run", "renew"}
  <2>1. job' = [job EXCEPT !.at = "over", !.ok = ok, !.snap = snap, !.moment = 0,
                           !.until = 0, !.start = Never, !.key = Capture]
    BY <1>5 DEF ServerOver
  <2>2. job' \in Holder
    BY <1>1, <2>1, LifeTime DEF Holder, Capture
  <2>3. job'.snap = snap /\ job'.srv = job.srv /\ job'.copies = job.copies
        /\ job'.moment = 0 /\ job'.ok = ok
    BY <1>1, <2>1 DEF Holder
  <2>4. now \in Nat
    BY DEF LifeInv
  <2>5. QED
    BY <1>1, <2>2, <2>3, <2>4 DEF JobFine
<1>6. QED
  BY <1>2, <1>3, <1>4, <1>5

LEMMA FailedFine ==
    ASSUME LifeInv, job # Idle, Failed
    PROVE  JobFine(job', now, remote)
BY HolderFacts, OverFine DEF Failed

LEMMA OnFine ==
    ASSUME LifeInv, job # Idle, job' \in Holder,
           job'.srv = job.srv, job'.snap = job.snap, job'.copies = job.copies,
           job'.moment = job.moment, job'.at # "over"
    PROVE  JobFine(job', now, remote)
BY HolderFacts DEF JobFine

LEMMA GotoFine ==
    ASSUME LifeInv, job # Idle,
           NEW place \in {"post", "record", "advance", "unpaid"}, Goto(place)
    PROVE  JobFine(job', now, remote)
<1>1. job \in Holder /\ job' = [job EXCEPT !.at = place]
  BY HolderFacts DEF Goto
<1>2. job' \in Holder /\ job'.srv = job.srv /\ job'.snap = job.snap /\ job'.copies = job.copies
      /\ job'.moment = job.moment /\ job'.at # "over"
  BY <1>1 DEF Holder
<1>3. QED
  BY <1>2, OnFine

LEMMA RecordNext ==
    ASSUME LifeInv, job # Idle, NEW k \in {"capture", "usage"} \X Int,
           job' = [job EXCEPT !.at = "record", !.key = k]
    PROVE  JobFine(job', now, remote)
<1>1. job \in Holder
  BY HolderFacts
<1>2. job' \in Holder /\ job'.srv = job.srv /\ job'.snap = job.snap /\ job'.copies = job.copies
      /\ job'.moment = job.moment /\ job'.at # "over"
  BY <1>1 DEF Holder
<1>3. QED
  BY <1>2, OnFine

(* A new holder works on the stored row. *)
LEMMA FreshFine ==
    ASSUME LifeInv, NEW s \in Servers, NEW kind \in {"run", "renew", "ready", "power", "final"},
           NEW snap \in Copy, CopyOK(snap, now, remote[s]), NEW until \in Int,
           NEW j, j = Fresh(kind, s, snap, until)
    PROVE  j \in Holder /\ JobFine(j, now, remote)
<1>1. now \in Nat
  BY DEF LifeInv
<1>2. Last(snap) \in Instant
  BY DEF Last, Copy
<1>3. Ordered \in Copy /\ \A x \in Servers : CopyOK(Ordered, now, remote[x])
  BY <1>1, OrderedFine DEF RowFine
<1>4. j \in Holder
  BY <1>1, <1>2, <1>3 DEF Fresh, Holder, Capture
<1>5. j.snap = snap /\ j.srv = s /\ j.moment = now /\ j.at = "settle"
      /\ \A x \in Servers : j.copies[x] = Ordered
  BY DEF Fresh
<1>6. QED
  BY <1>1, <1>3, <1>4, <1>5 DEF JobFine

LEMMA RowFacts ==
    ASSUME LifeInv, NEW s \in Servers
    PROVE  row[s] \in Copy /\ CopyOK(row[s], now, remote[s]) /\ now \in Nat
BY DEF LifeInv, RowFine

LEMMA PrepayFine ==
    ASSUME LifeInv, NEW s \in Servers, NEW kind \in {"renew", "ready", "power"},
           NEW lead \in Nat, BeginPrepay(kind, s, lead)
    PROVE  JobFine(job', now, remote)
<1>1. row[s] \in Copy /\ CopyOK(row[s], now, remote[s]) /\ now \in Nat
  BY RowFacts
<1>2. PICK j : j = Fresh(kind, s, row[s], now + lead)
  OBVIOUS
<1>3. j \in Holder /\ JobFine(j, now, remote)
  <2>1. now + lead \in Int
    BY <1>1
  <2>2. QED
    BY <1>1, <1>2, <2>1, FreshFine
<1>4. j # Idle /\ j.snap = row[s] /\ j.srv = s /\ j.moment = now
  BY <1>2, <1>3, IdleIsNobody DEF Fresh
<1>5. CASE row[s].anchor = Never
  <2>1. job' = [j EXCEPT !.at = "anchor"]
    BY <1>2, <1>5 DEF BeginPrepay
  <2>2. job' \in Holder
    BY <1>3, <2>1 DEF Holder
  <2>3. job'.snap = j.snap /\ job'.srv = j.srv /\ job'.copies = j.copies /\ job'.moment = j.moment
        /\ job'.at = "anchor"
    BY <1>3, <2>1 DEF Holder
  <2>4. QED
    BY <1>3, <1>4, <2>2, <2>3 DEF JobFine
<1>6. CASE row[s].anchor # Never /\ Due(row[s], now + lead)
  <2>1. job' = j
    BY <1>2, <1>6 DEF BeginPrepay
  <2>2. QED
    BY <1>3, <2>1
<1>7. CASE row[s].anchor # Never /\ ~Due(row[s], now + lead)
  <2>1. job' = [j EXCEPT !.at = "over", !.ok = TRUE, !.moment = 0, !.until = 0, !.start = Never]
    BY <1>2, <1>7 DEF BeginPrepay
  <2>2. job' \in Holder
    BY <1>3, <2>1, LifeTime DEF Holder
  <2>3. job'.snap = j.snap /\ job'.srv = j.srv /\ job'.copies = j.copies /\ job'.moment = 0
    BY <1>3, <2>1 DEF Holder
  <2>4. row[s].through # Never
    <3>1. ~(Last(row[s]) <= now + lead)
      BY <1>7 DEF Due
    <3>2. row[s].anchor \in Int /\ row[s].anchor <= now
      BY <1>1, LifeTime DEF Copy, CopyOK
    <3>3. row[s].anchor <= now + lead
      BY <1>1, <3>2
    <3>4. QED
      BY <3>1, <3>3 DEF Last
  <2>5. QED
    BY <1>1, <1>3, <1>4, <2>2, <2>3, <2>4 DEF JobFine
<1>8. QED
  BY <1>5, <1>6, <1>7

(* What a billing step writes. *)
BillingFine == Onward /\ (row' = row \/ RowWritten) /\ JobFine(job', now', remote')

LEMMA RunFine ==
    ASSUME LifeInv, BeginRun, UNCHANGED remote
    PROVE  BillingFine
<1>1. UNCHANGED <<now, row, hold>>
  BY DEF BeginRun, moneyVars
<1>2. PICK due : due = {s \in Servers : row[s].state \in Active /\ Due(row[s], now)}
  OBVIOUS
<1>3. PICK s \in due : job' = [Fresh("run", s, row[s], now) EXCEPT
                                  !.todo = due \ {s},
                                  !.copies = [x \in Servers |-> IF x \in due THEN row[x] ELSE Ordered]]
  BY <1>2 DEF BeginRun
<1>4. s \in Servers /\ due \ {s} \in SUBSET Servers
  BY <1>2
<1>5. \A x \in Servers : row[x] \in Copy /\ CopyOK(row[x], now, remote[x])
  BY RowFacts
<1>6. now \in Nat /\ \A x \in Servers : Ordered \in Copy /\ CopyOK(Ordered, now, remote[x])
  BY OrderedFine DEF RowFine, LifeInv
<1>7. PICK j : j = Fresh("run", s, row[s], now)
  OBVIOUS
<1>8. j \in Holder /\ JobFine(j, now, remote) /\ j # Idle /\ j.at = "settle"
  <2>1. j \in Holder /\ JobFine(j, now, remote)
    BY <1>4, <1>5, <1>6, <1>7, FreshFine
  <2>2. QED
    BY <1>7, <2>1, IdleIsNobody DEF Fresh
<1>9. PICK c : c = [x \in Servers |-> IF x \in due THEN row[x] ELSE Ordered]
  OBVIOUS
<1>10. c \in [Servers -> Copy] /\ \A x \in Servers : CopyOK(c[x], now, remote[x])
  BY <1>5, <1>6, <1>9
<1>11. job' = [j EXCEPT !.todo = due \ {s}, !.copies = c]
  BY <1>3, <1>7, <1>9
<1>12. job' \in Holder
  BY <1>4, <1>8, <1>10, <1>11 DEF Holder
<1>13. /\ job'.snap = j.snap /\ job'.srv = j.srv /\ job'.copies = c /\ job'.moment = j.moment
       /\ job'.at = "settle"
  BY <1>8, <1>11 DEF Holder
<1>14. JobFine(job', now, remote)
  BY <1>8, <1>10, <1>12, <1>13 DEF JobFine
<1>15. QED
  BY <1>1, <1>14, SameWorld DEF BillingFine

LEMMA NextServerFine ==
    ASSUME LifeInv, NextServer, UNCHANGED remote
    PROVE  BillingFine
<1>1. UNCHANGED <<now, row, hold>> /\ job # Idle
  BY DEF NextServer, moneyVars, At, Idle
<1>2. PICK s \in job.todo :
          job' = [job EXCEPT !.at = "settle", !.srv = s, !.todo = @ \ {s},
                             !.snap = job.copies[s], !.start = Last(job.copies[s]), !.key = Capture]
  BY DEF NextServer
<1>3. job \in Holder /\ s \in Servers /\ job.copies[s] \in Copy /\ job.todo \ {s} \in SUBSET Servers
  BY <1>1, HolderFacts
<1>4. Last(job.copies[s]) \in Instant
  BY <1>3 DEF Last, Copy
<1>5. job' \in Holder
  <2>1. PICK r, rest, a : r = job.copies[s] /\ rest = job.todo \ {s} /\ a = Last(job.copies[s])
    OBVIOUS
  <2>2. job' = [job EXCEPT !.at = "settle", !.srv = s, !.todo = rest, !.snap = r, !.start = a,
                           !.key = Capture]
    BY <1>2, <2>1
  <2>3. Capture \in {"capture", "usage"} \X Int
    BY DEF Capture
  <2>4. QED
    BY <1>3, <1>4, <2>1, <2>2, <2>3 DEF Holder
<1>6. /\ job'.snap = job.copies[s] /\ job'.srv = s /\ job'.copies = job.copies
      /\ job'.moment = job.moment /\ job'.at = "settle"
  BY <1>2, <1>3 DEF Holder
<1>7. JobFine(job', now, remote)
  BY <1>1, <1>3, <1>5, <1>6, HolderFacts DEF JobFine
<1>8. QED
  BY <1>1, <1>7, SameWorld DEF BillingFine

LEMMA AnchorFine ==
    ASSUME LifeInv, Anchor, UNCHANGED remote
    PROVE  BillingFine
<1>1. UNCHANGED <<now, hold>> /\ job # Idle
      /\ SaveRow(job.srv, [job.snap EXCEPT !.anchor = job.moment])
      /\ job' = [job EXCEPT !.at = "settle", !.start = job.moment, !.snap.anchor = job.moment]
  BY DEF Anchor, moneyVars, At, Idle
<1>2. PICK saved : saved = [job.snap EXCEPT !.anchor = job.moment]
  OBVIOUS
<1>3. /\ job \in Holder /\ job.srv \in Servers /\ job.snap \in Copy /\ job.moment \in Nat
      /\ job.moment <= now /\ CopyOK(job.snap, now, remote[job.srv])
  BY <1>1, HolderFacts
<1>4. saved \in Copy /\ saved.anchor = job.moment /\ saved.state = job.snap.state
      /\ saved.from = job.snap.from /\ saved.through = job.snap.through
  BY <1>2, <1>3, LifeTime DEF Copy
<1>5. CopyOK(saved, now, remote[job.srv])
  BY <1>3, <1>4 DEF CopyOK
<1>6. row' = [row EXCEPT ![job.srv] = saved]
  BY <1>1, <1>2 DEF SaveRow
<1>7. job' \in Holder /\ job'.snap = saved /\ job'.srv = job.srv /\ job'.copies = job.copies
      /\ job'.moment = job.moment /\ job'.at = "settle"
  <2>1. job.moment \in Instant
    BY <1>3 DEF Instant
  <2>2. PICK moved : moved = [job EXCEPT !.at = "settle", !.start = job.moment, !.snap = saved]
    OBVIOUS
  <2>3. moved \in Holder
    BY <1>3, <1>4, <2>1, <2>2 DEF Holder
  <2>4. job' = moved
    BY <1>1, <1>2, <1>3, <2>2 DEF Holder
  <2>5. QED
    BY <1>3, <2>2, <2>3, <2>4 DEF Holder
<1>8. JobFine(job', now, remote)
  BY <1>1, <1>5, <1>7, HolderFacts DEF JobFine
<1>9. RowWritten
  <2>1. RowFine(saved, now', remote'[job.srv])
    BY <1>1, <1>4, <1>5 DEF RowFine
  <2>2. QED
    BY <1>3, <1>6, <2>1 DEF RowWritten, RowFine
<1>10. QED
  BY <1>1, <1>8, <1>9, SameWorld DEF BillingFine

LEMMA SettleFine ==
    ASSUME LifeInv, Replay \/ Skip \/ CaptureHold \/ Post \/ Debit \/ Record, UNCHANGED remote
    PROVE  BillingFine
<1>1. UNCHANGED <<now, row>> /\ job # Idle
  <2>1. UNCHANGED <<now, row>>
    BY DEF Replay, Skip, CaptureHold, Post, Debit, Record
  <2>2. job.at \in {"settle", "post", "record"}
    BY DEF Replay, Skip, CaptureHold, Post, Debit, Record, At
  <2>3. QED
    BY <2>1, <2>2 DEF Idle
<1>2. job \in Holder /\ job.srv \in Servers /\ job.start \in Int
  BY <1>1, HolderFacts
<1>3. Capture \in {"capture", "usage"} \X Int /\ Usage(job.start) \in {"capture", "usage"} \X Int
  BY <1>2 DEF Capture, Usage
<1>4. hold' = hold \/ \E h \in {"captured", "released"} : hold' = [hold EXCEPT ![job.srv] = h]
  BY DEF Replay, Skip, CaptureHold, Post, Debit, Record, moneyVars
<1>5. Onward
  <2>1. hold \in [Servers -> HoldState] /\ hold' \in [Servers -> HoldState]
        /\ \A s \in Servers : hold[s] # "created" => hold'[s] # "created"
    BY <1>2, <1>4 DEF LifeInv, HoldState
  <2>2. QED
    BY <1>1, <2>1 DEF LifeInv, Onward
<1>6. JobFine(job', now, remote)
  <2>1. CASE Replay
    <3>1. CASE Failed
      BY <1>1, <3>1, FailedFine
    <3>2. CASE \E key \in Found : job' = [job EXCEPT !.at = "record", !.key = key]
      <4>1. PICK key \in Found : job' = [job EXCEPT !.at = "record", !.key = key]
        BY <3>2
      <4>2. key \in {"capture", "usage"} \X Int
        BY <1>3, <4>1 DEF Found, CandidateKeys
      <4>3. QED
        BY <1>1, <4>1, <4>2, RecordNext
    <3>3. QED
      BY <2>1, <3>1, <3>2 DEF Replay
  <2>2. CASE Skip
    <3>1. Goto("post") \/ Goto("advance")
      BY <2>2 DEF Skip
    <3>2. QED
      BY <1>1, <3>1, GotoFine
  <2>3. CASE CaptureHold
    <3>1. Goto("post") \/ Goto("unpaid")
      BY <2>3 DEF CaptureHold
    <3>2. QED
      BY <1>1, <3>1, GotoFine
  <2>4. CASE Post
    <3>1. job' = [job EXCEPT !.at = "record", !.key = Capture]
      BY <2>4 DEF Post
    <3>2. QED
      BY <1>1, <1>3, <3>1, RecordNext
  <2>5. CASE Debit
    <3>1. \/ Failed \/ Goto("unpaid")
          \/ job' = [job EXCEPT !.at = "record", !.key = Usage(job.start)]
      BY <2>5 DEF Debit
    <3>2. QED
      BY <1>1, <1>3, <3>1, RecordNext, GotoFine, FailedFine
  <2>6. CASE Record
    <3>1. Failed \/ Goto("advance")
      BY <2>6 DEF Record
    <3>2. QED
      BY <1>1, <3>1, GotoFine, FailedFine
  <2>7. QED
    BY <2>1, <2>2, <2>3, <2>4, <2>5, <2>6
<1>7. QED
  BY <1>1, <1>5, <1>6 DEF BillingFine

LEMMA AdvanceFine ==
    ASSUME LifeInv, Advance, UNCHANGED remote
    PROVE  BillingFine
<1>1. UNCHANGED <<now, hold>> /\ job # Idle
  BY DEF Advance, moneyVars, At, Idle
<1>2. PICK through : through = IF job.snap.through > Advanced THEN job.snap.through ELSE Advanced
  OBVIOUS
<1>3. PICK saved : saved = [job.snap EXCEPT !.through = through]
  OBVIOUS
<1>4. /\ row' = [row EXCEPT ![job.srv] = saved]
      /\ \/ job' = [job EXCEPT !.at = "settle", !.snap = saved, !.start = Advanced, !.key = Capture]
         \/ ServerOver(TRUE, saved)
  BY <1>2, <1>3 DEF Advance, SaveRow
<1>5. /\ job \in Holder /\ job.srv \in Servers /\ job.snap \in Copy /\ job.start \in Instant
      /\ CopyOK(job.snap, now, remote[job.srv])
  BY <1>1, HolderFacts
<1>6. Advanced \in Nat /\ through \in Nat
  <2>1. Advanced \in Nat
    <3>1. job.start \in Int /\ job.start >= -1
      BY <1>5, LifeTime
    <3>2. QED
      BY <3>1, LifeTime DEF Advanced
  <2>2. job.snap.through \in Int
    BY <1>5, LifeTime DEF Copy
  <2>3. QED
    BY <1>2, <2>1, <2>2
<1>7. /\ saved \in Copy /\ saved.through # Never /\ saved.anchor = job.snap.anchor
      /\ saved.state = job.snap.state /\ saved.from = job.snap.from
  BY <1>3, <1>5, <1>6, LifeTime DEF Copy
<1>8. CopyOK(saved, now, remote[job.srv])
  BY <1>5, <1>7 DEF CopyOK
<1>9. JobFine(job', now, remote)
  <2>1. CASE ServerOver(TRUE, saved)
    BY <1>1, <1>7, <1>8, <2>1, OverFine
  <2>2. CASE job' = [job EXCEPT !.at = "settle", !.snap = saved, !.start = Advanced, !.key = Capture]
    <3>1. job' \in Holder
      BY <1>5, <1>6, <1>7, <2>2, LifeTime DEF Holder, Capture
    <3>2. job'.snap = saved /\ job'.srv = job.srv /\ job'.copies = job.copies
          /\ job'.moment = job.moment /\ job'.at = "settle"
      BY <1>5, <2>2 DEF Holder
    <3>3. QED
      BY <1>1, <1>8, <3>1, <3>2, HolderFacts DEF JobFine
  <2>3. QED
    BY <1>4, <2>1, <2>2
<1>10. RowWritten
  <2>1. RowFine(saved, now', remote'[job.srv])
    BY <1>1, <1>7, <1>8 DEF RowFine
  <2>2. QED
    BY <1>4, <1>5, <2>1 DEF RowWritten, RowFine
<1>11. QED
  BY <1>1, <1>9, <1>10, SameWorld DEF BillingFine

LEMMA RequestFine ==
    ASSUME LifeInv, RequestDeletion, UNCHANGED remote
    PROVE  BillingFine
<1>1. UNCHANGED <<now, hold>> /\ job # Idle /\ Failed
  BY DEF RequestDeletion, moneyVars, At, Idle
<1>2. PICK saved : saved = [job.snap EXCEPT !.state = "requested"]
  OBVIOUS
<1>3. row' = row \/ row' = [row EXCEPT ![job.srv] = saved]
  BY <1>2 DEF RequestDeletion, SaveRow
<1>4. job.srv \in Servers /\ job.snap \in Copy /\ CopyOK(job.snap, now, remote[job.srv])
  BY <1>1, HolderFacts
<1>5. /\ saved \in Copy /\ saved.state = "requested" /\ saved.anchor = job.snap.anchor
      /\ saved.from = job.snap.from
  BY <1>2, <1>4 DEF Copy, State, InDeletion
<1>6. CopyOK(saved, now, remote[job.srv])
  BY <1>4, <1>5 DEF CopyOK
<1>7. row' = row \/ RowWritten
  <2>1. RowFine(saved, now', remote'[job.srv])
    BY <1>1, <1>5, <1>6 DEF RowFine
  <2>2. QED
    BY <1>3, <1>4, <2>1 DEF RowWritten, RowFine
<1>8. QED
  BY <1>1, <1>7, FailedFine, SameWorld DEF BillingFine

LEMMA JobStepFine ==
    ASSUME LifeInv, JobStep, UNCHANGED remote
    PROVE  BillingFine
BY NextServerFine, AnchorFine, SettleFine, AdvanceFine, RequestFine DEF JobStep

LEMMA BillingKeeps ==
    ASSUME LifeInv, Billing
    PROVE  LifeInv'
<1>1. UNCHANGED <<remote, op, exec, asking, sweep, power>>
  BY DEF Billing, sagaVars
<1>2. BillingFine
  <2>1. CASE BeginRun
    BY <1>1, <2>1, RunFine
  <2>2. CASE JobStep
    BY <1>1, <2>2, JobStepFine
  <2>3. CASE Stumble
    <3>1. job # Idle /\ Failed /\ UNCHANGED <<now, row, hold>>
      BY <2>3 DEF Stumble, Working, moneyVars
    <3>2. QED
      BY <1>1, <3>1, FailedFine, SameWorld DEF BillingFine
  <2>4. CASE TopUp \/ Spend \/ Tick
    <3>1. UNCHANGED <<row, hold, job>> /\ (now' = now \/ now' = now + 1)
      BY <2>4 DEF TopUp, Spend, Tick, moneyVars
    <3>2. Onward
      BY <1>1, <3>1 DEF LifeInv, Onward
    <3>3. QED
      BY <3>1, <3>2, JobStays DEF BillingFine
  <2>5. ASSUME NEW s \in Servers, BeginRenewal(s)
        PROVE  BillingFine
    <3>1. BeginPrepay("renew", s, Lead) /\ UNCHANGED <<now, row, hold>>
      BY <2>5 DEF BeginRenewal, BeginPrepay, moneyVars
    <3>2. QED
      BY <1>1, <3>1, LifeTime, PrepayFine, SameWorld DEF BillingFine
  <2>6. CASE JobDies
    <3>1. job' = Idle /\ UNCHANGED <<now, row, hold>>
      BY <2>6 DEF JobDies, moneyVars
    <3>2. QED
      BY <1>1, <3>1, SameWorld DEF BillingFine, JobFine
  <2>7. QED
    BY <2>1, <2>2, <2>3, <2>4, <2>5, <2>6 DEF Billing
<1>3. QED
  BY <1>1, <1>2, Assemble DEF BillingFine

-----------------------------------------------------------------------------
(* The reconciler, and the customer's power command. *)

LEMMA NothingMoves ==
    ASSUME LifeInv, UNCHANGED <<billingVars, remote>>
    PROVE  Onward /\ UNCHANGED <<now, row, job, hold>>
BY SameWorld DEF billingVars, moneyVars

LEMMA CollectFine ==
    ASSUME LifeInv, NEW kind, NEW s, NEW ok, Collect(kind, s, ok)
    PROVE  /\ job # Idle /\ JobFine(job', now, remote)
           /\ job.srv = s /\ job.ok = ok /\ job.at = "over" /\ s \in Servers
           /\ job.snap \in Copy /\ CopyOK(job.snap, now, remote[s])
           /\ ok = TRUE => job.snap.through # Never
<1>1. job # Idle /\ job' = Idle /\ job.srv = s /\ job.ok = ok /\ job.at = "over"
  BY DEF Collect, At
<1>2. JobFine(job, now, remote)
  BY DEF LifeInv
<1>3. QED
  BY <1>1, <1>2, HolderFacts DEF JobFine

LEMMA DiesFine ==
    ASSUME LifeInv, JobDies \/ (Stumbled /\ UNCHANGED <<now, row, moneyVars, job>>),
           UNCHANGED remote
    PROVE  Onward /\ UNCHANGED row /\ (job' = job \/ JobFine(job', now', remote'))
<1>1. UNCHANGED <<now, row, hold>> /\ (job' = job \/ job' = Idle)
  BY DEF JobDies, moneyVars
<1>2. QED
  BY <1>1, SameWorld DEF JobFine

LEMMA SweepListsKeeps ==
    ASSUME LifeInv, NEW s \in Servers, SweepLists(s)
    PROVE  LifeInv'
<1>1. /\ UNCHANGED <<billingVars, remote, op, exec, asking, power>>
      /\ sweep' = [at |-> "probe", srv |-> s, snap |-> row[s], to |-> "none"]
  BY DEF SweepLists
<1>2. SweepFine(sweep', now, remote)
  <2>1. sweep' \in Sweeper /\ sweep'.snap = row[s] /\ sweep'.srv = s /\ sweep'.at = "probe"
    BY <1>1, RowFacts DEF Sweeper
  <2>2. QED
    BY <2>1, RowFacts DEF SweepFine
<1>3. QED
  BY <1>1, <1>2, NothingMoves, Assemble

LEMMA SweepFacts ==
    ASSUME LifeInv, sweep # Idle
    PROVE  /\ sweep \in Sweeper /\ sweep.srv \in Servers /\ sweep.snap \in Copy
           /\ CopyOK(sweep.snap, now, remote[sweep.srv])
           /\ sweep.at = "save" /\ sweep.to = "running" => sweep.snap.through # Never
<1>1. SweepFine(sweep, now, remote)
  BY DEF LifeInv
<1>2. QED
  BY <1>1 DEF SweepFine, Sweeper

LEMMA SweepProbesKeeps ==
    ASSUME LifeInv, SweepProbes
    PROVE  LifeInv'
<1>1. UNCHANGED <<remote, op, exec, asking, power>> /\ sweep # Idle
  BY DEF SweepProbes
<1>2. PICK plan : plan = Plan(sweep.snap.state, remote[sweep.srv])
  OBVIOUS
<1>3. \/ /\ plan \in {"running", "none"}
         /\ BeginPrepay("ready", sweep.srv, 0)
         /\ sweep' = [sweep EXCEPT !.at = "wait", !.to = plan]
      \/ SweepEnds /\ UNCHANGED billingVars
      \/ /\ plan \in {"stopped", "review"}
         /\ sweep' = [sweep EXCEPT !.at = "save", !.to = plan]
         /\ UNCHANGED billingVars
  BY <1>2 DEF SweepProbes
<1>4. /\ sweep \in Sweeper /\ sweep.srv \in Servers
      /\ CopyOK(sweep.snap, now, remote[sweep.srv])
  BY <1>1, SweepFacts
<1>5. Onward /\ UNCHANGED row /\ (job' = job \/ JobFine(job', now', remote'))
  <2>1. CASE UNCHANGED billingVars
    BY <1>1, <2>1, NothingMoves
  <2>2. CASE BeginPrepay("ready", sweep.srv, 0)
    <3>1. UNCHANGED <<now, row, hold>>
      BY <2>2 DEF BeginPrepay, moneyVars
    <3>2. JobFine(job', now, remote)
      BY <1>4, <2>2, PrepayFine
    <3>3. QED
      BY <1>1, <3>1, <3>2, SameWorld
  <2>3. QED
    BY <1>3, <2>1, <2>2
<1>6. SweepFine(sweep', now', remote')
  <2>1. UNCHANGED <<now, remote>>
    BY <1>1, <1>3 DEF BeginPrepay, billingVars
  <2>2. CASE SweepEnds
    BY <2>2 DEF SweepEnds, SweepFine
  <2>3. CASE plan \in {"running", "none"} /\ sweep' = [sweep EXCEPT !.at = "wait", !.to = plan]
    <3>1. sweep' \in Sweeper /\ sweep'.snap = sweep.snap /\ sweep'.srv = sweep.srv /\ sweep'.at = "wait"
      BY <1>4, <2>3 DEF Sweeper
    <3>2. QED
      BY <1>4, <2>1, <3>1 DEF SweepFine
  <2>4. CASE plan \in {"stopped", "review"} /\ sweep' = [sweep EXCEPT !.at = "save", !.to = plan]
    <3>1. sweep' \in Sweeper /\ sweep'.snap = sweep.snap /\ sweep'.srv = sweep.srv
          /\ sweep'.to # "running"
      BY <1>4, <2>4 DEF Sweeper
    <3>2. QED
      BY <1>4, <2>1, <3>1 DEF SweepFine
  <2>5. QED
    BY <1>3, <2>2, <2>3, <2>4
<1>7. QED
  BY <1>1, <1>5, <1>6, Assemble

LEMMA SweepCollectsKeeps ==
    ASSUME LifeInv, SweepCollects
    PROVE  LifeInv'
<1>1. /\ UNCHANGED <<now, row, hold, remote, op, exec, asking, power>> /\ sweep # Idle
  BY DEF SweepCollects, moneyVars
<1>2. \/ Collect("ready", sweep.srv, FALSE) /\ sweep' = Idle
      \/ Collect("ready", sweep.srv, TRUE) /\ sweep' = Idle
      \/ /\ Collect("ready", sweep.srv, TRUE)
         /\ \E to \in {"review", "running"} :
                sweep' = [sweep EXCEPT !.at = "save", !.snap = job.snap, !.to = to]
  BY DEF SweepCollects, SweepEnds
<1>3. JobFine(job', now, remote)
  BY <1>2, CollectFine
<1>4. SweepFine(sweep', now, remote)
  <2>1. CASE sweep' = Idle
    BY <2>1 DEF SweepFine
  <2>2. ASSUME Collect("ready", sweep.srv, TRUE), NEW to \in {"review", "running"},
               sweep' = [sweep EXCEPT !.at = "save", !.snap = job.snap, !.to = to]
        PROVE  SweepFine(sweep', now, remote)
    <3>1. sweep \in Sweeper
      BY <1>1, SweepFacts
    <3>2. job.snap \in Copy /\ CopyOK(job.snap, now, remote[sweep.srv]) /\ job.snap.through # Never
      BY <2>2, CollectFine
    <3>3. sweep' \in Sweeper /\ sweep'.snap = job.snap /\ sweep'.srv = sweep.srv
      BY <2>2, <3>1, <3>2 DEF Sweeper
    <3>4. QED
      BY <3>2, <3>3 DEF SweepFine
  <2>3. QED
    BY <1>2, <2>1, <2>2
<1>5. QED
  BY <1>1, <1>3, <1>4, SameWorld, Assemble

LEMMA SweepSavesKeeps ==
    ASSUME LifeInv, SweepSaves
    PROVE  LifeInv'
<1>1. /\ UNCHANGED <<now, hold, job, remote, op, exec, asking, power>>
      /\ sweep # Idle /\ sweep.at = "save" /\ sweep' = Idle
  BY DEF SweepSaves, SweepEnds, moneyVars
<1>2. PICK rec : rec = IF sweep.to = "review" THEN Contained(sweep.snap)
                       ELSE [sweep.snap EXCEPT !.state = sweep.to]
  OBVIOUS
<1>3. row' = [row EXCEPT ![sweep.srv] = rec]
  BY <1>2 DEF SweepSaves, SaveRow
<1>4. /\ sweep.srv \in Servers /\ sweep.snap \in Copy /\ CopyOK(sweep.snap, now, remote[sweep.srv])
      /\ sweep.to = "running" => sweep.snap.through # Never
      /\ sweep.to \in {"running", "stopped", "review", "none"}
  BY <1>1, SweepFacts DEF Sweeper
<1>5. RowFine(rec, now, remote[sweep.srv])
  <2>1. CASE sweep.to = "review"
    <3>1. /\ rec \in Copy /\ rec.state = "review" /\ rec.from = sweep.snap.state
          /\ rec.anchor = sweep.snap.anchor /\ rec.through = sweep.snap.through
      BY <1>2, <1>4, <2>1 DEF Contained, Copy, State
    <3>2. QED
      BY <1>4, <3>1 DEF RowFine, CopyOK
  <2>2. CASE sweep.to # "review"
    <3>1. /\ rec \in Copy /\ rec.state = sweep.to /\ rec.from = sweep.snap.from
          /\ rec.anchor = sweep.snap.anchor /\ rec.through = sweep.snap.through
      BY <1>2, <1>4, <2>2 DEF Copy, State, Active
    <3>2. QED
      BY <1>4, <2>2, <3>1 DEF RowFine, CopyOK
  <2>3. QED
    BY <2>1, <2>2
<1>6. RowWritten
  BY <1>1, <1>3, <1>4, <1>5 DEF RowWritten, RowFine
<1>7. SweepFine(sweep', now', remote')
  BY <1>1 DEF SweepFine
<1>8. QED
  BY <1>1, <1>6, <1>7, SameWorld, Assemble

LEMMA SweepDiesKeeps ==
    ASSUME LifeInv, SweepDies
    PROVE  LifeInv'
<1>1. UNCHANGED <<remote, op, exec, asking, power>> /\ sweep' = Idle
      /\ (JobDies \/ (Stumbled /\ UNCHANGED <<now, row, moneyVars, job>>))
  BY DEF SweepDies, SweepEnds
<1>2. SweepFine(sweep', now', remote')
  BY <1>1 DEF SweepFine
<1>3. QED
  BY <1>1, <1>2, DiesFine, Assemble

LEMMA ReleaseKeeps ==
    ASSUME LifeInv, NEW s \in Servers, Release(s)
    PROVE  LifeInv'
<1>1. /\ UNCHANGED <<now, hold, job, remote, op, exec, asking, sweep, power>>
      /\ row[s].state = "review"
  BY DEF Release, moneyVars, sagaVars
<1>2. PICK rec : rec = [row[s] EXCEPT !.state = row[s].from, !.from = "none"]
  OBVIOUS
<1>3. row' = [row EXCEPT ![s] = rec]
  BY <1>2 DEF Release, SaveRow
<1>4. row[s] \in Copy /\ CopyOK(row[s], now, remote[s])
  BY RowFacts
<1>5. /\ rec \in Copy /\ rec.state = row[s].from /\ rec.from = "none"
      /\ rec.anchor = row[s].anchor /\ rec.through = row[s].through
  BY <1>2, <1>4 DEF Copy, State
<1>6. RowFine(rec, now, remote[s])
  BY <1>1, <1>4, <1>5 DEF RowFine, CopyOK
<1>7. RowWritten
  BY <1>1, <1>3, <1>6 DEF RowWritten, RowFine
<1>8. QED
  BY <1>1, <1>7, SameWorld, Assemble

LEMMA PowerAsksKeeps ==
    ASSUME LifeInv, NEW s \in Servers, NEW to \in {"running", "stopped"}, PowerAsks(s, to)
    PROVE  LifeInv'
<1>1. UNCHANGED <<remote, op, exec, asking, sweep>>
  BY DEF PowerAsks
<1>2. \/ /\ to = "running" /\ BeginPrepay("power", s, 0)
         /\ power' = [at |-> "wait", srv |-> s, snap |-> row[s], to |-> to]
      \/ /\ to = "stopped" /\ UNCHANGED billingVars
         /\ power' = [at |-> "call", srv |-> s, snap |-> row[s], to |-> to]
  BY DEF PowerAsks
<1>3. Onward /\ UNCHANGED <<now, row>> /\ (job' = job \/ JobFine(job', now', remote'))
  <2>1. CASE UNCHANGED billingVars
    BY <1>1, <2>1, NothingMoves
  <2>2. CASE BeginPrepay("power", s, 0)
    <3>1. UNCHANGED <<now, row, hold>>
      BY <2>2 DEF BeginPrepay, moneyVars
    <3>2. JobFine(job', now, remote)
      BY <2>2, PrepayFine
    <3>3. QED
      BY <1>1, <3>1, <3>2, SameWorld
  <2>3. QED
    BY <1>2, <2>1, <2>2
<1>4. PowerFine(power', now', remote')
  <2>1. /\ power' \in Switch /\ power'.snap = row[s] /\ power'.srv = s
        /\ power'.at \in {"call", "save"} => power'.to # "running"
    BY <1>2, RowFacts DEF Switch
  <2>2. QED
    BY <1>1, <1>3, <2>1, RowFacts DEF PowerFine
<1>5. QED
  BY <1>1, <1>3, <1>4, Assemble

LEMMA PowerFacts ==
    ASSUME LifeInv, power # Idle
    PROVE  /\ power \in Switch /\ power.srv \in Servers /\ power.snap \in Copy
           /\ power.to \in {"running", "stopped"}
           /\ CopyOK(power.snap, now, remote[power.srv])
           /\ power.at \in {"call", "save"} /\ power.to = "running" => power.snap.through # Never
<1>1. PowerFine(power, now, remote)
  BY DEF LifeInv
<1>2. QED
  BY <1>1 DEF PowerFine, Switch

LEMMA PowerCollectsKeeps ==
    ASSUME LifeInv, PowerCollects
    PROVE  LifeInv'
<1>1. UNCHANGED <<now, row, hold, remote, op, exec, asking, sweep>> /\ power # Idle
  BY DEF PowerCollects, moneyVars
<1>2. \/ Collect("power", power.srv, FALSE) /\ power' = Idle
      \/ /\ Collect("power", power.srv, TRUE)
         /\ power' = [power EXCEPT !.at = "call", !.snap = job.snap]
  BY DEF PowerCollects, PowerEnds
<1>3. JobFine(job', now, remote)
  BY <1>2, CollectFine
<1>4. PowerFine(power', now, remote)
  <2>1. CASE power' = Idle
    BY <2>1 DEF PowerFine
  <2>2. CASE /\ Collect("power", power.srv, TRUE)
             /\ power' = [power EXCEPT !.at = "call", !.snap = job.snap]
    <3>1. job.snap \in Copy /\ CopyOK(job.snap, now, remote[power.srv]) /\ job.snap.through # Never
      BY <2>2, CollectFine
    <3>2. power' \in Switch /\ power'.snap = job.snap /\ power'.srv = power.srv
      BY <1>1, <2>2, <3>1, PowerFacts DEF Switch
    <3>3. QED
      BY <3>1, <3>2 DEF PowerFine
  <2>3. QED
    BY <1>2, <2>1, <2>2
<1>5. QED
  BY <1>1, <1>3, <1>4, SameWorld, Assemble

LEMMA PowerCallsKeeps ==
    ASSUME LifeInv, PowerCalls
    PROVE  LifeInv'
<1>1. UNCHANGED <<now, row, hold, job, op, exec, asking, sweep>> /\ power # Idle /\ power.at = "call"
  BY DEF PowerCalls, billingVars, moneyVars
<1>2. \/ power' = Idle /\ UNCHANGED remote
      \/ /\ remote[power.srv] \in {"running", "stopped"}
         /\ remote' = [remote EXCEPT ![power.srv] = power.to]
         /\ power' = [power EXCEPT !.at = "save"]
  BY DEF PowerCalls, PowerEnds
<1>3. /\ power \in Switch /\ power.srv \in Servers /\ power.to \in {"running", "stopped"}
      /\ CopyOK(power.snap, now, remote[power.srv])
      /\ power.to = "running" => power.snap.through # Never
  BY <1>1, PowerFacts
<1>4. Onward
  <2>1. remote' \in [Servers -> Machine] /\ \A s \in Servers : remote[s] = "gone" => remote'[s] = "gone"
    BY <1>2, <1>3 DEF LifeInv, Machine
  <2>2. QED
    BY <1>1, <2>1 DEF LifeInv, Onward
<1>5. PowerFine(power', now', remote')
  <2>1. CASE power' = Idle
    BY <2>1 DEF PowerFine
  <2>2. CASE power' = [power EXCEPT !.at = "save"]
    <3>1. power' \in Switch /\ power'.snap = power.snap /\ power'.srv = power.srv /\ power'.to = power.to
      BY <1>3, <2>2 DEF Switch
    <3>2. power.snap \in Copy
      BY <1>3 DEF Switch
    <3>3. CopyOK(power.snap, now', remote'[power.srv])
      BY <1>3, <1>4, <3>2, CopyStays
    <3>4. QED
      BY <1>3, <3>1, <3>3 DEF PowerFine
  <2>3. QED
    BY <1>2, <2>1, <2>2
<1>6. QED
  BY <1>1, <1>4, <1>5, Assemble

LEMMA PowerSavesKeeps ==
    ASSUME LifeInv, PowerSaves
    PROVE  LifeInv'
<1>1. /\ UNCHANGED <<now, hold, job, remote, op, exec, asking, sweep>>
      /\ power # Idle /\ power.at = "save" /\ power' = Idle
  BY DEF PowerSaves, PowerEnds, moneyVars
<1>2. PICK rec : rec = [power.snap EXCEPT !.state = power.to]
  OBVIOUS
<1>3. row' = row \/ row' = [row EXCEPT ![power.srv] = rec]
  BY <1>2 DEF PowerSaves, SaveRow
<1>4. /\ power.srv \in Servers /\ power.snap \in Copy /\ power.to \in {"running", "stopped"}
      /\ CopyOK(power.snap, now, remote[power.srv])
      /\ power.to = "running" => power.snap.through # Never
  BY <1>1, PowerFacts
<1>5. /\ rec \in Copy /\ rec.state = power.to /\ rec.from = power.snap.from
      /\ rec.anchor = power.snap.anchor /\ rec.through = power.snap.through
  BY <1>2, <1>4 DEF Copy, State, Active
<1>6. RowFine(rec, now, remote[power.srv])
  BY <1>4, <1>5 DEF RowFine, CopyOK
<1>7. row' = row \/ RowWritten
  BY <1>1, <1>3, <1>4, <1>6 DEF RowWritten, RowFine
<1>8. PowerFine(power', now', remote')
  BY <1>1 DEF PowerFine
<1>9. QED
  BY <1>1, <1>7, <1>8, SameWorld, Assemble

LEMMA PowerDiesKeeps ==
    ASSUME LifeInv, PowerDies
    PROVE  LifeInv'
<1>1. UNCHANGED <<remote, op, exec, asking, sweep>> /\ power' = Idle
      /\ (JobDies \/ (Stumbled /\ UNCHANGED <<now, row, moneyVars, job>>))
  BY DEF PowerDies, PowerEnds
<1>2. PowerFine(power', now', remote')
  BY <1>1 DEF PowerFine
<1>3. QED
  BY <1>1, <1>2, DiesFine, Assemble

-----------------------------------------------------------------------------
(* The delete command. *)

LEMMA AskFacts ==
    ASSUME LifeInv, NEW s \in Servers, asking[s] # Idle
    PROVE  /\ asking \in [Servers -> Asker \union {Idle}]
           /\ asking[s] \in Asker /\ asking[s].key \in UserKeys /\ asking[s].snap \in Copy
           /\ CopyOK(asking[s].snap, now, remote[s])
<1>1. AskFine(asking[s], now, remote[s]) /\ asking \in [Servers -> Asker \union {Idle}]
  BY DEF LifeInv
<1>2. QED
  BY <1>1 DEF AskFine, Asker

LEMMA AskReadsKeeps ==
    ASSUME LifeInv, NEW s \in Servers, NEW k \in UserKeys, AskReads(s, k)
    PROVE  LifeInv'
<1>1. UNCHANGED <<billingVars, remote, op, exec, sweep, power>>
  BY DEF AskReads
<1>2. PICK a : a = [key |-> k, at |-> "save", snap |-> row[s]]
  OBVIOUS
<1>3. asking' = [asking EXCEPT ![s] = a]
  BY <1>2 DEF AskReads
<1>4. Onward /\ UNCHANGED <<now, row, job, hold, remote>>
  BY <1>1, NothingMoves
<1>5. a \in Asker /\ a.snap = row[s]
  BY <1>2, RowFacts DEF Asker
<1>6. AskFine(a, now', remote'[s])
  BY <1>4, <1>5, RowFacts DEF AskFine
<1>7. AskWritten
  BY <1>3, <1>5, <1>6 DEF AskWritten
<1>8. QED
  BY <1>1, <1>4, <1>7, Assemble

LEMMA AskSavesKeeps ==
    ASSUME LifeInv, NEW s \in Servers, AskSaves(s)
    PROVE  LifeInv'
<1>1. UNCHANGED <<now, hold, job, remote, op, exec, sweep, power>> /\ asking[s] # Idle
  BY DEF AskSaves, Asks, moneyVars
<1>2. PICK rec : rec = [asking[s].snap EXCEPT !.state = "requested", !.from = "none"]
  OBVIOUS
<1>3. PICK a : a = [asking[s] EXCEPT !.at = "create"]
  OBVIOUS
<1>4. /\ asking[s] \in Asker /\ asking[s].snap \in Copy /\ CopyOK(asking[s].snap, now, remote[s])
      /\ asking \in [Servers -> Asker \union {Idle}]
  BY <1>1, AskFacts
<1>5. row' = [row EXCEPT ![s] = rec] /\ asking' = [asking EXCEPT ![s] = a]
  BY <1>2, <1>3, <1>4 DEF AskSaves, SaveRow
<1>6. rec \in Copy /\ rec.state = "requested" /\ rec.from = "none" /\ rec.anchor = asking[s].snap.anchor
  BY <1>2, <1>4 DEF Copy, State, InDeletion
<1>7. RowFine(rec, now, remote[s])
  BY <1>4, <1>6 DEF RowFine, CopyOK
<1>8. a \in Asker /\ a.snap = asking[s].snap
  BY <1>3, <1>4 DEF Asker
<1>9. RowWritten
  BY <1>1, <1>5, <1>7 DEF RowWritten, RowFine
<1>10. AskFine(a, now', remote'[s])
  BY <1>1, <1>4, <1>8 DEF AskFine
<1>11. AskWritten
  BY <1>5, <1>8, <1>10 DEF AskWritten
<1>12. QED
  BY <1>1, <1>9, <1>11, SameWorld, Assemble

LEMMA AskEndsKeeps ==
    ASSUME LifeInv, NEW s \in Servers, AskCreates(s) \/ AskDies(s)
    PROVE  LifeInv'
<1>1. UNCHANGED <<now, row, hold, job, remote, exec, sweep, power>> /\ asking[s] # Idle
      /\ asking' = [asking EXCEPT ![s] = Idle]
  BY DEF AskCreates, AskDies, Asks, billingVars, moneyVars
<1>2. AskWritten
  BY <1>1 DEF AskWritten, AskFine
<1>3. op' = op \/ OpWritten
  <2>1. CASE AskDies(s)
    BY <2>1 DEF AskDies
  <2>2. CASE AskCreates(s)
    <3>1. op' = [op EXCEPT ![<<s, asking[s].key>>] = "pending"]
      BY <2>2 DEF AskCreates
    <3>2. <<s, asking[s].key>> \in Ops
      BY <1>1, AskFacts, OpServer DEF OpKeys
    <3>3. \A m, h : OpFine("pending", m, h)
      BY DEF OpFine, OpState
    <3>4. QED
      BY <3>1, <3>2, <3>3 DEF OpWritten, OpFine
  <2>3. QED
    BY <2>1, <2>2
<1>4. QED
  BY <1>1, <1>2, <1>3, SameWorld, Assemble

-----------------------------------------------------------------------------
(* The executors. *)

LEMMA ExecFacts ==
    ASSUME LifeInv, NEW o \in Ops, exec[o] # Idle
    PROVE  /\ exec \in [Ops -> Executor \union {Idle}]
           /\ exec[o] \in Executor /\ exec[o].snap \in Copy /\ o[1] \in Servers
           /\ CopyOK(exec[o].snap, now, remote[o[1]])
           /\ exec[o].at \in {"mark", "final", "wait", "complete"} => remote[o[1]] = "gone"
           /\ exec[o].at \in {"wait", "complete"} => hold[o[1]] # "created"
<1>1. ExecFine(exec[o], now, remote[o[1]], hold[o[1]]) /\ exec \in [Ops -> Executor \union {Idle}]
      /\ o[1] \in Servers
  BY OpServer DEF LifeInv
<1>2. QED
  BY <1>1 DEF ExecFine, Executor

(* An operation that is not completed claims nothing. *)
LEMMA OpSettled ==
    ASSUME NEW o \in Ops, NEW st \in {"pending", "in_flight", "failed"}, Settle(o, st)
    PROVE  OpWritten
<1>1. OpFine(st, remote'[o[1]], hold'[o[1]])
  BY DEF OpFine, OpState
<1>2. QED
  BY <1>1 DEF OpWritten, OpFine, Settle

LEMMA Leaves ==
    ASSUME NEW o \in Ops, Leave(o)
    PROVE  ExecWritten
<1>1. ExecFine(Idle, now', remote'[o[1]], hold'[o[1]])
  BY DEF ExecFine
<1>2. QED
  BY <1>1 DEF ExecWritten, Leave

(* The executor goes on with the copy it has. *)
LEMMA StepFine ==
    ASSUME LifeInv, Onward, NEW o \in Ops, exec[o] # Idle,
           NEW place \in {"call", "probe", "mark", "final", "wait"}, Step(o, place),
           place \in {"mark", "final", "wait"} => remote'[o[1]] = "gone",
           place = "wait" => hold'[o[1]] # "created"
    PROVE  ExecWritten
<1>1. /\ exec \in [Ops -> Executor \union {Idle}] /\ exec[o] \in Executor
      /\ exec[o].snap \in Copy /\ o[1] \in Servers /\ CopyOK(exec[o].snap, now, remote[o[1]])
  BY ExecFacts
<1>2. PICK x : x = [exec[o] EXCEPT !.at = place]
  OBVIOUS
<1>3. exec' = [exec EXCEPT ![o] = x]
  BY <1>1, <1>2 DEF Step
<1>4. x \in Executor /\ x.snap = exec[o].snap /\ x.at = place
  BY <1>1, <1>2 DEF Executor
<1>5. CopyOK(x.snap, now', remote'[o[1]])
  BY <1>1, <1>4, CopyStays
<1>6. ExecFine(x, now', remote'[o[1]], hold'[o[1]])
  BY <1>4, <1>5 DEF ExecFine
<1>7. QED
  BY <1>3, <1>4, <1>6 DEF ExecWritten

LEMMA EndFine ==
    ASSUME LifeInv, Onward, NEW o \in Ops, StepToEnd(o),
           remote'[o[1]] = "gone", hold'[o[1]] # "created"
    PROVE  ExecWritten
<1>1. PICK x : x = [at |-> "complete", snap |-> Ordered]
  OBVIOUS
<1>2. exec' = [exec EXCEPT ![o] = x]
  BY <1>1 DEF StepToEnd
<1>3. Ordered \in Copy /\ CopyOK(Ordered, now', remote'[o[1]])
  BY OrderedFine DEF RowFine, Onward
<1>4. x \in Executor /\ x.snap = Ordered
  BY <1>1, <1>3 DEF Executor
<1>5. ExecFine(x, now', remote'[o[1]], hold'[o[1]])
  BY <1>3, <1>4 DEF ExecFine
<1>6. QED
  BY <1>2, <1>4, <1>5 DEF ExecWritten

LEMMA ClaimKeeps ==
    ASSUME LifeInv, NEW o \in Ops, Claim(o)
    PROVE  LifeInv'
<1>1. UNCHANGED <<billingVars, remote, asking, sweep, power>> /\ Settle(o, "in_flight")
  BY DEF Claim
<1>2. PICK x : x = [at |-> "gate", snap |-> Ordered]
  OBVIOUS
<1>3. exec' = [exec EXCEPT ![o] = x]
  BY <1>2 DEF Claim
<1>4. Onward /\ UNCHANGED <<now, row, job, hold>>
  BY <1>1, NothingMoves
<1>5. Ordered \in Copy /\ CopyOK(Ordered, now', remote'[o[1]])
  BY <1>4, OrderedFine DEF RowFine, Onward
<1>6. x \in Executor /\ x.snap = Ordered /\ x.at = "gate"
  BY <1>2, <1>5 DEF Executor
<1>7. ExecFine(x, now', remote'[o[1]], hold'[o[1]])
  BY <1>5, <1>6 DEF ExecFine
<1>8. ExecWritten
  BY <1>3, <1>6, <1>7 DEF ExecWritten
<1>9. OpWritten
  BY <1>1, OpSettled
<1>10. QED
  BY <1>1, <1>4, <1>8, <1>9, Assemble

LEMMA GateKeeps ==
    ASSUME LifeInv, NEW o \in Ops, Gate(o)
    PROVE  LifeInv'
<1>1. UNCHANGED <<billingVars, remote, asking, sweep, power>> /\ exec[o] # Idle
  BY DEF Gate, Runs
<1>2. Onward /\ UNCHANGED <<now, row, job, hold, remote>>
  BY <1>1, NothingMoves
<1>3. CASE Leave(o) /\ Settle(o, "failed")
  <2>1. ExecWritten /\ OpWritten
    BY <1>3, Leaves, OpSettled
  <2>2. QED
    BY <1>1, <1>2, <2>1, Assemble
<1>4. CASE ~(Leave(o) /\ Settle(o, "failed"))
  <2>1. PICK x : x = [at |-> IF row[o[1]].state = "requested" THEN "deleting" ELSE "call",
                      snap |-> row[o[1]]]
    OBVIOUS
  <2>2. exec' = [exec EXCEPT ![o] = x] /\ op' = op
    BY <1>4, <2>1 DEF Gate
  <2>3. row[o[1]] \in Copy /\ CopyOK(row[o[1]], now, remote[o[1]])
    BY RowFacts, OpServer
  <2>4. x \in Executor /\ x.snap = row[o[1]] /\ x.at \in {"deleting", "call"}
    BY <2>1, <2>3 DEF Executor
  <2>5. ExecFine(x, now', remote'[o[1]], hold'[o[1]])
    BY <1>2, <2>3, <2>4 DEF ExecFine
  <2>6. ExecWritten
    BY <2>2, <2>4, <2>5 DEF ExecWritten
  <2>7. QED
    BY <1>1, <1>2, <2>2, <2>6, Assemble
<1>5. QED
  BY <1>3, <1>4

(* Saving the copy in a state of the deletion. *)
LEMMA SaveKeeps ==
    ASSUME LifeInv, NEW o \in Ops, exec[o] # Idle,
           NEW state \in {"deleting", "deleted"}, NEW place \in {"call", "final"},
           NEW saved, saved = [exec[o].snap EXCEPT !.state = state],
           SaveRow(o[1], saved),
           exec' = [exec EXCEPT ![o] = [at |-> place, snap |-> saved]],
           state = "deleted" \/ place = "final" => remote[o[1]] = "gone",
           UNCHANGED <<now, moneyVars, job, remote, op, asking, sweep, power>>
    PROVE  LifeInv'
<1>1. UNCHANGED <<now, hold, job, remote>>
  BY DEF moneyVars
<1>2. /\ exec[o].snap \in Copy /\ o[1] \in Servers /\ CopyOK(exec[o].snap, now, remote[o[1]])
  BY ExecFacts
<1>3. /\ saved \in Copy /\ saved.state = state /\ saved.from = exec[o].snap.from
      /\ saved.anchor = exec[o].snap.anchor
  BY <1>2 DEF Copy, State, InDeletion
<1>4. CopyOK(saved, now, remote[o[1]])
  BY <1>2, <1>3 DEF CopyOK
<1>5. RowWritten
  BY <1>1, <1>2, <1>3, <1>4 DEF RowWritten, RowFine, SaveRow
<1>6. PICK x : x = [at |-> place, snap |-> saved]
  OBVIOUS
<1>7. x \in Executor /\ x.snap = saved /\ x.at = place
  BY <1>3, <1>6 DEF Executor
<1>8. ExecFine(x, now', remote'[o[1]], hold'[o[1]])
  BY <1>1, <1>4, <1>7 DEF ExecFine
<1>9. ExecWritten
  BY <1>6, <1>7, <1>8 DEF ExecWritten
<1>10. QED
  BY <1>1, <1>5, <1>9, SameWorld, Assemble

LEMMA SaveDeletingKeeps ==
    ASSUME LifeInv, NEW o \in Ops, SaveDeleting(o)
    PROVE  LifeInv'
<1>1. PICK saved : saved = [exec[o].snap EXCEPT !.state = "deleting"]
  OBVIOUS
<1>2. QED
  BY <1>1, SaveKeeps DEF SaveDeleting, Runs

LEMMA MarkDeletedKeeps ==
    ASSUME LifeInv, NEW o \in Ops, MarkDeleted(o)
    PROVE  LifeInv'
<1>1. PICK saved : saved = [exec[o].snap EXCEPT !.state = "deleted"]
  OBVIOUS
<1>2. exec[o] # Idle /\ remote[o[1]] = "gone"
  BY ExecFacts DEF MarkDeleted, Runs
<1>3. QED
  BY <1>1, <1>2, SaveKeeps DEF MarkDeleted

LEMMA CallDeleteKeeps ==
    ASSUME LifeInv, NEW o \in Ops, CallDelete(o)
    PROVE  LifeInv'
<1>1. UNCHANGED <<now, row, hold, job, asking, sweep, power>> /\ exec[o] # Idle
  BY DEF CallDelete, Runs, moneyVars
<1>2. PICK applied : applied = IF remote[o[1]] = "gone" THEN "gone" ELSE "leaving"
  OBVIOUS
<1>3. /\ remote' = remote \/ remote' = [remote EXCEPT ![o[1]] = applied]
      /\ \/ Step(o, "probe") /\ op' = op
         \/ Leave(o) /\ (Settle(o, "pending") \/ Settle(o, "failed"))
  BY <1>2 DEF CallDelete, Settle
<1>4. Onward
  <2>1. remote' \in [Servers -> Machine] /\ \A s \in Servers : remote[s] = "gone" => remote'[s] = "gone"
    BY <1>2, <1>3 DEF LifeInv, Machine
  <2>2. QED
    BY <1>1, <2>1 DEF LifeInv, Onward
<1>5. CASE Step(o, "probe") /\ op' = op
  <2>1. ExecWritten
    BY <1>1, <1>4, <1>5, StepFine
  <2>2. QED
    BY <1>1, <1>4, <1>5, <2>1, Assemble
<1>6. CASE Leave(o) /\ (Settle(o, "pending") \/ Settle(o, "failed"))
  <2>1. ExecWritten /\ OpWritten
    BY <1>6, Leaves, OpSettled
  <2>2. QED
    BY <1>1, <1>4, <2>1, Assemble
<1>7. QED
  BY <1>3, <1>5, <1>6

LEMMA ProveAbsentKeeps ==
    ASSUME LifeInv, NEW o \in Ops, ProveAbsent(o)
    PROVE  LifeInv'
<1>1. UNCHANGED <<billingVars, remote, asking, sweep, power>> /\ exec[o] # Idle
  BY DEF ProveAbsent, Runs
<1>2. Onward /\ UNCHANGED <<now, row, job, hold, remote>>
  BY <1>1, NothingMoves
<1>3. CASE Absent(o)
  <2>1. op' = op /\ (Step(o, "final") \/ Step(o, "mark")) /\ remote[o[1]] = "gone"
    BY <1>3 DEF ProveAbsent, Absent
  <2>2. ExecWritten
    BY <1>1, <1>2, <2>1, StepFine
  <2>3. QED
    BY <1>1, <1>2, <2>1, <2>2, Assemble
<1>4. CASE ~Absent(o)
  <2>1. ExecWritten /\ OpWritten
    BY <1>4, Leaves, OpSettled DEF ProveAbsent
  <2>2. QED
    BY <1>1, <1>2, <2>1, Assemble
<1>5. QED
  BY <1>3, <1>4

LEMMA FinalizeKeeps ==
    ASSUME LifeInv, NEW o \in Ops, Finalize(o)
    PROVE  LifeInv'
<1>1. /\ UNCHANGED <<now, row, remote, op, asking, sweep, power>>
      /\ exec[o] # Idle /\ remote[o[1]] = "gone" /\ o[1] \in Servers
      /\ exec[o].snap \in Copy /\ CopyOK(exec[o].snap, now, remote[o[1]])
  BY ExecFacts DEF Finalize, Runs
<1>2. CASE job # Idle
  <2>1. Leave(o) /\ UNCHANGED <<hold, job>>
    BY <1>2 DEF Finalize
  <2>2. ExecWritten
    BY <2>1, Leaves
  <2>3. QED
    BY <1>1, <2>1, <2>2, SameWorld, Assemble
<1>3. CASE job = Idle /\ hold[o[1]] # "captured"
  <2>1. StepToEnd(o) /\ hold' = Released(o[1]) /\ job' = job
    BY <1>3 DEF Finalize
  <2>2. /\ hold' \in [Servers -> HoldState] /\ hold'[o[1]] # "created"
        /\ \A s \in Servers : hold[s] # "created" => hold'[s] # "created"
    BY <1>1, <2>1 DEF LifeInv, HoldState, Released
  <2>3. Onward
    BY <1>1, <2>2 DEF LifeInv, Onward
  <2>4. ExecWritten
    BY <1>1, <2>1, <2>2, <2>3, EndFine
  <2>5. QED
    BY <1>1, <2>1, <2>3, <2>4, Assemble
<1>4. CASE job = Idle /\ hold[o[1]] = "captured"
  <2>1. hold' = hold
    BY <1>4 DEF Finalize
  <2>2. Onward
    BY <1>1, <2>1, SameWorld
  <2>3. CASE exec[o].snap.anchor = Never
    <3>1. Leave(o) /\ job' = job
      BY <1>4, <2>3 DEF Finalize
    <3>2. ExecWritten
      BY <3>1, Leaves
    <3>3. QED
      BY <1>1, <2>2, <3>1, <3>2, Assemble
  <2>4. CASE exec[o].snap.anchor # Never
    <3>1. PICK j : j = Fresh("final", o[1], exec[o].snap, now)
      OBVIOUS
    <3>2. Step(o, "wait") /\ job' = [j EXCEPT !.start = exec[o].snap.anchor]
      BY <1>4, <2>4, <3>1 DEF Finalize
    <3>3. j \in Holder /\ JobFine(j, now, remote) /\ j # Idle /\ j.at = "settle"
      <4>1. now \in Int
        BY DEF LifeInv
      <4>2. j \in Holder /\ JobFine(j, now, remote)
        BY <1>1, <3>1, <4>1, FreshFine
      <4>3. QED
        BY <3>1, <4>2, IdleIsNobody DEF Fresh
    <3>4. exec[o].snap.anchor \in Instant
      BY <1>1 DEF Copy
    <3>5. job' \in Holder /\ job'.snap = j.snap /\ job'.srv = j.srv /\ job'.copies = j.copies
          /\ job'.moment = j.moment /\ job'.at = "settle"
      BY <3>2, <3>3, <3>4 DEF Holder
    <3>6. JobFine(job', now', remote')
      BY <1>1, <3>3, <3>5 DEF JobFine
    <3>7. ExecWritten
      BY <1>1, <1>4, <2>1, <2>2, <3>2, StepFine
    <3>8. QED
      BY <1>1, <2>2, <3>6, <3>7, Assemble
  <2>5. QED
    BY <2>3, <2>4
<1>5. QED
  BY <1>2, <1>3, <1>4

LEMMA FinalCollectsKeeps ==
    ASSUME LifeInv, NEW o \in Ops, FinalCollects(o)
    PROVE  LifeInv'
<1>1. /\ UNCHANGED <<now, row, hold, remote, op, asking, sweep, power>>
      /\ exec[o] # Idle /\ remote[o[1]] = "gone" /\ hold[o[1]] # "created"
  BY ExecFacts DEF FinalCollects, Runs, moneyVars
<1>2. Onward
  BY <1>1, SameWorld
<1>3. JobFine(job', now, remote)
  BY CollectFine DEF FinalCollects
<1>4. ExecWritten
  BY <1>1, <1>2, EndFine, Leaves DEF FinalCollects
<1>5. QED
  BY <1>1, <1>2, <1>3, <1>4, Assemble

LEMMA CompleteKeeps ==
    ASSUME LifeInv, NEW o \in Ops, Complete(o)
    PROVE  LifeInv'
<1>1. UNCHANGED <<billingVars, remote, asking, sweep, power>> /\ Leave(o)
      /\ Settle(o, "completed") /\ remote[o[1]] = "gone" /\ hold[o[1]] # "created"
  BY ExecFacts DEF Complete, Runs
<1>2. Onward /\ UNCHANGED <<now, row, job, hold, remote>>
  BY <1>1, NothingMoves
<1>3. ExecWritten
  BY <1>1, Leaves
<1>4. OpFine("completed", remote'[o[1]], hold'[o[1]])
  BY <1>1, <1>2 DEF OpFine, OpState
<1>5. OpWritten
  BY <1>1, <1>4 DEF OpWritten, OpFine, Settle
<1>6. QED
  BY <1>1, <1>2, <1>3, <1>5, Assemble

LEMMA ExecDiesKeeps ==
    ASSUME LifeInv, NEW o \in Ops, ExecDies(o)
    PROVE  LifeInv'
<1>1. UNCHANGED <<remote, op, asking, sweep, power>> /\ Leave(o)
      /\ (JobDies \/ (Stumbled /\ UNCHANGED <<now, row, moneyVars, job>>))
  BY DEF ExecDies
<1>2. ExecWritten
  BY <1>1, Leaves
<1>3. QED
  BY <1>1, <1>2, DiesFine, Assemble

LEMMA RequeueKeeps ==
    ASSUME LifeInv, NEW o \in Ops, Requeue(o)
    PROVE  LifeInv'
<1>1. UNCHANGED <<billingVars, remote, exec, asking, sweep, power>> /\ Settle(o, "pending")
  BY DEF Requeue
<1>2. QED
  BY <1>1, OpSettled, NothingMoves, Assemble

LEMMA RecreateKeeps ==
    ASSUME LifeInv, NEW s \in Servers, Recreate(s)
    PROVE  LifeInv'
<1>1. UNCHANGED <<billingVars, remote, exec, asking, sweep, power>>
      /\ Settle(<<s, "reconciled">>, "pending")
  BY DEF Recreate
<1>2. <<s, "reconciled">> \in Ops
  BY OpServer DEF OpKeys
<1>3. OpWritten
  BY <1>1, <1>2, OpSettled
<1>4. QED
  BY <1>1, <1>3, NothingMoves, Assemble

LEMMA ProviderKeeps ==
    ASSUME LifeInv, NEW s \in Servers, Boot(s) \/ Vanish(s)
    PROVE  LifeInv'
<1>1. UNCHANGED <<now, row, hold, job, op, exec, asking, sweep, power>>
  BY DEF Boot, Vanish, billingVars, moneyVars
<1>2. remote' \in [Servers -> Machine] /\ \A x \in Servers : remote[x] = "gone" => remote'[x] = "gone"
  BY DEF Boot, Vanish, LifeInv, Machine
<1>3. Onward
  BY <1>1, <1>2 DEF LifeInv, Onward
<1>4. QED
  BY <1>1, <1>3, Assemble

-----------------------------------------------------------------------------
LEMMA LifeStep ==
    ASSUME LifeInv, [Next]_vars
    PROVE  LifeInv'
<1>1. CASE UNCHANGED vars
  <2>1. UNCHANGED <<billingVars, remote, op, exec, asking, sweep, power>>
    BY <1>1 DEF vars, sagaVars
  <2>2. QED
    BY <2>1, NothingMoves, Assemble
<1>2. CASE Billing
  BY <1>2, BillingKeeps
<1>3. CASE SweepStep \/ SweepDies
  BY <1>3, SweepProbesKeeps, SweepCollectsKeeps, SweepSavesKeeps, SweepDiesKeeps DEF SweepStep
<1>4. CASE PowerStep \/ PowerDies
  BY <1>4, PowerCollectsKeeps, PowerCallsKeeps, PowerSavesKeeps, PowerDiesKeeps DEF PowerStep
<1>5. ASSUME NEW s \in Servers,
             \/ SweepLists(s) \/ Release(s) \/ PowerAsks(s, "running") \/ PowerAsks(s, "stopped")
             \/ AskSaves(s) \/ AskCreates(s) \/ AskDies(s) \/ Recreate(s) \/ Boot(s) \/ Vanish(s)
      PROVE  LifeInv'
  BY <1>5, SweepListsKeeps, ReleaseKeeps, PowerAsksKeeps, AskSavesKeeps, AskEndsKeeps, RecreateKeeps,
     ProviderKeeps
<1>6. ASSUME NEW s \in Servers, NEW k \in UserKeys, AskReads(s, k)
      PROVE  LifeInv'
  BY <1>6, AskReadsKeeps
<1>7. ASSUME NEW o \in Ops, Claim(o) \/ ExecStep(o) \/ ExecDies(o) \/ Requeue(o)
      PROVE  LifeInv'
  BY <1>7, ClaimKeeps, GateKeeps, SaveDeletingKeeps, CallDeleteKeeps, ProveAbsentKeeps, MarkDeletedKeeps,
     FinalizeKeeps, FinalCollectsKeeps, CompleteKeeps, ExecDiesKeeps, RequeueKeeps DEF ExecStep
<1>8. QED
  BY <1>1, <1>2, <1>3, <1>4, <1>5, <1>6, <1>7 DEF Next

LEMMA LifeInit ==
    ASSUME Init
    PROVE  LifeInv
<1>1. now = 0 /\ 0 \in Nat /\ job = Idle /\ sweep = Idle /\ power = Idle
  BY DEF Init, BillingInit
<1>2. \A m : RowFine(Ordered, 0, m)
  BY <1>1, OrderedFine
<1>3. /\ \A s \in Servers : row[s] = Ordered /\ asking[s] = Idle /\ hold[s] = "created"
      /\ \A o \in Ops : exec[o] = Idle /\ op[o] = "none"
  BY DEF Init, BillingInit
<1>4. Ordered \in Copy
  BY <1>2 DEF RowFine
<1>5. /\ row \in [Servers -> Copy] /\ hold \in [Servers -> HoldState]
      /\ remote \in [Servers -> Machine] /\ asking \in [Servers -> Asker \union {Idle}]
      /\ exec \in [Ops -> Executor \union {Idle}] /\ op \in [Ops -> OpState]
  BY <1>4 DEF Init, BillingInit, HoldState, Machine, OpState
<1>6. \A m, h : OpFine("none", m, h)
  BY DEF OpFine, OpState
<1>7. QED
  BY <1>1, <1>2, <1>3, <1>5, <1>6 DEF LifeInv, JobFine, SweepFine, PowerFine, AskFine, ExecFine

LEMMA LifeHolds == Spec => []LifeInv
BY LifeInit, LifeStep, PTL DEF Spec

(***************************************************************************)
(* DeletionIsProved.  A row says deleted, and an operation completed, only *)
(* when the provider no longer has the machine, and by the end the hold of *)
(* the first hour is spent or back (DeleteOperationExecutor of             *)
(* operations/service.py), for any number of executors, commands and stale *)
(* copies of the row.                                                      *)
(***************************************************************************)
THEOREM DeletionIsProved == Spec => []DeletedIsGone
<1>1. ASSUME LifeInv PROVE DeletedIsGone
  <2>1. ASSUME NEW s \in Servers
        PROVE  /\ row[s].state = "deleted" => remote[s] = "gone"
               /\ \A k \in OpKeys : op[<<s, k>>] = "completed" => remote[s] = "gone" /\ hold[s] # "created"
    <3>1. row[s].state = "deleted" => remote[s] = "gone"
      BY <1>1, RowFacts DEF CopyOK
    <3>2. ASSUME NEW k \in OpKeys, op[<<s, k>>] = "completed"
          PROVE  remote[s] = "gone" /\ hold[s] # "created"
      <4>1. <<s, k>> \in Ops /\ <<s, k>>[1] = s /\ op[<<s, k>>] = "completed"
        BY <3>2, OpServer
      <4>2. OpFine(op[<<s, k>>], remote[<<s, k>>[1]], hold[<<s, k>>[1]])
        BY <1>1, <4>1 DEF LifeInv
      <4>3. QED
        BY <4>1, <4>2 DEF OpFine
    <3>3. QED
      BY <3>1, <3>2
  <2>2. QED
    BY <2>1 DEF DeletedIsGone
<1>2. QED
  BY <1>1, LifeHolds, PTL

(***************************************************************************)
(* DeliveryIsPaid.  Whoever saves the row last, from whatever copy, a      *)
(* server shown as running has bought its first hour (ServerStateReconciler *)
(* and the power executor of operations/service.py).                       *)
(***************************************************************************)
THEOREM DeliveryIsPaid == Spec => []DeliveredIsPaid
<1>1. ASSUME LifeInv PROVE DeliveredIsPaid
  BY <1>1, RowFacts DEF DeliveredIsPaid, CopyOK
<1>2. QED
  BY <1>1, LifeHolds, PTL
=============================================================================

------------------------- MODULE MCPaymentSessions -------------------------
(* Two top-ups, two clicks that may carry the same key, one callback or    *)
(* customer check beside the two reconciliation jobs.                      *)
EXTENDS PaymentSessions
CONSTANTS p1, p2, c1, c2, k1
Both == {p1, p2}
OneTetraminator == {p1}
ConcurrentClicks == {c1, c2}
Check1 == {k1}
=============================================================================

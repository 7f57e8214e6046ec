CONSTANTS
    p1 = p1
    p2 = p2
    c1 = c1
    c2 = c2
    k1 = k1
    NoPayment = NoPayment
    Payments <- Both
    Tetraminator <- OneTetraminator
    Clicks <- ConcurrentClicks
    Checks <- Check1
    Limit = 1
    MaxCrashes = 1
    LatePayments = TRUE
SPECIFICATION FairSpec
INVARIANTS TypeOK InvoicedOnce CreditedIsPaid
PROPERTIES VerdictsFinal 
CHECK_DEADLOCK FALSE

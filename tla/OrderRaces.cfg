SPECIFICATION Spec
CONSTANTS
    MaxClaims = 2
    MaxPosts = 2
    MaxTries = 1
    MaxScans = 1
    MaxCrashes = 1
    Staff <- Everyone
    Serial = FALSE
    CanProve = TRUE
CHECK_DEADLOCK FALSE
INVARIANTS
    TypeOK
    PurchaseBlocksClaim
    AttachedIsPaid
PROPERTY ImplementsPurchase

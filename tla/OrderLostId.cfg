SPECIFICATION Spec
CONSTANTS
    MaxClaims = 2
    MaxPosts = 2
    MaxTries = 2
    MaxScans = 2
    MaxCrashes = 0
    Staff <- Everyone
    Serial = FALSE
    CanProve = FALSE
CHECK_DEADLOCK FALSE
PROPERTY ProviderIdKept

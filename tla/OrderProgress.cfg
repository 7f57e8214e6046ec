SPECIFICATION FairSpec
CONSTANTS
    MaxClaims = 2
    MaxPosts = 2
    MaxTries = 2
    MaxScans = 2
    MaxCrashes = 1
    Staff <- Automatic
    Serial = FALSE
    CanProve = FALSE
CHECK_DEADLOCK FALSE
PROPERTIES
    ProviderIdKept
    NothingWaitsForEver

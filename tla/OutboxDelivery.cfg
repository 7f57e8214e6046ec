SPECIFICATION FairSpec
CONSTANTS
    d1 = d1
    d2 = d2
    NumEvents = 3
    MaxAttempts = 2
    BatchSize = 2
    Backoff = 1
    Stale = 3
    JobLimit = 2
    Passes = {d1, d2}
    MaxKills = 1
    MaxFaults = 1
CHECK_DEADLOCK FALSE
INVARIANTS
    OneHolder
    BoundedCopies
    AbandonedForCause
PROPERTIES
    EveryEventEnds

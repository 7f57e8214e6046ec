SPECIFICATION BillingFairSpec
CONSTANTS
    s1 = s1
    s2 = s2
    Servers = {s1, s2}
    Hour = 2
    Lead = 1
    Cap = 3
    Horizon = 3
    MaxBalance = 3
    MaxTrouble = 1
CHECK_DEADLOCK FALSE
INVARIANTS
    CoverageIsPaid
    
PROPERTIES
    PaidHourKept
    UncoveredIsSettled

SPECIFICATION FairSpec
CONSTANTS
    p1 = p1
    p2 = p2
    Hour = 2
    Window = 1
    Patience = 2
    Horizon = 3
    Rates = {2}
    MaxBalance = 2
    MaxTrouble = 1
    Passes = {p1}
CHECK_DEADLOCK FALSE
INVARIANTS
    CoveredIsPaid
PROPERTIES
    ChargedInTime
    
    DebitIsCovered
    FundedKeepsRunning

SPECIFICATION FairSpec
CONSTANTS
    a1 = a1
    a2 = a2
    c1 = c1
    c2 = c2
    w1 = w1
    w2 = w2
    Accounts = {a1, a2}
    Clicks = {c1}
    Staff = {w1, w2}
    None = None
    MaxGen = 2
    MaxCrashes = 1
CHECK_DEADLOCK FALSE
INVARIANTS
    MachineIsFindable
PROPERTIES
    ImplementsFulfilment
    

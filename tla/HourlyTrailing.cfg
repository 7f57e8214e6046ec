SPECIFICATION Spec
CONSTANTS
    s1 = s1
    k1 = k1
    k2 = k2
    Servers = {s1}
    UserKeys = {k1}
    Crowd = 2
    Hour = 1
    Lead = 0
    Cap = 9
    Horizon = 1
    MaxBalance = 1
    MaxTrouble = 1
CHECK_DEADLOCK FALSE
PROPERTY NoTrailingHour

SPECIFICATION FairSpec
CONSTANTS
    daily = daily
    manual = manual
    click = click
    FirstEnd = 2
    Month = 3
    Window = 1
    Grace = 1
    Horizon = 7
    Price = 1
    MaxBalance = 2
    MaxCrashes = 1
    Passes = {daily}
    Clicks = {click}
    Wishes = {TRUE, FALSE}
CHECK_DEADLOCK FALSE
INVARIANTS
    DateIsPaidFor
PROPERTIES
    ChargedInSeason
    ReactivatedByPayment
    FundedNeverSuspended
    PaidIsRenewed

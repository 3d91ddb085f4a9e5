SPECIFICATION FairSpec
CONSTANTS
    None = None
    Accounts = {a1}
    Principals = {p1}
    Checkers = {w1}
    LastDay = 2
    MaxCost = 1
    MaxInvoked = 1
    CostDelay = 0
    Length = 1
    Period = 2
    Budget = 0
    PrincipalBudget = 0
    Percentiles = {75, 100}
    Faults = TRUE
    LateChecks = TRUE
    Lag = TRUE
PROPERTIES
    ExpiredLeaseEnds
CHECK_DEADLOCK FALSE

SPECIFICATION Spec
CONSTANTS
    None = None
    Accounts = {a1, a2}
    Principals = {p1}
    Checkers = {w1}
    LastDay = 3
    MaxCost = 2
    MaxInvoked = 1
    CostDelay = 0
    Length = 2
    Period = 3
    Budget = 1
    PrincipalBudget = 1
    Percentiles = {75, 100}
    Faults = TRUE
    LateChecks = FALSE
    Lag = TRUE
INVARIANTS
    TypeOK
    SpendNotOverstated
    LeaseBudgetHolds
    PrincipalBudgetUnlessLost
    EndedIsTold
SYMMETRY Symmetry
CHECK_DEADLOCK FALSE

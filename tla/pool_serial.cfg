SPECIFICATION Spec
CONSTANTS
    a1 = a1
    a2 = a2
    p1 = p1
    p2 = p2
    w1 = w1
    w2 = w2
    b1 = b1
    b2 = b2
    None = None
    Accounts <- TwoAccounts
    Principals <- TwoPrincipals
    Workers <- OneWorker
    Builders <- TwoBuilders
    Handlers <- SerialHandlers
    PageSize = 1
    MaxNow = 9
    MaxLeases = 3
    SecondsApart = TRUE
    Lags = FALSE
    Faults = FALSE
    AtLeastOnce = FALSE
    NukeEnabled = TRUE
SYMMETRY Symmetry
INVARIANTS
    PoolConsistent
    TablesAgree
    ReadyIsClean
PROPERTIES
    NukedOnlyAfterLeaseEnds
    RefinesAccountReset
CHECK_DEADLOCK FALSE

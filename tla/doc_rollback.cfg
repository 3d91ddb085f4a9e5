SPECIFICATION Spec
CONSTANTS
    a1 = a1
    a2 = a2
    p1 = p1
    p2 = p2
    w1 = w1
    w2 = w2
    b1 = b1
    b2 = b2
    None = None
    Accounts <- OneAccount
    Principals <- OnePrincipal
    Workers <- TwoWorkers
    Builders <- OneBuilder
    Handlers <- PolicyHandlers
    PageSize = 2
    MaxNow = 5
    MaxLeases = 2
    SecondsApart = TRUE
    Lags = FALSE
    Faults = FALSE
    AtLeastOnce = FALSE
    NukeEnabled = TRUE
SYMMETRY Symmetry
INVARIANTS
    FailedCreateRolledBack
CHECK_DEADLOCK FALSE

SPECIFICATION FairSpec
CONSTANTS
    a1 = a1
    a2 = a2
    p1 = p1
    p2 = p2
    w1 = w1
    w2 = w2
    b1 = b1
    b2 = b2
    None = None
    Accounts <- OneAccount
    Principals <- OnePrincipal
    Workers <- OneWorker
    Builders <- OneBuilder
    Handlers <- AllHandlers
    PageSize = 2
    MaxNow = 2
    MaxLeases = 2
    SecondsApart = FALSE
    Lags = TRUE
    Faults = TRUE
    AtLeastOnce = TRUE
    NukeEnabled = TRUE
PROPERTIES
    ResetCompletes

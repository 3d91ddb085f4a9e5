SPECIFICATION FairSpec
CONSTANTS
    Resources = {r1, r2}
    Attempts = 3
    NukeTimeout = 2
    SessionLength = 2
    NukeEnabled = TRUE
    Faults = TRUE
    Duplicates = FALSE
INVARIANTS
    TypeOK
    OneNukeAtATime
    ReadyHoldsOnlyLate
PROPERTIES
    TenantSpared
    RefinesAccountReset
    BuildEnds
CHECK_DEADLOCK FALSE

SPECIFICATION FairSpec
CONSTANTS
    Workers = {w1}
    Limit = 4
    MaxTemplate = 2
    Reverts = FALSE
    Faults = TRUE
INVARIANTS
    TypeOK
    HashMeansInSync
PROPERTIES
    RoomForVersion
    RefreshCatchesUp

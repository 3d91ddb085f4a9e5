SPECIFICATION FairSpec
CONSTANTS
    Users = {1, 2}
    Me = 1
    Today = 3
    PageSize = 2
    Faults = TRUE
INVARIANTS
    TypeOK
    QueryComplete
PROPERTIES
    QueryEnds

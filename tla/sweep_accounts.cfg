SPECIFICATION FairSpec
CONSTANTS
    Places = {1, 2, 3, 4}
    PageSize = 2
    Sweep = "populateResetQueue"
    Faults = TRUE
INVARIANTS
    TypeOK
    SweepComplete
PROPERTIES
    HandledAtMostOnce
    SweepAdvances
    SweepEnds

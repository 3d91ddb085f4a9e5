SPECIFICATION Spec
CONSTANTS
    Places = {1, 2, 3}
    PageSize = 2
    Sweep = "fanOut"
    Faults = FALSE
INVARIANTS
    SweepComplete

CONSTANTS
    P1 = P1
    P2 = P2
    P3 = P3
    P4 = P4
    Schedule <- FourProducers
    Me = P1
    System = System
    MaxTracked = 1024
    Tags = {}
    RootNum = 3
    RootLib = 2
    PruneLimit = 10
    LateFinality = TRUE
    Trials = {"none"}
    MaxApart = 12
    MaxNum = 14
    MaxIndex = 20
SPECIFICATION DposSpec
CHECK_DEADLOCK FALSE
INVARIANTS Converged

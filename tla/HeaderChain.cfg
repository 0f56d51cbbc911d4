CONSTANTS
    pa = pa
    pb = pb
    pc = pc
    pd = pd
    MaxTracked = 4
    Schedules <- AllSchedules
    FirstSchedules <- StartedWith
    NewSchedules <- SameSize
    MayShrink = FALSE
    System = System
    BaseNum = 3
    Bounds <- BoundsBySize
SPECIFICATION Spec
CHECK_DEADLOCK FALSE
VIEW View
INVARIANTS ProposedByTwoThirds OneSlotPerRound
PROPERTIES IrreversibleByTwoThirds IrreversibleAdvances

CONSTANTS
    me = me
    too = too
    other = other
    Interval = 5
    Shortest = 2
    StartWindow = 3
    Offset = 0
    Future = 8
    Rotation <- ThreeInTurn
    Locals = {me, too}
    AgeLimited = TRUE
    Faults = {"start", "sign"}
    MaxSlot = 5
    MaxNum = 6
SPECIFICATION Spec
CHECK_DEADLOCK FALSE
INVARIANTS LoopStaysArmed ShipsWhatWasStarted NoDoubleConfirm OneBlockPerSlot OwnSlotsProduced

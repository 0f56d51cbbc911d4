CONSTANTS
    here = here
    one = one
    two = two
    Node = {here, one, two}
    Order <- Ring
    Worlds <- CatchingUp
    ForkPoint = 3
    Span = 2
    MaxNum = 6
SPECIFICATION FairSpec
CHECK_DEADLOCK FALSE
INVARIANTS NoHole SyncPending
PROPERTIES CatchesUp NewsResumes

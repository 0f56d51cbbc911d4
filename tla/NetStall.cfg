CONSTANTS
    here = here
    one = one
    two = two
    Node = {here, one, two}
    Order <- Ring
    Worlds <- Growing
    ForkPoint = 9
    Span = 2
    MaxNum = 6
SPECIFICATION FairSpec
CHECK_DEADLOCK FALSE
INVARIANTS SyncPending

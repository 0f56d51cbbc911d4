CONSTANTS
    Tags = {x, y}
    RootNum = 1
    RootLib = 0
    PruneLimit = 2
    LateFinality = FALSE
    Trials = {"bad blocks", "restarts"}
    MaxNum = 5
    MaxIndex = 5
SPECIFICATION Spec
CHECK_DEADLOCK FALSE
SYMMETRY Symmetry
INVARIANTS HeadIsBest CurrentIsHeadChain StateInSync OnlyBadBlocksThrow IndexConnected
PROPERTIES FinalForever

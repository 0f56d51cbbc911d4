CONSTANTS
    one = one
    two = two
    inner = inner
    sent = sent
    Trxs = {one, two}
    Made = {inner, sent}
    Does <- Programs
    Delay <- Delays
    Expires <- Lifetimes
    Spoils <- Enemies
    Window = 1
    MaxLifetime = 1
    MaxSlot = 4
    MaxBlocks = 3
    MaxQueue = 1
    MaxOps = 1
SPECIFICATION Spec
CHECK_DEADLOCK FALSE
INVARIANTS OneReceipt DelayedUntilRetired BlocksAccepted NothingLost

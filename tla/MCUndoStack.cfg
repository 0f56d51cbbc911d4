CONSTANTS
    Tables = {t1, t2}
    Keys = {k1}
    Rows = {v1, v2}
    None = None
    MaxRevision = 3
SPECIFICATION Spec
INVARIANTS TypeOK NoSessionException StageMachine UndoLinks
PROPERTIES ImplementsSessionStore

CONSTANTS
    v1 = v1
    v2 = v2
    p1 = p1
    p2 = p2
    Vals = {v1, v2}
    NoVal = NoVal
    Payers = {p1, p2}
    MaxRevision = 2
    MaxUndoPk = 4
    Trials <- SquashAndRestart
SPECIFICATION Spec
PROPERTIES UndoRestores

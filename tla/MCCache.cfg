SPECIFICATION ReadThrough
CONSTANTS
    Callers = {c1, c2}
    Keys = {k1, k2}
    None = None
    Ops = {"getOrElse", "tryGet", "del", "clear"}
    Outages = TRUE
    MaxVersion = 1
    SetBufSize = 2
CHECK_DEADLOCK FALSE
SYMMETRY Interchangeable
INVARIANTS
    CancelStaysPrivate
    Coherent
PROPERTIES
    SourceSpared

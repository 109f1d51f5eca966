SPECIFICATION Spec
CONSTANTS
    Loops = {l1, l2}
    Conns = {c1, c2}
    None = None
    IsClient = FALSE
    MaxConn = 1
    QueueCap = 1
    MaxEvents = 1
CHECK_DEADLOCK FALSE
SYMMETRY Interchangeable
INVARIANTS
    QuotaHeld
    QuotaAccounted
    CallbacksPaired
PROPERTIES
    ImplementsTable

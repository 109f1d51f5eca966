SPECIFICATION Spec
CONSTANTS
    Loops = {l1}
    Conns = {c1}
    None = None
    IsClient = FALSE
    MaxConn = 0
    QueueCap = 1
    MaxEvents = 0
CHECK_DEADLOCK FALSE
INVARIANTS
    ServerLeavesNothingOpen

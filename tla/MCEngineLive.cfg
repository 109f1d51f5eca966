SPECIFICATION FairSpec
CONSTANTS
    Loops = {l1}
    Conns = {c1, c2}
    None = None
    IsClient = FALSE
    MaxConn = 0
    QueueCap = 1
    MaxEvents = 1
CHECK_DEADLOCK FALSE
PROPERTIES
    NoPosterStuck
    QuietAfterStop
    StopReturns

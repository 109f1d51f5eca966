SPECIFICATION FairSpec
CONSTANTS
    Loops = {l1}
    Conns = {c1, c2}
    None = None
    IsClient = TRUE
    MaxConn = 1
    QueueCap = 1
    MaxEvents = 0
CHECK_DEADLOCK FALSE
INVARIANTS
    DialTruthful
    ClientLeavesNothingOpen
PROPERTIES
    DialReturns

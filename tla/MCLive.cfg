SPECIFICATION MCSpec
CONSTANTS
    Workers = {w1}
    Submitters = {s1}
    Tasks = {t1, t2, t3, t4}
    None = None
    Queue = 2
    Strategies = {"drop_new", "block_wait", "drop_old", "bogus"}
    MaxRecords = 3
    MaxRefs = 2
    CacheCallers = {c1, c2}
    CacheKeys = {k1}
CHECK_DEADLOCK FALSE
INVARIANTS
    RecordsKept
PROPERTIES
    Progress
    GetOrElseReturns
    StopEndsServers

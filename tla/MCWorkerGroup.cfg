SPECIFICATION MCSpec
CONSTANTS
    Workers = {w1, w2}
    Submitters = {s1, s2}
    Tasks = {t1, t2, t3, t4, t5}
    None = None
    Queue = 1
    Strategies = {"drop_new", "drop_old", "bogus"}
    MaxRecords = 2
    MaxRefs = 1
CHECK_DEADLOCK FALSE
SYMMETRY Interchangeable
INVARIANTS
    TasksOwned
    Accounted
PROPERTIES
    QuietAfterStop

SPECIFICATION MCSpec
CONSTANTS
    Callers = {c1, c2, c3}
    Names = {n1, n2}
    Engines = {e1, e2, e3, e4}
    None = None
    Awaiters = {c1, c2}
    Futures = {f1, f2, f3}
    MaxTickets = 5
    MaxAwaits = 1
    Elems = {a, b}
    Readers = {r1}
    MaxCap = 3
    Handlers <- SomeHandlers
    Adders = {g1, g2}
    Walkers = {loop}
    MaxContexts = 3
    Calls = {"a", "b", "s", "p"}
    Tag <- TagOf
    Globals <- SomeGlobals
    Custom <- SomeCustom
    MaxDepth = 2
    MaxWrites = 2
    Clients = {c1, c2}
    MaxRows = 3
    MaxUpdates = 2
    MaxSize = 3
CHECK_DEADLOCK FALSE
INVARIANTS
    OneCachePerName
    NoEngineForgotten
    OwnResult
    
    DeliveredInOrder
    TxAllOrNothing
    DaoSound
    SnapshotsStable

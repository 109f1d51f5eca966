SPECIFICATION MCSpec
CONSTANTS
    Byte = {b0, b1}
    Junk = junk
    DefaultBufferSize = 2
    bufferGrowThreshold = 4
    MinRead = 1
    MaxExp = 4
    InitSizes = {0, 3}
    MaxAsk = 3
    MaxBytes = 5
    ShortReads = FALSE
    Refusals = FALSE
SYMMETRY BytesAlike
CHECK_DEADLOCK FALSE
INVARIANTS
    FramesArrive
    ClausesMean
    CellMeans
    GeneratedSound
    BoundRight
PROPERTIES
    RingIsQueue

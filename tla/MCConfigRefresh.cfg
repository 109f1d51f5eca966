SPECIFICATION FairSpec
CONSTANTS
    DataIDs <- TwoIds
    Keys = {"k1", "k2", "k3"}
    None = None
    Unparsable = Unparsable
    Fixed <- FixedContents
    Contents <- CipherContents
    HasDef = {"k2"}
    ChanCap = 1
    MaxChanges = 2
CHECK_DEADLOCK FALSE
INVARIANTS
    Consistent
PROPERTIES
    PrecedenceKept
    RefreshArrives

SPECIFICATION Spec
CONSTANTS
    DataIDs <- OneId
    Keys = {"k1", "k2", "k3"}
    None = None
    Unparsable = Unparsable
    Fixed <- FixedContents
    Contents <- CipherContents
    HasDef = {"k2"}
    ChanCap = 1
    MaxChanges = 1
CHECK_DEADLOCK FALSE
INVARIANTS
    ServesPlaintext

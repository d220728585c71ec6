SPECIFICATION Spec
CONSTANTS
    Values = {"v0", "v1", "v2"}
    NoValue = NoValue
    Refs = {"m1"}
    RollbackKeys = {"k1"}
    CallIds = {1, 2}
    SetCalls <- RetriedProbe
    RollbackCalls <- UndoOne
    MaxGeneration = 2
    Faults = {"crash", "lostReply", "noSend", "reject", "contradiction", "untrustedRead", "foreignWrite", "reconnect", "close"}
    NoRef = NoRef
    NoEntry = NoEntry
INVARIANTS WriterExclusive AtMostOneFrame ContactEvidenceTrue CloseDrains
PROPERTY RefusedRecordsKnown
CHECK_DEADLOCK FALSE

SPECIFICATION FairSpec
CONSTANTS
    Values = {"v0", "v1", "v2"}
    NoValue = NoValue
    Refs = {"m1"}
    RollbackKeys = {"k1"}
    CallIds = {1, 2}
    SetCalls <- OneProbe
    RollbackCalls <- UndoOne
    MaxGeneration = 1
    Faults = {"crash", "lostReply", "noSend", "reject", "contradiction", "untrustedRead", "foreignWrite", "close"}
    NoRef = NoRef
    NoEntry = NoEntry
PROPERTIES  LeaseReturned
CHECK_DEADLOCK FALSE

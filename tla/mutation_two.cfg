SPECIFICATION Spec
CONSTANTS
    Values = {"v0", "v1", "v2"}
    NoValue = NoValue
    Refs = {"m1", "m2"}
    RollbackKeys = {"k1"}
    CallIds = {1}
    SetCalls <- ProbeAndApply
    RollbackCalls = {}
    MaxGeneration = 1
    Faults = {"crash", "lostReply", "journal"}
    NoRef = NoRef
    NoEntry = NoEntry
INVARIANT ReservationOwned
PROPERTIES WriteAhead 
CHECK_DEADLOCK FALSE

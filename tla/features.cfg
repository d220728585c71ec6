SPECIFICATION Spec
CONSTANTS
    SKIs = {s1}
    Addresses = {a1, a2}
    Callers = {c1}
    MaxConnections = 2
    MaxTokens = 1
    Capacity = 1
    Faults = {"sync", "crash", "repair", "degrade", "suppress", "close", "lost"}
    MaxDisturbances = 1
    None = None
SYMMETRY Symmetry
INVARIANTS
    GenerationNeverReused
    WriteReachesWhatWasRead
    LeaseMapsAgree
CHECK_DEADLOCK FALSE

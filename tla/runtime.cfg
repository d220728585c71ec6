SPECIFICATION AdminSpec
CONSTANTS
    u1 = u1
    u2 = u2
    v1 = v1
    v2 = v2
    Starters = {u1, u2}
    Stoppers = {v1, v2}
    MaxConnections = 2
    MaxFaults = 1
    Scenarios <- TheScenarios
    None = None
    MaxKeys = 3
    MaxReplays = 2
INVARIANTS
    PublishedCurrent
    
    TerminalDenies
    NobodyStuck
    OneEffectPerKey
    ActionOfItsAttempt

    
CHECK_DEADLOCK FALSE

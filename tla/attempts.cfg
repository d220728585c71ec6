SPECIFICATION FairSpec
CONSTANTS
    Remotes = {r1}
    Operator = Operator
    None = None
    MaxAttempts = 2
    AttemptMaximum = 2
    Capacity = 2
    Faults = {"prepare", "store", "unknown", "random"}
    MaxDisturbances = 2
INVARIANTS
    
    Accounted
    RetryFlagOwned
PROPERTIES
    LeaseEnds
CHECK_DEADLOCK FALSE

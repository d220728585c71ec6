SPECIFICATION Spec
CONSTANTS
    State = {"s0", "s1"}
    Empty = "s0"
    None = None
    Damaged = Damaged
    MaxGeneration = 4
    MaxArtifacts = 2
    MaxTemps = 3
    MaxDamage = 1
INVARIANTS CommittedSurvives EverySlotLoads HandleIsSelected RefusedOnlyFor
CHECK_DEADLOCK FALSE

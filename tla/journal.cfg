SPECIFICATION Spec
CONSTANTS
    Payload = {p1, p2}
    NoRecord = NoRecord
    MaxRecords = 3
INVARIANTS AcknowledgedIsDurable 
PROPERTY ImplementsLog
CHECK_DEADLOCK FALSE

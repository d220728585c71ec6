CONSTANTS
  SKIs = {p1}
  Operators = {a1}
  Scenarios <- TheScenarios
  MaxOpens = 1
  MaxConnections = 2
  MaxGeneration = 2
  MaxEffects = 2
SPECIFICATION Spec
INVARIANTS
  TrustIsConfirmed
  
  
  
CHECK_DEADLOCK FALSE

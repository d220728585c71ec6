CONSTANTS
  SKIs = {p1}
  Operators = {a1}
  Scenarios <- CalmOnly
  MaxOpens = 1
  MaxConnections = 2
  MaxGeneration = 2
  MaxEffects = 2
SPECIFICATION FairSpec
PROPERTIES
  
  CommitSettles
CHECK_DEADLOCK FALSE

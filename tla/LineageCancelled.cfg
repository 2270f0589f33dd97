SPECIFICATION Spec
CONSTANTS
  q1 = q1
  q2 = q2
  Asks <- Agents
  Depth = 2
  ActivePerParent = 1
  ActivePerRoot = 2
  OpenPerRoot = 2
  LifetimePerRoot = 2
  FailLimit = 1
  MaxRows = 2
  MaxSpent = 1
PROPERTIES
  CancelledRests
CHECK_DEADLOCK FALSE

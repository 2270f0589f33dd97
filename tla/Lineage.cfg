SPECIFICATION Spec
CONSTANTS
  q1 = q1
  q2 = q2
  Asks <- Agents
  Depth = 2
  ActivePerParent = 1
  ActivePerRoot = 2
  OpenPerRoot = 2
  LifetimePerRoot = 2
  FailLimit = 1
  MaxRows = 3
  MaxSpent = 1
INVARIANTS
  TypeOK
  ReservedIsLaunching
  OneChildPerRequest
  RowNamesItsChild
  TreeWithinCaps
PROPERTIES
  CancelledGetNoChild
CHECK_DEADLOCK FALSE

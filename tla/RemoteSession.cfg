SPECIFICATION FairSpec
CONSTANTS
  Cap = 2
  Ring = 1
  MaxMade = 2
  MaxLinks = 2
  MaxOpens = 2
  MaxBinds = 2
INVARIANTS
  TypeOK
  ThreadMatchesCursor
  QuietMeansCurrent
PROPERTIES
  CatchesUp
CHECK_DEADLOCK FALSE

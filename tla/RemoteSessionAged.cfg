SPECIFICATION FairSpec
CONSTANTS
  Cap = 1
  Ring = 1
  MaxMade = 3
  MaxLinks = 1
  MaxOpens = 1
  MaxBinds = 1
PROPERTIES
  GapsHeal
CHECK_DEADLOCK FALSE

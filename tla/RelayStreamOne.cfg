SPECIFICATION FairSpec
CONSTANTS
  a1 = a1
  a2 = a2
  c1 = c1
  Attachments = {a1}
  Spawners = {}
  ConnOf <- OneConnection
  QueueCap = 2
  MaxOut = 6
  MaxStatus = 1
  MaxFails = 1
INVARIANTS
  SettledMeansCurrent
PROPERTIES
  IsMirror
  CaughtUp
CHECK_DEADLOCK FALSE

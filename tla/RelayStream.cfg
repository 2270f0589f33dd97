SPECIFICATION Spec
CONSTANTS
  a1 = a1
  a2 = a2
  c1 = c1
  Attachments = {a1, a2}
  Spawners = {a2}
  ConnOf <- OneConnection
  QueueCap = 2
  MaxOut = 3
  MaxStatus = 0
  MaxFails = 1
INVARIANTS
  TypeOK
  NoSilentHole
  RepeatsOnlyAstray
  ExitShowsEverything
CHECK_DEADLOCK FALSE

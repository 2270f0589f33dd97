SPECIFICATION Spec
CONSTANTS
  a1 = a1
  a2 = a2
  c1 = c1
  Attachments = {a1}
  Spawners = {}
  ConnOf <- OneConnection
  QueueCap = 2
  MaxOut = 6
  MaxStatus = 0
  MaxFails = 0
INVARIANTS
  NoDoubleApply
CHECK_DEADLOCK FALSE

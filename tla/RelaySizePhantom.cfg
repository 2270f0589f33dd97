SPECIFICATION Spec
CONSTANTS
  a1 = a1
  a2 = a2
  c1 = c1
  c2 = c2
  Attachments = {a1, a2}
  ConnOf <- OneConnection
  Sizes = {0, 3}
  Start = 2
  Resends = 1
  MaxAsks <- Twice
INVARIANTS
  NoPhantomVote
CHECK_DEADLOCK FALSE

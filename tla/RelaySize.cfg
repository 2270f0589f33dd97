SPECIFICATION FairSpec
CONSTANTS
  a1 = a1
  a2 = a2
  c1 = c1
  c2 = c2
  Attachments = {a1, a2}
  ConnOf <- TwoConnections
  Sizes = {0, 3}
  Start = 2
  Resends = 1
  MaxAsks <- OneTwice
INVARIANTS
  TypeOK
  SettledSize
  KernelSettles
  LostPanesDoNotVote
PROPERTIES
  FollowsSmallest
CHECK_DEADLOCK FALSE

SPECIFICATION FairSpec
CONSTANTS
  e1 = e1
  e2 = e2
  Rows = {e1}
  Steer = TRUE
  MaxSpent = 3
INVARIANTS
  TypeOK
  AtMostOnce
  NothingTakenIsOwed
  ClaimIsHeld
  SentIsWatched
  NoKeyTwice
PROPERTIES
  FateIsFinal
  EveryEventEnds
  IsDelivery
CHECK_DEADLOCK FALSE

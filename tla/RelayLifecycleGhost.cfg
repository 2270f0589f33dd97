SPECIFICATION Spec
CONSTANTS
  s1 = s1
  s2 = s2
  tick = tick
  flush = flush
  Sessions = {s1}
  Passes = {tick}
  Restart = Restart
  Final = Final
  MaxOut = 1
INVARIANTS
  NoGhost
CHECK_DEADLOCK FALSE

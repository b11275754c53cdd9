SPECIFICATION FairSpec
CONSTANTS
  Callers = {c1, c2}
  MaxPings = 3
  Room = 2
INVARIANTS
  BadNeedsATimeout
PROPERTIES
  PingsReturn
  OkTakesItsOwnPong
CHECK_DEADLOCK FALSE

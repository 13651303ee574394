\* The connection is closed before the last line was emitted.
SPECIFICATION FairSpec
CONSTANTS
  c1 = c1
  c2 = c2
  r1 = r1
  r2 = r2
  None = None
  Conn = {c1}
  Request = {r1, r2}
  Long = {}
  Bad = {}
  Asks = {}
INVARIANT EveryLineEmitted
CHECK_DEADLOCK FALSE

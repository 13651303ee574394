\* One call with a line that is too long.
SPECIFICATION FairSpec
CONSTANTS
  d1 = d1
  d2 = d2
  Reader = Reader
  None = None
  Call = {d1, d2}
  Long = {d2}
  MaxLines = 1
PROPERTY TimeoutBoundsDo
CHECK_DEADLOCK FALSE

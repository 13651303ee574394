\* Two calls, one with a line that is too long; a Driver may be left for ever.
SPECIFICATION FairSpec
CONSTANTS
  d1 = d1
  d2 = d2
  Reader = Reader
  None = None
  Call = {d1, d2}
  Long = {d2}
  MaxLines = 1
INVARIANTS
  TypeOK
  ExchangeComplete
PROPERTIES
  PipesDoNotDeadlock
  ShutdownCompletes
CHECK_DEADLOCK FALSE

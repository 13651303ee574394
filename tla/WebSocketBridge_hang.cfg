\* A handler writes after the outbound pump has left: the endpoint stays locked.
SPECIFICATION FairSpec
CONSTANTS
  c1 = c1
  c2 = c2
  r1 = r1
  r2 = r2
  None = None
  Conn = {c1, c2}
  Request = {r1, r2}
  Long = {}
  Bad = {}
  Asks = {}
PROPERTY EndpointIsShared
CHECK_DEADLOCK FALSE

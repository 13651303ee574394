\* A WebSocket connection and a POST on one endpoint. A POST whose tool call
\* nobody answers waits for its client to go, which it need not do.
SPECIFICATION HttpFairSpec
CONSTANTS
  c1 = c1
  p1 = p1
  r1 = r1
  r2 = r2
  q1 = q1
  None = None
  Conn = {c1, p1}
  Post = {p1}
  Request = {r1, r2, q1}
  Long = {r1}
  Bad = {r2}
  Asks = {q1}
INVARIANTS
  TypeOK
  NothingLeftBehind
  HttpReplyComplete
PROPERTIES
  EndpointSpec
  EndedConnectionReturns
  PostFreesEndpoint
CHECK_DEADLOCK FALSE

\* Any client: every method on a session of the server and a made-up one, and every
\* turn and Serve come to an end. No symmetry.
SPECIFICATION FairSpec
CONSTANTS
  r1 = r1
  r2 = r2
  r3 = r3
  s1 = s1
  s2 = s2
  None = None
  Request = {r1, r2}
  Session = {s1, s2}
  Unissued = {s2}
  Method = {"new", "load", "prompt"}
  MaxCancels = 1
  Sequential = FALSE
INVARIANTS
  CancelTakesEffect
  NoStaleRegistration
  CancelledHasCause
PROPERTIES
  EndedTurnFinishes
  ServeStops

\* Two prompts of a client that waits; the second is running when it is cancelled.
SPECIFICATION Spec
CONSTANTS
  r1 = r1
  r2 = r2
  r3 = r3
  s1 = s1
  s2 = s2
  None = None
  Request = {r1, r2}
  Session = {s1}
  Unissued = {}
  Method = {"prompt"}
  MaxCancels = 1
  Sequential = TRUE
INVARIANT CancelReachesContext

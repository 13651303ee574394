\* A client that waits: three requests of any kind on one session.
SPECIFICATION Spec
CONSTANTS
  r1 = r1
  r2 = r2
  r3 = r3
  s1 = s1
  s2 = s2
  None = None
  Request = {r1, r2, r3}
  Session = {s1}
  Unissued = {}
  Method = {"new", "load", "prompt"}
  MaxCancels = 2
  Sequential = TRUE
SYMMETRY Symmetry
INVARIANTS
  TypeOK
  CancelHonoured

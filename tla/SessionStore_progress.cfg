\* Two requests; each goes on under the fairness of the scheduler. No symmetry.
SPECIFICATION FairSpec
CONSTANTS
  r1 = r1
  r2 = r2
  r3 = r3
  s1 = s1
  s2 = s2
  Caps = Caps
  None = None
  Request = {r1, r2}
  Session = {s1, s2}
  MaxTime = 1
PROPERTY RequestsComplete

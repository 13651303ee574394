\* Three requests of any kind on a session that may be there and one more.
SPECIFICATION Spec
CONSTANTS
  r1 = r1
  r2 = r2
  r3 = r3
  s1 = s1
  s2 = s2
  Caps = Caps
  None = None
  Request = {r1, r2, r3}
  Session = {s1, s2}
  MaxTime = 2
SYMMETRY Symmetry
INVARIANTS
  TypeOK
  ReadsAreFresh
  TimesNeverGoBack
  ListsAreComplete
  KnownStaysKnown

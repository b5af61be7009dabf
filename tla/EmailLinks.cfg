SPECIFICATION Spec
CONSTANTS
  m1 = m1
  m2 = m2
  m3 = m3
  c1 = c1
  c2 = c2
  First = First
  Resends = {m1, m2, m3}
  Clicks = {c1, c2}
  MaxInFlight = 2
  LastTick = 3
CHECK_DEADLOCK FALSE
SYMMETRY Symmetry
INVARIANTS LiveLinksBounded NewestLinkWorks

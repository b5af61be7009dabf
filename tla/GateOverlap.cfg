SPECIFICATION Spec
CONSTANTS
  t1 = t1
  t2 = t2
  k1 = k1
  k2 = k2
  p1 = p1
  p2 = p2
  r1 = r1
  r2 = r2
  Tokens = {t1, t2}
  PrefixOf <- Apart
  KeyOf <- Signed
  ExpiryOf <- Expiries
  OldKeys = {k1}
  Requests = {r1, r2}
  Ttl = 2
  KeysTtl = 3
  MaxFetch = 2
  MaxTime = 6
CHECK_DEADLOCK FALSE
SYMMETRY Symmetry
INVARIANTS GateIsFresh RefusalIsBrief

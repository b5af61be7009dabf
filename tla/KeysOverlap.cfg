SPECIFICATION FairSpec
CONSTANTS
  r1 = r1
  r2 = r2
  r3 = r3
  k1 = k1
  Requests = {r1, r2, r3}
  FirstKeys = {k1}
  NoKey = NoKey
  MaxKeys <- SmallCaps
  MaxCreating = 2
  MaxChanges = 1
CHECK_DEADLOCK FALSE
INVARIANTS KeyOrSuccessor CapHeld
PROPERTIES ImplementsKeyRing RevocationTakesEffect

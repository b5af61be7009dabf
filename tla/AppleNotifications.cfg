SPECIFICATION FairSpec
CONSTANTS
  u1 = u1
  u2 = u2
  u3 = u3
  w1 = w1
  w2 = w2
  Users = {u1, u2, u3}
  Metered = {u1}
  Workers = {w1, w2}
  Tiers = {"pro", "business"}
  MaxNotes = 3
  Settings <- SmallSettings
CHECK_DEADLOCK FALSE
INVARIANT FollowsApple
PROPERTIES ImplementsEventLog 

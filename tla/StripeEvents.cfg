SPECIFICATION FairSpec
CONSTANTS
  s1 = s1
  s2 = s2
  w1 = w1
  w2 = w2
  NoSub = NoSub
  Earlier = Earlier
  Subs = {s1, s2}
  Workers = {w1, w2}
  Settings <- SmallSettings
  TierChoices = {"pro", "starter"}
  CanFail = {s1}
CHECK_DEADLOCK FALSE
INVARIANTS TierMatchesSubscription MirrorsStripe
PROPERTIES ImplementsEventLog EventsAnswered

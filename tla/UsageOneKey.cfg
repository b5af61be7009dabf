SPECIFICATION Spec
CONSTANTS
  k1 = k1
  r1 = r1
  r2 = r2
  r3 = r3
  Jwt = Jwt
  Keys = {k1}
  Requests = {r1, r2, r3}
  Lane <- OneKeyLane
  Chars <- MixedChars
  ConsumerLimits = {2}
  B2BLimits = {2}
  InitialCredits = 1
  LastMonth = 2
CHECK_DEADLOCK FALSE
INVARIANTS TypeOK OnePeriodPerMonth NothingBilledForNothing
PROPERTIES OvershootBounded CreditsAreLogged UsageNeverShrinks ImplementsLedger

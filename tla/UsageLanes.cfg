SPECIFICATION FairSpec
CONSTANTS
  k1 = k1
  r1 = r1
  r2 = r2
  r3 = r3
  Jwt = Jwt
  Keys = {k1}
  Requests = {r1, r2, r3}
  Lane <- KeyAndWebLane
  Chars <- TwoChars
  ConsumerLimits = {2, 4}
  B2BLimits = {2}
  InitialCredits = 1
  LastMonth = 1
CHECK_DEADLOCK FALSE
INVARIANTS OnePeriodPerKey
PROPERTIES AlertsOnRecord Answered

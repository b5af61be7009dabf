SPECIFICATION Spec
CONSTANTS
  q1 = q1
  q2 = q2
  q3 = q3
  q4 = q4
  q5 = q5
  Requests = {q1, q2, q3, q4, q5}
  Route <- OneRegister
  Limit <- SmallLimits
  MaxFailed = 2
  MaxInFlight = 2
  LastWindow = 2
CHECK_DEADLOCK FALSE
SYMMETRY Logins
INVARIANTS LimitsHeld FailuresAreForgotten

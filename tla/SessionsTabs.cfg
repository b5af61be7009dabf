SPECIFICATION Spec
CONSTANTS
  q1 = q1
  q2 = q2
  q3 = q3
  q4 = q4
  d1 = d1
  d2 = d2
  None = None
  Requests = {q1, q2, q3, q4}
  Devices = {d1, d2}
  Device <- TwoDevices
  MaxExpired = 1
SYMMETRY SameDevice
CHECK_DEADLOCK FALSE
INVARIANTS LogoutEnds JarUsable SessionsEndWithAccount
PROPERTY ImplementsLogins

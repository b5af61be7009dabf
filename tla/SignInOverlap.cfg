SPECIFICATION Spec
CONSTANTS
  r1 = r1
  r2 = r2
  r3 = r3
  r4 = r4
  i1 = i1
  i2 = i2
  e1 = e1
  e2 = e2
  None = None
  Requests = {r1, r2, r3, r4}
  Identities = {i1, i2}
  Emails = {e1, e2}
  EmailOf <- OwnEmails
  Claims = {"True", "False"}
CHECK_DEADLOCK FALSE
SYMMETRY Symmetry
INVARIANTS LinkedOnlyIfVerified OneAccountPerIdentity

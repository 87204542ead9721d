SPECIFICATION Spec
CONSTANTS
  Jobs = {j1}
  Workers = {w1}
  Admins = {a1}
  Tokens = {t1, t2, t3}
  None = None
  Handled = {j1}
  MaxAttempts = 1
  MaxFaults = 0
INVARIANTS
  RevivalIsAudited
CHECK_DEADLOCK FALSE

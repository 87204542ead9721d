SPECIFICATION FairSpec
CONSTANTS
  Jobs = {j1}
  Workers = {w1, w2}
  Admins = {}
  Tokens = {t1, t2, t3, t4}
  None = None
  Handled = {j1}
  MaxAttempts = 2
  MaxFaults = 2
PROPERTIES
  EveryJobSettles
CHECK_DEADLOCK FALSE

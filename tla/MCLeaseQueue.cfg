SPECIFICATION Spec
CONSTANTS
  Jobs = {j1, j2}
  Workers = {w1, w2}
  Admins = {a1}
  Tokens = {t1, t2, t3, t4, t5}
  None = None
  Handled = {j1}
  MaxAttempts = 2
  MaxFaults = 1
SYMMETRY Symmetry
INVARIANTS
  TypeOK
  CommitUnderLease
  DeadIsDeserved
PROPERTIES
  NoLeaseIsStolen
  OnlyHolderDecides
  ImplementsLifecycle
CHECK_DEADLOCK FALSE

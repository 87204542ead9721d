SPECIFICATION FairSpec
CONSTANTS
  Writers = {w1, w2}
  Rows = {r1, r2}
  None = None
  MaxAttempts = 2
  MaxEntries = 3
INVARIANTS
  TypeOK
  ChainIsSound
PROPERTIES
  AppendsEnd
  ImplementsLog
CHECK_DEADLOCK FALSE

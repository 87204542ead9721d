SPECIFICATION Spec
CONSTANTS
  Quotes = {q1}
  Clients = {c1, c2}
  Dunners = {}
  None = None
  Total = 2
  MaxLevel = 0
  MaxReceived = 4
INVARIANTS
  NoOverpayment
CHECK_DEADLOCK FALSE

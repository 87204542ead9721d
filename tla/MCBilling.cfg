SPECIFICATION Spec
CONSTANTS
  Quotes = {q1}
  Clients = {c1, c2, c3}
  Dunners = {d1, d2}
  None = None
  Total = 2
  MaxLevel = 2
  MaxReceived = 3
SYMMETRY Symmetry
INVARIANTS
  TypeOK
  OneInvoicePerQuote
  CreditedIsReceived
  DraftIsUntouched
  DunningEscalates
CHECK_DEADLOCK FALSE

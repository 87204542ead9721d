SPECIFICATION Spec
CONSTANTS
  Events = {e1}
  Attached = {e1}
  Handlers = {h1, h2, h3}
  Producers = {p1, p2}
  Dispatchers = {d1, d2}
  Admins = {a1}
  None = None
  MaxAttempts = 2
  MaxFaults = 1
SYMMETRY Symmetry
INVARIANTS
  TypeOK
  PublishedMeansHandled
PROPERTIES
  ImplementsDelivery
CHECK_DEADLOCK FALSE

SPECIFICATION Spec
CONSTANTS
  Events = {e1}
  Attached = {}
  Handlers = {h1}
  Producers = {p1}
  Dispatchers = {d1}
  Admins = {}
  None = None
  MaxAttempts = 1
  MaxFaults = 0
INVARIANTS
  NoEventWithoutFact
CHECK_DEADLOCK FALSE

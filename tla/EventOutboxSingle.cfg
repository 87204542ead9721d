SPECIFICATION FairSpec
CONSTANTS
  Events = {e1, e2}
  Attached = {e1}
  Handlers = {h1, h2}
  Producers = {p1}
  Dispatchers = {d1}
  Admins = {a1}
  None = None
  MaxAttempts = 2
  MaxFaults = 1
INVARIANTS
  NoSecondRun
  PublishedIsFinal
PROPERTIES
  DeadLettersStayDead
  EveryEventSettles
CHECK_DEADLOCK FALSE

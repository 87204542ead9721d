SPECIFICATION Spec
CONSTANTS
  Discoverers = {a}
  KeyRuns = {}
  Linkers = {b}
  Visitors = {v1}
  DeadAfter = 2
  MaxSourceFaults = 1
  Runs = {r1, r2}
  Couriers = {c1}
  MaxRuns = 3
  MaxLost = 1
  People = {p1, p2}
  MaxLeadRuns = 2
  MaxEdits = 2
  MaxLeadFaults = 1
  Clerks = {k1, k2}
  LastNumber = 2
  LastYear = 2
  Requests = {q1, q2}
  Callers = {k1, k2}
  Budget = 2
  CallCost = 1
  MaxApprovals = 2
  MaxRestarts = 1
INVARIANTS
  TypeOK
  ApprovalIsSigned
  DeskFollowsOccurrences
  CurrentBecomesLead
  NumbersRunOn
  AssistantIsBounded
  CalculationsAgree
PROPERTIES
  RegisteredIsFetched
  CorrectionsSurvive
CHECK_DEADLOCK FALSE

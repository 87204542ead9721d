SPECIFICATION Spec
CONSTANTS
  Docs = {d1}
  Findings = {f1, f2}
  Slots = {s1, s2}
  Workers = {a, b}
  MinAds = 1
  MaxAttempts = 2
  MaxMishaps = 1
  Scanners = {a, b}
  MaxCrashes = 2
  NAreas = 2
  Municipalities = 2
  SeedLimit = 1
  AreaLimit = 1
  GiveUpAfter = 2
  HalfYear = 4
  StaleAfter = 2
  AreaRuns = {a, b}
  MaxRequests = 1
  MaxAreaFaults = 1
  NKeys = 3
  KeyLimit = 1
  KeyPause = 2
  MaxSwitches = 1
  MaxKeyFaults = 1
INVARIANTS
  TypeOK
  FindingsOfOneRun
  OccurrencesAreAnnounced
  TakenInOnce
  NoMunicipalitySkipped
PROPERTIES
  DecisionsSurvive
  DocumentsSettle
  WorkComesRound
CHECK_DEADLOCK FALSE

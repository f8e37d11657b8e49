SPECIFICATION Spec
CONSTANTS
  t1 = t1  t2 = t2  d1 = d1  d2 = d2
  jobs = jobs  dead = dead
  TaskId = {t1,t2}
  QName = {jobs}
  DefaultQueue = jobs
  NoQ = NoQ
  NoTask = NoTask
  Settings <- Tuned
  DefaultSettings <- Push
  Answer <- Answers
  OwnLimits = {0}
  Old = {FALSE}
  Delivery = {d1,d2}
  MaxInflight = 2
  AttemptCap = 2
  MaxDefers = 0
  MaxLeases = 0
  MaxCrashes = 0
  TornSettle = FALSE
SYMMETRY Symmetry
INVARIANTS
  EngineHolds
PROPERTIES
  CallsApart

SPECIFICATION FairSpec
CONSTANTS
  t1 = t1  t2 = t2  d1 = d1  d2 = d2
  jobs = jobs  dead = dead
  TaskId = {t1}
  QName = {jobs}
  DefaultQueue = jobs
  NoQ = NoQ
  NoTask = NoTask
  Settings <- NoChange
  DefaultSettings <- Steered
  Answer <- SteeredAnswers
  OwnLimits = {0,1}
  Old = {FALSE,TRUE}
  Delivery = {d1}
  MaxInflight = 2
  AttemptCap = 3
  MaxDefers = 1
  MaxLeases = 0
  MaxCrashes = 1
  TornSettle = TRUE
INVARIANTS
  WithinLimit
PROPERTIES
  TaskRecovers

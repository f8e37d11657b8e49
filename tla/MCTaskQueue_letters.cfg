SPECIFICATION Spec
CONSTANTS
  t1 = t1  t2 = t2  d1 = d1  d2 = d2
  jobs = jobs  dead = dead
  TaskId = {t1,t2}
  QName = {jobs,dead}
  DefaultQueue = jobs
  NoQ = NoQ
  NoTask = NoTask
  Settings <- Letters
  DefaultSettings <- Double
  Answer <- Refusals
  OwnLimits = {0}
  Old = {FALSE}
  Delivery = {d1}
  MaxInflight = 1
  AttemptCap = 2
  MaxDefers = 0
  MaxLeases = 1
  MaxCrashes = 1
  TornSettle = FALSE
SYMMETRY Symmetry
INVARIANTS
  QueuesHold
PROPERTIES
  LettersKept
  TaskPromise

SPECIFICATION Spec
CONSTANTS
  f1 = f1  f2 = f2  u1 = u1  r1 = r1  r2 = r2
  Unit = 4  Second = 2  Rates <- MCRates  MaxRate = 6
  Slots = 2  Full = 4  MaxDue = 3  Window = 4
  Fn = {f1, f2}
  Hour = 3  Schedules <- MCSchedules
  MaxRuns = 1  Late = 2  MaxRestarts = 1
  User = {u1}  Nobody = Nobody
  Named = {1, 2}  MaxKey = 4  Value = {"a", "b"}
  Request = {r1, r2}
  Batch <- MCBatches  Operations <- MCTransactions
  Retries = 1  PutKeyless = FALSE
INVARIANTS
  BucketHolds
  RunsHold
  WritesHold
  DeclaredUnique
PROPERTIES
  OnlyNewRuns
  ScopedKeepsToItsOwn
  AllMoves

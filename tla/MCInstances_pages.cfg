SPECIFICATION Spec
CONSTANTS
  x1 = x1  x2 = x2  x3 = x3  y1 = y1  y2 = y2  a1 = a1  c1 = c1  u1 = u1
  Fn = {y1, y2}
  Source = {x1, x2, x3}
  NoSource = NoSource
  NoDefault = NoDefault
  MaxVersion = 3
  Keeps = {1, 2}
  DefaultKeep = 2
  Admin = {a1}
  Caller = {c1}
  Torn = FALSE
  Name = {"app", "web"}
  Id = {x1, x2, x3}
  None = None
  User = {u1}
  Deleter = {y1, y2}
  Region = {"eu"}
  Rules <- MCRules
  Normal <- MCNormal
  Plain = {0, 1}
  DefaultRules = "none"
  DefaultPlain = 0
  Writer = {y1, y2}
  Early = FALSE
  PageCalls = {y1, y2}
  PageUsers = {u1, c1}
  MaxPairs = 3
  Overlap = FALSE
  DocIds = {1, 2, 3}
  Contents <- MCContents
  BadDoc <- MCBad
  Batches <- MCBatches
  Alts <- MCAlts
  RuleLists <- MCRuleLists
  Queries <- MCQueries
  Limits = {1}
  MaxOffset = 1
  Accuracy = 2
  IndexRequests = {y1, y2}
  MaxIndexIds = 2
  MaxShown = 4
SYMMETRY Symmetry
INVARIANTS
  NoneTwice
CHECK_DEADLOCK FALSE

SPECIFICATION Spec
CONSTANTS
  c1 = c1  c2 = c2  k1 = k1  k2 = k2  q1 = q1  q2 = q2
  JobClients = {c1}
  JobConfigs <- MCJobConfigs
  JobImages = {"img"}
  Factor <- MCFactor
  JobTimeouts = {0}
  Second = 1  SecondPrice = 2  JobPrice = 1
  KeptJobs = 1  JobPage = 1  MaxLaunches = 2  MaxJobClock = 3
  LogLines = 3  LogPage = 2  MaxPrinted = 5
  BlobClients = {c1,c2}
  Pieces = {"x"}
  PartNumbers = {1}
  UploadTTL = 0  PendingGrace = 1  BlobPage = 1
  MaxReserved = 2  MaxUploads = 1  MaxBlobClock = 4  MaxBlobCrashes = 1
  DocKeys = {k1, k2}
  KeyLists <- MCKeyLists
  Writers = {w1, w2}
  EventQueues = {q1, q2}
  RuleLists <- MCRuleLists
  Firings = {g1}
  MaxTriggerDepth = 1  MaxEvents = 2  FireAttempts = 2
  External = 1  MailSent = FALSE
  Callers = {"c1"}
  Sorts <- MCSorts
  Keys = {"k"}
  GrantTables <- MCGrants
  DevOpen = TRUE
  Rpms = {0, 1}  MaxRpm = 1  MinuteTicks = 2  RetryAfter = 3
INVARIANTS
  JobsHold
  BlobsHold
  TriggersHold
  CallsHold
  LogHolds
PROPERTIES
  EndsOnce
  
CHECK_DEADLOCK FALSE

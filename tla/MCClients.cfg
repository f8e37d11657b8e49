SPECIFICATION Spec
CONSTANTS
  s1 = s1  s2 = s2  ch1 = ch1  ch2 = ch2  user = user  member = member  none = none
  AuthClients = {"c1", "c2"}
  Handles = {"h"}
  Passwords = {"p"}
  AccessTTL = 1  RefreshTTL = 2  CodeTTL = 1  Window = 2  Slack = 1
  MaxGuesses = 2  MaxUsers = 1  MaxTokens = 3  MaxCodes = 1  MaxEpoch = 1
  MaxAuthClock = 3  MaxAuthCrashes = 1
  Sockets = {s1, s2}
  Publishers = {"p1"}
  Channels = {ch1, ch2}
  EndUsers = {user}
  Permitted <- MCPermitted
  PresenceIds = {member}
  NoOne = none
  TokenAsks <- MCTokenAsks
  MaxTTL = 2  DefaultTTL = 1  IdentityTTL = 1  PerIdentity = 1
  PresenceOn = TRUE
  LiveWrites <- MCLiveWrites
  MaxHubTokens = 2  MaxPublishes = 2  MaxHubClock = 2
  QueueNames = {"q1", "q2"}  DefaultQueue = "q1"  MaxQueues = 2
  Savers = {"v1", "v2"}
  Defaults <- MCDefaults
  Patches <- MCPatches
  TaskLists <- MCTaskLists
  RunTimes = {1, 2}  MaxTaskIds = 3  TaskPage = 1
INVARIANTS
  SessionsHold
  
  SettingsHold
  TasksHold
PROPERTIES
  AllEnd
  WaitsStep
CHECK_DEADLOCK FALSE

SPECIFICATION Spec
CONSTANTS
  TimerIds = {1, 2, 3}
  MaxDelay = 2
  Slack = 0
  MaxTime = 3
  Timers = {1, 2}
  MaxTasks = 1
  MaxShots = 2
  Workers = {1, 2}
  Holders = {1, 2}
  MaxIdle = 1
  MaxClock = 2
  Loggers = {1, 2}
  MaxLines = 3
  Limit = 1
  MaxSeconds = 1
  MaxFileSize = 1
  MaxFiles = 1
  Sqls = {"a", "b"}
  CacheSize = 1
  MaxCalls = 3
  DbRequests = {1, 2, 3}
  Slots = 1
  MaxMade = 2
  Requests = {r1, r2}
  MaxGen = 3
  Users = {1, 2, 3}
  Safe = {1}
  MaxEntries = 2
  MaxPerOrigin = 1
  MaxQueue = 1
  MaxPeer = 2
  MaxOrigins = 2
  Calls = {1, 2, 3}
  Local = 2
  Tasks = 2
  MaxWaiters = 1
  PeerLimits = {1, 2}
  Jobs = {1, 2}
  SafeJobs = {1}
  MaxClients = 3
  MaxIdleClients = 2
INVARIANTS  AtMostOnce NobodyStranded CountsExact TimersKept MemoryHeld  
 
CHECK_DEADLOCK FALSE

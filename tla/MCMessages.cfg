SPECIFICATION Spec
CONSTANTS
  MaxEntries = 3
  Methods = {g, p}
  MaxRoutes = 2
  MaxSegments = 2
  TextFiles = {t1}
  Binary = {b1}
  NTasks = 2
  MaxNodes = 2
  PathTtl = 2
  Ttl = 1
  MaxCached = 1
  MaxFile = 2
  MaxSize = 3
  MaxChanges = 1
  MaxTime = 2
  MaxRequests = 3
  MaxResponses = 2
  MaxOps = 3
  MaxBody = 2
  MaxBatch = 5
  MaxMessage = 65536
  MaxFrames = 2
  WindowBits = 12
  MaxFields = 6
  MaxBytes = 8
  Longest = 6
  Prepend = 1
  Capacities = {1, 3}
  MaxChunk = 3
  BufferMaxBytes = 3
  Casts = {"c1"}
  MaxReplies = 1
  MaxPings = 1
  FramesPerBatch = 2
  WriteBatch = 2
  SocketMaxMessage = 2
  Sessions = {1, 2}
  Rooms = {"r"}
  MaxCasts = 2
  MaxJoins = 2
  MaxEvents = 2
  MaxBeats = 2
  Threads = {1, 2}
  MaxSessions = 2
  MaxAge = 1
  GcInterval = 2
  StoreMaxTime = 2
  MaxIds = 3
  MaxWrites = 1
  Keys = {1, 2}
  Rate = 1
  Burst = 1
  LimiterMaxEntries = 1
  LimiterIdle = 3
  MaxLag = 1
  LimiterGcInterval = 2
  LimiterMaxTime = 5
INVARIANTS ChainInOrder RoutesExact FilesFresh   
PROPERTIES StoreSteps
CHECK_DEADLOCK FALSE

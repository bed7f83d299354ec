CONSTANTS
    Threads = {t1, t2}
    Calls = {"close", "shutdown", "stopRead", "startRead", "destroy"}
    LoopCalls = {"close", "shutdown", "stopRead", "startRead"}
    MaxCalls = 2
SPECIFICATION FairSpec
INVARIANTS ConnectionSound
PROPERTIES CleansUp
CHECK_DEADLOCK FALSE

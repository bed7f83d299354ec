CONSTANTS
    Producers = {p1, p2}
    MaxSends = 2
    MaxBatch = 2
    Stub = Stub
    Null = Null
    MayFail = TRUE
SPECIFICATION FairSpec
INVARIANTS SingleWriter Delivered
PROPERTIES EventuallyWritten
CHECK_DEADLOCK FALSE

CONSTANTS
    Conns = {c1, c2}
    Base = base
    Workers = {w1}
    Threads = {t1}
    MaxConns = 1
SPECIFICATION Spec
INVARIANTS CountExact LimitRespected StopsSound
PROPERTIES StopEnds
CHECK_DEADLOCK FALSE

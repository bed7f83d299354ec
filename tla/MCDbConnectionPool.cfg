CONSTANTS
    Clients = {c1, c2, c3}
    Conns = {n1, n2, n3, n4, n5}
    NoConn = NoConn
    MinConnections = 1
    MaxConnections = 2
    HealthCheck = TRUE
    PingGrace = TRUE
    MaxFaults = 1
SPECIFICATION Spec
SYMMETRY Symmetry
INVARIANTS SingleOwner CountExact NoLostHandOver
CHECK_DEADLOCK FALSE

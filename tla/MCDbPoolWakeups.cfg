CONSTANTS
    Clients = {c1, c2, c3}
    Conns = {n1, n2, n3}
    NoConn = NoConn
    MinConnections = 0
    MaxConnections = 1
    HealthCheck = FALSE
    PingGrace = FALSE
    MaxFaults = 0
SPECIFICATION FairSpec
INVARIANTS WaitersJustified
PROPERTIES WaiterWoken LeasesKept
CHECK_DEADLOCK FALSE

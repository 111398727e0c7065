SPECIFICATION FairSpec
CONSTANTS
    Nodes = {n1, n2}
    Conns = {c1, c2}
    NoNode = NoNode
    NoConn = NoConn
    AdminOps = {}
    ServerFlag = FALSE
    MaxFaults = 0
PROPERTIES
    DeregisterGoesIdle
    BoundGoesOnline
CHECK_DEADLOCK FALSE

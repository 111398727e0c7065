SPECIFICATION Spec
CONSTANTS
    Nodes = {n1}
    Conns = {c1, c2}
    NoNode = NoNode
    NoConn = NoConn
    AdminOps = {"disable", "enable", "delete"}
    ServerFlag = FALSE
    MaxFaults = 2
INVARIANTS
    LiveIsRegistered
    CancelledIsUnregistered
SYMMETRY ConnSymmetry
CHECK_DEADLOCK FALSE

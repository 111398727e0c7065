CONSTANTS
    User = {root, u1}
    Cluster = {home, c1, c2}
    Token = {t1}
    Row = {n1, n2}
    Machine = {m1}
    Request = {1, 2}
    MaxUses = 1
    MaxRequests = 4
    ClusterLimit = 2
    root = root
    home = home
    None = None
    MaxVersion = 2
    MaxEvents = 3
    Upload = {f1, f2}
    Download = {g1}
    Chunks = 2
    MaxTransfers = 2
    MaxFaults = 1
    old = old
    NoInode = NoInode
SPECIFICATION ApartSpec
CHECK_DEADLOCK FALSE
INVARIANTS UploadAtomic DownloadHonest
PROPERTIES AdminRemains NoGhostEnrolled  Converges TransferEnds TunnelTorndown

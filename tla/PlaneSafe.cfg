SPECIFICATION FairPlaneSpec
CONSTANTS
    n1 = n1
    s1 = s1
    e1 = e1
    Node = {n1}
    NoSession = NoSession
    NodeOf <- OneNode
    KindOf <- Kinds
    Session = {s1}
    OpeningTTL = 1
    ShellIdleTimeout = 1
    ShellMaxLifetime = 2
    DesktopIdleTimeout = 1
    DesktopLeaseTTL = 1
    DesktopStealCooldown = 1
    ShellPerNode = 1
    DesktopPerNode = 1
    AgeCap = 3
    MaxDials = 3
    MaxQueue = 1
INVARIANTS LoneLegHasTimer EndsReported
PROPERTIES  LostEndCollected

SPECIFICATION FairControlSpec
CONSTANTS
    n1 = n1
    d1 = d1
    d2 = d2
    s1 = s1
    s2 = s2
    e1 = e1
    Node = {n1}
    NoSession = NoSession
    NodeOf <- OneNode
    KindOf <- Kinds
    Session = {d1, s1, e1}
    OpeningTTL = 1
    ShellIdleTimeout = 1
    ShellMaxLifetime = 2
    DesktopIdleTimeout = 2
    DesktopLeaseTTL = 1
    DesktopStealCooldown = 1
    ShellPerNode = 1
    DesktopPerNode = 2
    AgeCap = 3
ACTION_CONSTRAINT OneRequest
PROPERTIES OpeningResolves GovernedEnd

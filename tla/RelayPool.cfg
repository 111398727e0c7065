CONSTANTS
    r1 = r1  r2 = r2  c1 = c1  c2 = c2  d1 = d1
    Relay = {r1, r2}
    Conn = {c1, c2, d1}
    Node = {n1}
    RelayOf <- Dials
    Allowed = {r2}
    HasData = {r1}
    MaxCerts = 1
    MaxFaults = 1
    MaxEdits = 1
    None = None
SPECIFICATION FairSpec
ACTION_CONSTRAINT Quiet
 PROPERTIES FingerprintFollows 

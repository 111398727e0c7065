CONSTANTS
    s1 = s1  s2 = s2  v1 = v1  v2 = v2  h2 = h2
    Session = {s1, s2}
    Viewer = {v1, v2}
    Host = {h1, h2}
    None = None
    SessionOf <- Apart
SPECIFICATION FairSpec
ACTION_CONSTRAINT OneTwist
CHECK_DEADLOCK FALSE
 
PROPERTIES LeaseSpec AskingViewerBound

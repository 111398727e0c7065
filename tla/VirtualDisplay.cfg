CONSTANTS
    Session = {s1, s2}
    ForceLid = {""}
    MaxPipe = 2
    MaxFaults = 1
SPECIFICATION FairSpec
CHECK_DEADLOCK FALSE
INVARIANTS CountedAreSafe
 

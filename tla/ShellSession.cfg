CONSTANTS
    Platform = {"linux", "windows"}
    Mode = {"oneshot", "interactive"}
    Depth = 1
    Budget = 2
    MaxOut = 3
    MaxFaults = 1
    Begin = Begin  Marker = Marker  Result = Result
    Ok = Ok  Killed = Killed  Lost = Lost  Taken = Taken
    None = None
SPECIFICATION FairSpec
CHECK_DEADLOCK FALSE
INVARIANTS  ExecNeverPanics
PROPERTIES HandlerReturns NothingLeft

SPECIFICATION Spec
CONSTANTS
    MaxVersion = 3
    Checks = {c1}
    MaxFaults = 1
INVARIANTS
    SourceKept
    TargetAllowed
CHECK_DEADLOCK FALSE

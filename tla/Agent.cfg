CONSTANTS
    MaxVersion = 2
    Checks = {c1}
    MaxFaults = 2
    Desk = {d1, d2}
    Sas = {k1}
    MaxConns = 4
    MaxCoreFaults = 2
    Nil = Nil
SPECIFICATION AgentSpec
CHECK_DEADLOCK FALSE
INVARIANTS AnswerIsOwn
PROPERTIES UpdateResolved CallReturns CaptureReleased

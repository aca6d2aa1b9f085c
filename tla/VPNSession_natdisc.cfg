SPECIFICATION Spec
CONSTANTS
    MaxSessions = 1
    MaxDirect = 2
    MaxCrashes = 0
    Pollers = {p1}
    SavePassword = TRUE
    AllowFork = FALSE
    Survives = FALSE
INVARIANTS DisconnectedIsDirect
CHECK_DEADLOCK FALSE

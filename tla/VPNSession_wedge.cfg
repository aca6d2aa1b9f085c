SPECIFICATION FairSpec
CONSTANTS
    MaxSessions = 1
    MaxDirect = 1
    MaxCrashes = 0
    Pollers = {p1}
    SavePassword = TRUE
    AllowFork = FALSE
    Survives = FALSE
PROPERTIES LockIsReleased
CHECK_DEADLOCK FALSE

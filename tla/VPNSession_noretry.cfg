SPECIFICATION FairSpec
CONSTANTS
    MaxSessions = 1
    MaxDirect = 1
    MaxCrashes = 0
    Pollers = {p1}
    SavePassword = TRUE
    AllowFork = TRUE
    Survives = FALSE
PROPERTIES DropStartsAutoReconnect
CHECK_DEADLOCK FALSE

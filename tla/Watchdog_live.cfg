SPECIFICATION WatchedUntimedSpec
CONSTANTS
    MaxSessions = 1
    MaxDirect = 1
    MaxCrashes = 0
    Pollers = {p1}
    SavePassword = TRUE
    AllowFork = TRUE
    MaxWatchdogs = 1
    Survives = FALSE
PROPERTIES WatchdogsEnd DropIsNoticed AttemptResolves FirstPromptShown DisconnectReapsGoroutines
CHECK_DEADLOCK FALSE

SPECIFICATION WatchedSpec
CONSTANTS
    MaxSessions = 2
    MaxDirect = 1
    MaxCrashes = 1
    Pollers = {p1}
    SavePassword = TRUE
    AllowFork = FALSE
    MaxWatchdogs = 2
    Survives = TRUE
CONSTRAINT SecondAfterRestartOrAutomatic
ACTION_CONSTRAINT DirectNATFirst
INVARIANTS AtMostOneOpenConnect FlagIsOwned ConnectedIsWatched
PROPERTIES ImplementsLifecycle
CHECK_DEADLOCK FALSE

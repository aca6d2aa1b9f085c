SPECIFICATION Spec
CONSTANTS
    MaxSessions = 2
    MaxDirect = 1
    MaxCrashes = 1
    Pollers = {}
    SavePassword = TRUE
    AllowFork = TRUE
    Survives = FALSE
CONSTRAINT TwoWithoutRestartOrFork
ACTION_CONSTRAINT DirectNATFirst
INVARIANTS TypeOK AtMostOneOpenConnect NoOrphanOpenConnect
PROPERTIES OnlyCurrentSessionPublishes ImplementsLifecycle
CHECK_DEADLOCK FALSE

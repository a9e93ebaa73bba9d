SPECIFICATION Spec
CONSTANTS
    Sessions = {s1}
    NoSession = none
    MaxProcs = 1
    MaxSessionConns = 0
    KeepLogs = FALSE
    ExitOnBadExit = FALSE
    IdleShutdown = FALSE
    Crashes = TRUE
    MaxSpawns = 2
    MaxSockets = 2
    MaxCalls = 3
PROPERTIES
    NewSessionHasProcess
CHECK_DEADLOCK FALSE

SPECIFICATION FairSpec
CONSTANTS
    Sessions = {s1, s2}
    NoSession = none
    MaxProcs = 1
    MaxSessionConns = 0
    KeepLogs = TRUE
    ExitOnBadExit = TRUE
    IdleShutdown = TRUE
    Crashes = TRUE
    MaxSpawns = 2
    MaxSockets = 2
    MaxCalls = 4
INVARIANTS
    ProcLimit
    NoOrphan
    NoStranded
    ShutdownComplete
    NoConsumerLeak
PROPERTIES
    ClientsToldOfExit
    ShutdownOnlyWaitsInVain
\* The server may be left alone for ever.
CHECK_DEADLOCK FALSE

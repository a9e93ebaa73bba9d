SPECIFICATION FairSpec
CONSTANTS
    Transports = {t1, t2}
    First = t1
    None = None
    Requests = {r1}
    MaxNotes = 1
    MaxInits = 2
    MaxSockets = 2
INVARIANTS
    FirstAskedWhenInitialized
    NothingLost
    NoSocketLeak
PROPERTIES
    RequestsSettle
\* Every transport may be disposed of.
CHECK_DEADLOCK FALSE

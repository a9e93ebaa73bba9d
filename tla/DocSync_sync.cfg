SPECIFICATION Spec
CONSTANTS
    Locks = {l1, l2}
    SendDidOpen = TRUE
    Undo = FALSE
    Emptying = FALSE
    MaxEdits = 2
    MaxInits = 2
SYMMETRY LockSymmetry
INVARIANTS
    SyncedWhenIdle
    PausedIsLocked
    LocksSettle
PROPERTIES
    VersionsIncrease
\* The editor may be left alone for ever.
CHECK_DEADLOCK FALSE

SPECIFICATION FairSpec
CONSTANTS
    Locks = {l1}
    SendDidOpen = TRUE
    Undo = FALSE
    Emptying = FALSE
    MaxEdits = 3
    MaxInits = 2
PROPERTIES
    Mirrored
    EventuallySynced
\* The editor may be left alone for ever.
CHECK_DEADLOCK FALSE

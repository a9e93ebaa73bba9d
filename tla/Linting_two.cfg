SPECIFICATION FairSpec
CONSTANTS
    Sizes = {0, 1, 2}
    EnableCodeActions = TRUE
    MaxNotifications = 1
    MaxVersion = 2
PROPERTIES
    ActionsAppear
\* No more diagnostics may come.
CHECK_DEADLOCK FALSE

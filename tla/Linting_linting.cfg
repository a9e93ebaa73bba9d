SPECIFICATION FairSpec
CONSTANTS
    Sizes = {0, 1}
    EnableCodeActions = TRUE
    MaxNotifications = 3
    MaxVersion = 2
PROPERTIES
    ShownIsCurrent
    ActionsAppear
\* No more diagnostics may come.
CHECK_DEADLOCK FALSE

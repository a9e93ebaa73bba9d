SPECIFICATION Spec
CONSTANTS
    Setups <- MCSorting
    MaxEdits = 3
    MaxAttempts = 2
    MaxRequests = 2
    ClearOnEdit = TRUE
    MaxJobs = 2
    MaxFinds = 2
    MaxItems = 2
    MaxText = 2
INVARIANT
    PreselectedFirst
CHECK_DEADLOCK FALSE

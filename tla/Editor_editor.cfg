SPECIFICATION FairSpec
CONSTANTS
    Setups <- MCSetups
    MaxEdits = 3
    MaxAttempts = 2
    MaxRequests = 2
    ClearOnEdit = TRUE
    MaxJobs = 2
    MaxFinds = 2
    MaxItems = 2
    MaxText = 2
INVARIANTS
    TypeOK
    SelectionInText
    TooltipStays
    BetterItemsFirst
PROPERTIES
    LatestSignature
    HintsInOrder
    HintsRefreshed
    WaitersServed
    EditsAsIfAtOnce
\* The editor may be left alone for ever.
CHECK_DEADLOCK FALSE

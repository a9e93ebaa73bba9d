SPECIFICATION FairSpec
CONSTANTS
    c1 = c1
    c2 = c2
    n1 = n1
    s1 = s1
    Conns = {c1, c2}
    NumIds = {n1}
    StrIds = {s1}
    Uuids = {u1, u2}
    Pushes = {p1}
    NoId = NoId
    NoMessage = NoMessage
    Splits = TRUE
    Workloads <- MCWorkloads
INVARIANTS
    NoStaleEntry
    RepliesMatch
    NoBadHeader
PROPERTIES
    AnswersAskers
    EverythingArrives
\* Every request may have been answered and every client be gone.
CHECK_DEADLOCK FALSE

SPECIFICATION FairSpec
CONSTANTS
    q1 = q1  q2 = q2  n1 = n1  n2 = n2  c1 = c1  p1 = p1
    Requests = {q1, q2}
    Notes = {n1, n2}
    Calls = {c1}
    Pushes = {p1}
    Handlers <- MCHandlers
    Middlewares <- MCMiddlewares
    ResultMiddlewares <- MCResultMiddlewares
    PostSpawn = TRUE
INVARIANTS
    PassedOnConverted
    CancelIsFinal
PROPERTIES
    RequestsAnswered
\* Every message may have been dealt with.
CHECK_DEADLOCK FALSE

SPECIFICATION Spec
CONSTANTS
    Bodies <- MCBodies
    Rewritten <- MCRewritten
    Dropped = {2}
    ChunkSize = 25
INVARIANTS
    PushedInOrder
    FailsOnCutHeader
    FramesInOrder
PROPERTIES
    Relayed
\* The stream ends.
CHECK_DEADLOCK FALSE

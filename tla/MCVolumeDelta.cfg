SPECIFICATION Spec
CONSTANTS
    Volumes = {v1, v2}
    Writers = {w1, w2}
    Reads = {r1}
    MaxWrites = 2
    MaxDeeds = 2
    EarlyPages = FALSE
    LatePages = FALSE
INVARIANTS
    TypeOK
    CursorComplete
PROPERTIES
    NothingCommitsBehind
    CatchesUp
CHECK_DEADLOCK FALSE

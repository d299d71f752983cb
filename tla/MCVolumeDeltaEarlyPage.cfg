SPECIFICATION Spec
CONSTANTS
    Volumes = {v1, v2}
    Writers = {w1, w2}
    Reads = {r1}
    MaxWrites = 2
    MaxDeeds = 3
    EarlyPages = TRUE
    LatePages = FALSE
INVARIANTS
    CursorComplete
CHECK_DEADLOCK FALSE

SPECIFICATION Spec
CONSTANTS
    Vols = {v1, v2}
    MaxTries = 2
    MaxEdits = 2
    MaxVisits = 1
INVARIANTS
    LatestStateSent
SYMMETRY Symmetry
CHECK_DEADLOCK FALSE

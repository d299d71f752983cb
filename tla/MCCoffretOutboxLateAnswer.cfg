SPECIFICATION Spec
CONSTANTS
    Vols = {v1, v2}
    MaxTries = 2
    MaxEdits = 1
    MaxVisits = 1
INVARIANTS
    LateAnswersHarmless
SYMMETRY Symmetry
CHECK_DEADLOCK FALSE

SPECIFICATION Spec
CONSTANTS
    Series = {s1}
    Held = {s1}
    MaxTries = 2
    MaxEdits = 1
    MaxVisits = 1
INVARIANTS
    LateListsHarmless
CHECK_DEADLOCK FALSE

SPECIFICATION Spec
CONSTANTS
    Series = {s1, s2}
    Held = {s1}
    MaxTries = 2
    MaxEdits = 2
    MaxVisits = 1
INVARIANTS
    TypeOK
    WaitingOpShown
    NoSilentLoss
    QuietMeansMirrored
PROPERTIES
    Drains
CHECK_DEADLOCK FALSE

SPECIFICATION SpecFailing
CONSTANTS
    Users = {ann, bob}
    None = None
    Tabs = {t1}
    MaxEdits = 1
    MaxSessions = 2
    LateEdits = FALSE
INVARIANTS
    NeverAnothers
CHECK_DEADLOCK FALSE

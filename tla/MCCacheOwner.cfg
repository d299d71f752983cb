SPECIFICATION Spec
CONSTANTS
    Users = {ann, bob}
    None = None
    Tabs = {t1}
    MaxEdits = 1
    MaxSessions = 3
    LateEdits = FALSE
INVARIANTS
    TypeOK
    NeverAnothers
    OnlyOwnRows
CHECK_DEADLOCK FALSE

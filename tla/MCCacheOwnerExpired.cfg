SPECIFICATION Spec
CONSTANTS
    Users = {ann}
    None = None
    Tabs = {t1}
    MaxEdits = 1
    MaxSessions = 2
    LateEdits = FALSE
PROPERTIES
    ExpiryKeepsQueue
CHECK_DEADLOCK FALSE

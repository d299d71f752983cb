SPECIFICATION Spec
CONSTANTS
    Calls = {c1, c2}
    MaxBackoff = 2
    Tables = {"library", "volumes"}
    FlushOrder <- TwoTables
    Poisoned = {"library"}
    MaxTries = 2
    MaxEnqueues = 1
    MaxReloads = 1
INVARIANTS
    TypeOK
    FlagHasOwner
    KnockHasListener
    ShutWindowHasTimer
PROPERTIES
    PassVisitsEveryTable
CHECK_DEADLOCK FALSE

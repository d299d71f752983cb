SPECIFICATION SyncSpec
CONSTANTS
    v1 = v1
    v2 = v2
    s1 = s1
    p1 = p1
    p2 = p2
    Volumes = {v1}
    Series = {s1}
    SeriesOf <- OneVolume
    Fields = {"loan"}
    BaseFields = {}
    BulkFields = {"loan"}
    LateFields = {"loan"}
    Passes = {p1}
    Concurrency = 4
    MaxTries = 2
    MaxEdits = 1
    MaxRestores = 1
    MaxReloads = 1
    MaxPageReads = 1
    RacingEdits = FALSE
    MixedEdits = FALSE
    ReadsFail = TRUE
    MaxBackoff = 2
INVARIANTS
    SyncTypeOK
PROPERTIES
    Drains
CHECK_DEADLOCK FALSE

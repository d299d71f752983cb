SPECIFICATION Spec
CONSTANTS
    v1 = v1
    v2 = v2
    s1 = s1
    s2 = s2
    p1 = p1
    p2 = p2
    Volumes = {v1}
    Series = {s1}
    SeriesOf <- OneVolume
    Fields = {"owned", "read"}
    BaseFields = {"owned"}
    BulkFields = {"owned", "read"}
    LateFields = {}
    Passes = {p1}
    Concurrency = 4
    MaxTries = 2
    MaxEdits = 1
    MaxRestores = 0
    MaxReloads = 0
    MaxPageReads = 1
    RacingEdits = FALSE
    MixedEdits = FALSE
    ReadsFail = FALSE
PROPERTIES
    NoEditReverts
CHECK_DEADLOCK FALSE

SPECIFICATION SyncSpec
CONSTANTS
    v1 = v1
    v2 = v2
    s1 = s1
    p1 = p1
    p2 = p2
    Volumes = {v1, v2}
    Series = {s1}
    SeriesOf <- OneSeries
    Fields = {"owned", "read"}
    BaseFields = {"owned"}
    BulkFields = {"owned", "read"}
    LateFields = {}
    Passes = {p1, p2}
    Concurrency = 4
    MaxTries = 2
    MaxEdits = 2
    MaxRestores = 0
    MaxReloads = 0
    MaxPageReads = 0
    RacingEdits = FALSE
    MixedEdits = FALSE
    ReadsFail = FALSE
    MaxBackoff = 2
INVARIANTS
    OneRequestPerSeries
CHECK_DEADLOCK FALSE

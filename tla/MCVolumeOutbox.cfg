SPECIFICATION Spec
CONSTANTS
    v1 = v1
    v2 = v2
    s1 = s1
    s2 = s2
    p1 = p1
    p2 = p2
    Volumes = {v1, v2}
    Series = {s1}
    SeriesOf <- OneSeries
    Fields = {"owned", "isbn"}
    BaseFields = {"owned"}
    BulkFields = {"owned"}
    LateFields = {"isbn"}
    Passes = {p1}
    Concurrency = 4
    MaxTries = 2
    MaxEdits = 3
    MaxRestores = 0
    MaxReloads = 1
    MaxPageReads = 0
    RacingEdits = FALSE
    MixedEdits = FALSE
    ReadsFail = TRUE
SYMMETRY VolumeSymmetry
INVARIANTS
    TypeOK
    NoSilentLoss
    RefusalsReported
    QuietMeansMirrored
PROPERTIES
    NoEditReverts
    NothingOlderLands
CHECK_DEADLOCK FALSE

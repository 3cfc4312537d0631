SPECIFICATION MCSpec
CONSTANTS
    None = None
    Procs = {p1, p2}
    Plans = {a, b}
    Values = {v}
    StreamLimit = 3
    DirectorySyncFails = TRUE
    Artifacts = {i, j, k}
    DeletionIDs = {x, y}
    MaxArtifacts = 2
    StoreFaults = 3
    Callers = {c, d}
    Keys = {m, n}
    Configurations = {f, g}
    Limit = 1
    MaximumKeys = 1
    MaxTime = 1
    MaxCalls = 4
INVARIANTS NeverTorn ReportedSurvivesStops PlanMatchesStream
    DeletionFinal StoredSurvives WithinLimits
PROPERTIES PreparedIsDeleted CallsEnd
CHECK_DEADLOCK FALSE

SPECIFICATION Spec
CONSTANTS
    None = None
    Procs = {p1, p2}
    Plans = {a, b}
    Values = {v}
    StreamLimit = 3
    DirectorySyncFails = TRUE
INVARIANT ReportedSurvives

SPECIFICATION Spec
CONSTANTS
    RunCount = 2
    Rounds = 0
    MaximumRetries = 2
    Stops = 1
    Faults = 1
    OpenInterrupted = TRUE
PROPERTY SettledCloses

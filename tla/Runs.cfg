CONSTANTS
    c1 = c1
    c2 = c2
    w1 = w1
    o1 = o1
    o2 = o2
    None = None
    N = 4
    Kind <- GraphKind
    Deps <- GraphDeps
    Required = {1, 3, 4}
    MaxAttempts <- GraphAttempts
    RetryDelay <- NoDelay
    LeaseDuration <- OneTick
    Publishes = FALSE
    Outputs = {o1, o2}
    Workers = {w1}
    Calls = {c1}
    Times = {1, 2, 3, 4, 5}
    Fractions = {FALSE, TRUE}
    Results <- GraphResults
    MaxConflicts = 2
    AdvanceLoads = 6
    JournalLimit = 20
    RunCount = 2
    Rounds = 1
    MaximumRetries = 2
    Stops = 1
    Faults = 1
SPECIFICATION MCSpec
INVARIANTS DependenciesSettled OriginalFailure JournalNeverFull
PROPERTIES FailureStable SettledCloses ReadyIsNotified

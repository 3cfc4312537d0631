CONSTANTS
    c1 = c1
    c2 = c2
    w1 = w1
    o1 = o1
    o2 = o2
    None = None
    N = 4
    Kind <- ThroughKind
    Deps <- ThroughDeps
    Required = {1, 2, 4}
    MaxAttempts <- ThroughAttempts
    RetryDelay <- NoDelay
    LeaseDuration <- OneTick
    Publishes = FALSE
    Outputs = {o1, o2}
    Workers = {w1}
    Calls = {c1}
    Times = {1, 2}
    Fractions = {FALSE, TRUE}
    Results <- GraphResults
    MaxConflicts = 2
    AdvanceLoads = 6
    JournalLimit = 20
SPECIFICATION Spec
INVARIANTS FailureStopsDescendants

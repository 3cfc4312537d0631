CONSTANTS
    c1 = c1
    c2 = c2
    w1 = w1
    o1 = o1
    o2 = o2
    None = None
    N = 2
    Kind <- ChainKind
    Deps <- ChainDeps
    Required = {1, 2}
    MaxAttempts <- ChainAttempts
    RetryDelay <- NoDelay
    LeaseDuration <- OneTick
    Publishes = FALSE
    Outputs = {o1, o2}
    Workers = {w1}
    Calls = {c1, c2}
    Times = {1, 2}
    Fractions = {FALSE, TRUE}
    Results <- ChainResults
    MaxConflicts = 2
    AdvanceLoads = 4
    JournalLimit = 14
SPECIFICATION Spec
INVARIANTS TypeOK OneLeasePerAttempt AckedDurable SuccessIsComplete
PROPERTY JournalSpec
SYMMETRY CallSymmetry

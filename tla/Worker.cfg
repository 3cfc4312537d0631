SPECIFICATION MCSpec
CONSTANTS
    w1 = w1
    w2 = w2
    w3 = w3
    N = 4
    Kind <- PlanKind
    Deps <- PlanDeps
    Required = {1, 2, 4}
    MaxAttempts <- PlanAttempts
    RetryDelay <- NoDelay
    LeaseDuration <- OneTick
    Publishes = FALSE
    Workers = {w1, w2, w3}
    Registered <- Catalogs
    RunCount = 2
    PageSize = 1
    Results <- Completions
    Disturbances = 1
INVARIANTS InputsAreSettled ExecutionsBounded
 

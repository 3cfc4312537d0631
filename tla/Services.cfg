SPECIFICATION MCSpec
CONSTANTS
    None = None
    run = run
    NoticeCount = 2
    Scope <- MCScope
    AvailableAt <- MCAvailableAt
    Workers = {w1, w2}
    Times = {1, 2, 3}
    Durations = {1, 2}
    MaxDeliveries = 2
    Executions = {e1, e2}
    GrantIDs = {x, y}
    MaxAttempts = 2
    MaxConflicts = 2
    PublicationFaults = 1
    Callers = {c, d}
    MaxTurns = 3
    MaxTools = 2
    Budget = 3
    Reservation = 1
    Costs = {0, 2}
    InvestigationFaults = 2
INVARIANTS DeliveriesDisjoint AcknowledgedIsLast
    OneOwner ReviewedOnce SentUnderGate ReportedHappened
    StopsAfterDoubt AdmittedWithinBudget SuccessIsAccounted ReleasedAfterUse
PROPERTY CloseEnds
CHECK_DEADLOCK FALSE

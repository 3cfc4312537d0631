CONSTANTS
    Operations = {a, b}
    MaxOperations = 2
    MaxSequence = 2
    Lives = {2}
    RenewBefore = 1
    MinimumGap = 1
    MaxTime = 1
    Disturbances = 1
SPECIFICATION Spec
INVARIANTS IssuanceRecorded CleanupAfterUse
PROPERTY CloseCompletes
CHECK_DEADLOCK FALSE

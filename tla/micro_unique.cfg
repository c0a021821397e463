SPECIFICATION Spec
CONSTANTS
    ServiceIds = {10, 20, 30}
    MaxServices = 3
    MaxCommands = 2
    Timeout = 1
    Word = 16
    DuplicateIds = FALSE
    MaxTime = 3
    MaxSubmitted = 3
    MaxBatch = 2
INVARIANTS TypeOK CountIsOfMask QueuesInOrder CollectorLeavesNoneExpired
PROPERTY CollectsOnlyTheIdle
CHECK_DEADLOCK FALSE

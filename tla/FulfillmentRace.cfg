SPECIFICATION Spec
CONSTANTS
    w1 = w1
    w2 = w2
    Workers = {w1, w2}
    LockKey <- TwoProcesses
    Tasks = {1, 2}
    DependsOn <- PairDeps
    Plans <- PairPlans
    Compensable = {1}
    MaxRetries = 2
    MaxWaves = 3
    WaveConcurrency = 1
    StartStates = {"requested"}
    MaxEvents = 1
    MaxCrashes = 1
    MaxCancels = 0
    MayRaise = TRUE
INVARIANTS TypeOK StartedAfterDeps FulfilledMeansAllDone OutputIsCurrentAttempt BlockedOnOwnApproval
PROPERTY ImplementsTaskDag
SYMMETRY MCWorkers
CHECK_DEADLOCK FALSE

SPECIFICATION Spec
CONSTANTS
    w1 = w1
    w2 = w2
    Workers = {w1}
    LockKey <- OneProcess
    Tasks = {1, 2}
    DependsOn <- PairDeps
    Plans <- PairPlans
    Compensable = {1}
    MaxRetries = 3
    MaxWaves = 64
    WaveConcurrency = 8
    StartStates = {"requested"}
    MaxEvents = 0
    MaxCrashes = 0
    MaxCancels = 0
    MayRaise = FALSE
INVARIANT ProvisionedOnce
CHECK_DEADLOCK FALSE

SPECIFICATION FairSpec
CONSTANTS
    w1 = w1
    w2 = w2
    Workers = {w1, w2}
    LockKey <- OneProcess
    Tasks = {1, 2, 3, 4}
    DependsOn <- ForkDeps
    Plans <- ForkPlans
    Compensable = {1}
    MaxRetries = 2
    MaxWaves = 6
    WaveConcurrency = 2
    StartStates = {"requested", "approved"}
    MaxEvents = 1
    MaxCrashes = 0
    MaxCancels = 1
    MayRaise = FALSE
INVARIANT NoRunDownstreamOfFailure
PROPERTY ReachesTerminal
CHECK_DEADLOCK FALSE

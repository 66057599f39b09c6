SPECIFICATION Spec
CONSTANTS
    Turns = {t1}
    Resumes = {r1, r2}
    Plans <- MCPlans
    InitialWaves = 2
    FollowUps <- MCFollowUps
    MaxDepth = 1
    MaxWidth = 3
    Refusals = {"canned"}
INVARIANTS
    OneActionPerApproval
    StepsAfterDeps
    ExecutedIsComplete
PROPERTY EveryRequestEnds
CHECK_DEADLOCK FALSE

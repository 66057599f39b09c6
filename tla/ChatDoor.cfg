SPECIFICATION Spec
CONSTANTS
    NormalForm <- MCNormalForm
    Standalone <- MCStandalone
    Score <- MCScore
    Threshold = 97
    BucketMax = 1
    Requests = {"r1", "r2"}
    Inputs <- MCInputs
    Principals <- MCPrincipals
    Sids = {"s1", "bad id"}
    SafeSids = {"s1"}
    Minted = {"m1", "m2", "m3", "m4", "m5"}
    NoSid = "none"
    Outcomes <- MCOutcomes
    BadInputs = {""}
    FulfilActive = TRUE
    Mode = "local"
    MaxChurn = 1
INVARIANTS
    CachedReplyInScope
    StatefulReplyNeverReplayed
    ResumeStaysInSession
PROPERTY
    EveryRequestAnswered
CHECK_DEADLOCK FALSE

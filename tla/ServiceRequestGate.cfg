SPECIFICATION Spec
CONSTANTS
    c1 = c1
    c2 = c2
    u1 = u1
    u2 = u2
    u3 = u3
    Callers = {c1, c2}
    Key <- SharedKey
    NoKey = NoKey
    Users = {u1, u2, u3}
    Requester = u1
    PlanSize = 2
    Deciders = {d1, d2}
    GateEnabled = TRUE
    MaxDecisions = 2
    Nobody = Nobody
SYMMETRY Colleagues
INVARIANTS NoUnapprovedRun ReleasedOnce RunHasPlan
CHECK_DEADLOCK FALSE

SPECIFICATION StoreSpec
CONSTANTS
    w1 = w1
    w2 = w2
    Writers = {w1, w2}
    PerWriter = 2
    Readers = {r1}
    Backends = {"dragonfly", "postgres"}
    MaxWindow = 3
    LogCap = 3
    MayAge <- FirstQuestion
INVARIANTS
    AckedIsKept
    StoredBeforeShown
    ShownInOrder

SPECIFICATION FairSpec
CONSTANTS
    Caller = {a, b}
    Worker = {w1, w2, w3}
    Sizes = {1, 3}
    None = None
    MaxBatch = 2
    MaxLost = 1
    ThreadMayFail = TRUE
INVARIANTS PoolInv
PROPERTIES IsWorkBatches WaitsEnd
CHECK_DEADLOCK FALSE

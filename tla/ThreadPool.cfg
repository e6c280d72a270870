SPECIFICATION FairSpec
CONSTANTS
    Worker = {w1, w2}
    Work = {k1, k2, k3}
    Null = Null
    MayFail = TRUE
    Interruptible = FALSE
INVARIANTS
    WorkOwned
    NoSleeper
    CancelExact
PROPERTIES
    PoolEnds
CHECK_DEADLOCK FALSE

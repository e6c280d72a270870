SPECIFICATION Spec
CONSTANTS
    Worker = {w1}
    Work = {k1}
    Null = Null
    MayFail = FALSE
    Interruptible = FALSE
INVARIANTS
    WorkerValid
CHECK_DEADLOCK FALSE

SPECIFICATION FairSpec
CONSTANTS
    Task = {t1, t2, t3}
    NoTask = NoTask
    Interruptible = {t1, t2, t3}
    MayPanic = {t1}
INVARIANTS
    MutualExclusion
    NoLostWakeup
PROPERTIES
    AbstractSpec
    Woken

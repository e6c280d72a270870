SPECIFICATION MCSpec
CONSTANTS
    Modes = {"select", "join"}
    MayPanic = TRUE
    Reentry = {}
    MaxCalls = 3
    DefaultBudget = 2
    MaxGuards = 1
    Task = {t1, t2, t3}
    Null = Null
    Closed = Closed
    Thread = {h1, h2}
    Stack = {s1, s2, s3}
    None = None
    Spare = 1
    MaxFibers = 4
INVARIANTS
    BranchSafe
    BlockSafe
    OneOwner
    Reachable
    FiberSafe
PROPERTIES
    CompletionReturns
    ClosedForGood
CHECK_DEADLOCK FALSE

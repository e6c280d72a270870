SPECIFICATION MCSpec
CONSTANTS
    Worker = {w1, w2, w3}
    Main = Main
    Null = Null
    DebugAssertions = TRUE
    Guarding = {w1}
    MaxGuards = 1
    Task = {t1, t2, t3}
    NoTask = NoTask
INVARIANTS
    StackSafe
    SpawnExact
    CompletedOnce
    WaitListSound
PROPERTIES
    CallStackSpec
    JoinWaitsForEnd
    LoopRegainsControl
CHECK_DEADLOCK FALSE

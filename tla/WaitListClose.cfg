SPECIFICATION WaitListSpec
CONSTANTS
    Task = {t1, t2, t3}
    NoTask = NoTask
INVARIANTS
    CloseWakesEveryone

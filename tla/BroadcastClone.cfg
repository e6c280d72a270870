SPECIFICATION BroadcastSpec
CONSTANTS
    TxHandle = {s1}
    RxHandle = {r1, r2}
    Size = 2
    MaxSends = 1
INVARIANTS
    CloneAlive
CHECK_DEADLOCK FALSE

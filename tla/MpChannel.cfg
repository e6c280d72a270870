SPECIFICATION Spec
CONSTANTS
    Sender = {s1, s2}
    Receiver = {r1}
    NoTask = NoTask
    Size = 2
    MaxSends = 3
    Interruptible = {s2, r1}
    Watcher = {s2}
INVARIANTS
    QueueSafe
    Delivered
    NoStall
CHECK_DEADLOCK FALSE

SPECIFICATION Spec
CONSTANTS
    Sender = {s1}
    Receiver = {r1}
    NoTask = NoTask
    Size = 1
    MaxSends = 2
    Interruptible = {}
    Watcher = {}
INVARIANTS
    Bounded
CHECK_DEADLOCK FALSE

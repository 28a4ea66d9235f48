SPECIFICATION Spec
CONSTANTS
    Window = 2
    Priorities = {1}
    Lifetimes = {FALSE, TRUE}
    MaxReliable = 3
    MaxOrdered = 0
    MaxCopies = 1
    MaxPending = 2
    MaxInflight = 1
    MaxPackets = 2
    OrderedWindow = 1
INVARIANTS
    InflightAccounting
    NoDuplicateDelivery
    AckedIsTakenOver
CHECK_DEADLOCK FALSE

SPECIFICATION FairSpec
CONSTANTS
    Window = 4
    Priorities = {1}
    Lifetimes = {FALSE}
    MaxReliable = 0
    MaxOrdered = 3
    MaxCopies = 1
    MaxPending = 1
    MaxInflight = 2
    MaxPackets = 3
    OrderedWindow = 1
PROPERTIES
    OrderedEventuallyDelivered
CHECK_DEADLOCK FALSE

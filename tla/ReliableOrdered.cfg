SPECIFICATION FairSpec
CONSTANTS
    Window = 2
    Priorities = {0, 1}
    Lifetimes = {FALSE}
    MaxReliable = 0
    MaxOrdered = 2
    MaxCopies = 1
    MaxPending = 2
    MaxInflight = 2
    MaxPackets = 1
    OrderedWindow = 1
INVARIANTS
    OrderedDelivery
PROPERTIES
    ImplementsChannel
    
CHECK_DEADLOCK FALSE

SPECIFICATION FairSpec
CONSTANTS
    Peers = {p1, p2}
    Channels = {"Reliable", "Unreliable"}
    Lengths = {3, 4}
    FragmentBytes = 2
    SenderBytes = 4
    MessageBytes = 3
    MaxConcurrent = 1
    PeerBytes = 5
    ServerBytes = 5
    Timeout = 1
    MaxMessages = 2
    MaxSessions = 2
    p1 = p1
    p2 = p2
INVARIANTS
    MemoryAccounting
    

    
    
CHECK_DEADLOCK FALSE

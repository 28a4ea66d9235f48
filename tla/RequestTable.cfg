SPECIFICATION RequestFairSpec
CONSTANTS
    QueueLimit = 2
    MaxRequests = 3
    MaxSessions = 2

    
PROPERTIES
    SetOnce
    
CHECK_DEADLOCK FALSE

SPECIFICATION FairSpec
CONSTANTS
    Hosts = {h}
    Second = 2
    RateLimit = 1
    BanThreshold = 2
    BanTime = 3
    Factor = 1
    Slack = 2
    IdleTimeout = 2
    WindowIdle = 2
    MaxPending = 2
    RequestLen = 1
    ReplyLens = {1, 2}
    MaxReceived = 5
INVARIANTS HandshakeRate 
PROPERTIES BanHolds 

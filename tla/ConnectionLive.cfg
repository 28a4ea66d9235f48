SPECIFICATION FairSpec
CONSTANTS
    Addrs = {1}
    Resumption = FALSE
    MaxSessions = 1
    MaxPackets = 3
    Drops = FALSE
    Duplicates = FALSE
    Timers = TRUE
    Lossy = TRUE
    Calm = {FALSE, TRUE}
    Traffic = TRUE
    MaxNet = 4
    MaxAttempts = 1
    MaxTokens = 3
    MaxConns = 3
    MaxRestarts = 0
PROPERTIES
    NoRevival
    HandshakeCompletes
    EveryoneSettles
CHECK_DEADLOCK FALSE

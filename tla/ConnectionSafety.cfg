SPECIFICATION Spec
CONSTANTS
    Addrs = {a1, a2}
    Resumption = TRUE
    MaxSessions = 2
    MaxPackets = 1
    Drops = TRUE
    Duplicates = TRUE
    Timers = FALSE
    Lossy = TRUE
    Calm = {FALSE}
    Traffic = FALSE
    MaxNet = 2
    MaxAttempts = 2
    MaxTokens = 2
    MaxConns = 2
    MaxRestarts = 1
    a1 = a1
    a2 = a2
SYMMETRY Symmetry
INVARIANTS
    EstablishedIsConfirmed
    IndexAgrees
    KeyAgreement
    SessionsValidated
CHECK_DEADLOCK FALSE

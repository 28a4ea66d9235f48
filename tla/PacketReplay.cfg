SPECIFICATION Spec
CONSTANTS
    Window = 2
    MaxPending = 2
    MaxPackets = 5
INVARIANTS
    NonceUnique
    FreshIsHandled
PROPERTIES
    ImplementsLink
CHECK_DEADLOCK FALSE

SPECIFICATION FairSpec
CONSTANTS
    Sessions = {c, d}
    Client = c
    NoOwner = none
    Second = 2
    MaxPacketBytes = 2
    SendRate = 2
    Enabled = TRUE
    MinRate = 1
    InitialRate = 0
    MaxRate = 0
    Increase = 1
    LossPerMille = 500
    PressurePerMille = 850
    LossCooldown = 1
    PressureCooldown = 1
    MaxPending = 2
    Lengths = {1, 2}
    Priorities = {1}
    MaxPackets = 2
    MaxSince = 4
    Horizon = 3
INVARIANTS BudgetInBucket Paced
PROPERTIES OwnBudgetOnly 

SPECIFICATION AppFairSpec
CONSTANTS
    Services = {s1}
    Kinds = {"task", "stops", "throws"}
    Fails = TRUE
    MaxPosted = 2
    MaxTasks = 3
    s1 = s1
INVARIANTS
    CallbacksInOrder
    PolledIsAlive
PROPERTIES
    CallbacksRun
    StopReturns
CHECK_DEADLOCK FALSE

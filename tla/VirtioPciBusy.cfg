SPECIFICATION Spec
CONSTANTS
    Vcpus = {v1, v2}
    Devices = {d1, d2}
    NumQueues = 2
    CanReset = {d1}
    OthersKeepOff = FALSE
    QueuesInOrder = TRUE
INVARIANTS
    NoPanic
CHECK_DEADLOCK FALSE

SPECIFICATION Spec
CONSTANTS
    Clients = {"http"}
    Requests = {"create", "boot", "pause", "resume", "snapshot", "restore", "shutdown",
                "reboot", "delete", "vmm_shutdown", "info"}
    GuestActivates = FALSE
    FaultyClients = {"main", "http"}
    FaultyRequests = {"pause", "resume", "shutdown"}
    Vcpus = {v1, v2}
    Devices = {d1, d2}
    NumQueues = 2
    CanReset = {d1}
    OthersKeepOff = TRUE
    QueuesInOrder = TRUE
    MaxVcpus = 3
    BootVcpus = 2
    EjectsFromTop = TRUE
    MemBlocks = 2
    CountWidth = 2
    Sources = {s1}
    DmaFails = FALSE
    Pauses = TRUE
    Resets = 1
INVARIANTS
    LoopIsSound
    ActivationIsSound
    CpusFollowResize
PROPERTIES
    LoopAnswers
    ActivationReturns
    ResizeReturns
CHECK_DEADLOCK FALSE

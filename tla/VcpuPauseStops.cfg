SPECIFICATION FairSpec
CONSTANTS
    NVcpus = 2
    GuestUsesRegs = FALSE
    RunMayFail = FALSE
INVARIANT PauseStops
CHECK_DEADLOCK FALSE

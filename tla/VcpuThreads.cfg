SPECIFICATION FairSpec
CONSTANTS
    NVcpus = 2
    GuestUsesRegs = TRUE
    RunMayFail = TRUE
INVARIANTS
    CleanPauseStops
    NoLostUnpark
PROPERTIES
    PauseAndShutdownReturn
CHECK_DEADLOCK FALSE

SPECIFICATION FairSpec
CONSTANTS
    Workers = {w1, w2}
    HandlersMayFail = TRUE
INVARIANTS
    PausedIsQuiet
    NoLostWakeup
PROPERTIES
    PauseAndResetReturn
CHECK_DEADLOCK FALSE

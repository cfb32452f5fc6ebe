SPECIFICATION Spec
INVARIANTS
    
    MemoryIsSent
    
    InterruptsAreRouted
    SmallDevicesWork
    
CHECK_DEADLOCK FALSE

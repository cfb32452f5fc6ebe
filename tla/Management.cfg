SPECIFICATION Spec
INVARIANTS
    
    LifeGoesOn
    CommandsAreServed
    
    
CHECK_DEADLOCK FALSE

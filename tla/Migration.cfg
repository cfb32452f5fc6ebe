SPECIFICATION FairSpec
CONSTANTS
    Pages = {p1, p2}
    MaxDirtyMigrations = 2
    MaxWrites = 2
    MaxTries = 2
    LateFailure = FALSE

    
PROPERTIES
    ImplementsHandover
    BothSidesEnd
CHECK_DEADLOCK FALSE

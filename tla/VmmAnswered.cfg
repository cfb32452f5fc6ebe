SPECIFICATION FairSpec
CONSTANTS
    Clients = {"main", "http"}
    Requests = {"info"}
    GuestActivates = FALSE
    Faults = FALSE
PROPERTIES
    CommandAnswered
CHECK_DEADLOCK FALSE

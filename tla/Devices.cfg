SPECIFICATION Spec
CONSTANTS
    GuestKeys = {"g1", "g2"}
    HostKeys = {"h1"}
    KillQSize = 1
    MaxConns = 2
    MaxTime = 1
    MaxPackets = 3
    Segments = {0, 1}
    Slots = {0, 1}
    Names = {0, 1}
    Kinds = {"vfio", "user", "vdpa"}
    Regions = {1, 2}
    Areas = 1
    Faults = {}
    Retries = FALSE
    ByPciId = FALSE
    MaxRequests = 4
    Reboots = 1
    Restores = 0
    Devices = {d1, d2, d3}
    Wide = {d1, d2}
    Big = {d2, d3}
    Polite = TRUE
    MaxMoves = 7
INVARIANTS
    VsockServes
    HotplugIsSound
    VfioFollowsGuest
    VhostUserServes
    TerminalsServe
CHECK_DEADLOCK FALSE

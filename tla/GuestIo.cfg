SPECIFICATION Spec
CONSTANTS
    MaxChains = 2
    MaxFrames = 1
    Restores = 0
    MaxRequests = 3
    Kinds = {"Out", "Flush", "GetDeviceId"}
    FsyncFails = FALSE
    Types = {"bytes", "ops"}
    TimerRefill = 1
    Requests = {1, 7}
    MaxTime = 3
    Width = 4
    Endpoints = {e1, e2}
    External = {e1}
    Domains = {d1}
    IovaPages = {0, 1, 2}
    PageSizeMask = 2
    MaxSize = 2
    MapFails = FALSE
    IommuRestores = 0
    GuestPages = {p1, p2}
    BalloonSizes = {0, 1}
    Reporting = TRUE
    ReleaseFails = TRUE
INVARIANTS
    FramesAreServed
    WithinRate
    RequestsAreKept
    TranslationIsTrue
PROPERTIES
    UsedPageIsKept
CHECK_DEADLOCK FALSE

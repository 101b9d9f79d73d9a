SPECIFICATION Spec
CONSTANTS
    WordBits = 4
    GroupBits = 2
    NumWords = 4
    NumSuperWords = 2
    LowMemGroup = 4
    FirstFreeable = 4
    PageSize = 2
    AddrSpace = 64
    Slots = 2
    Garbage = Garbage
    Unmapped = Unmapped
    BootRegions <- HighMap
    HighFrames <- SomeHigh
    Requests <- SingleRequests
    Clients = {c1, c2, c3, c4, c5}
    SelfTest = FALSE
INVARIANT HeldExclusively
CHECK_DEADLOCK FALSE

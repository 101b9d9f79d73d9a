SPECIFICATION Spec
CONSTANTS
    WordBits = 4
    GroupBits = 2
    NumWords = 4
    NumSuperWords = 2
    LowMemGroup = 4
    FirstFreeable = 4
    PageSize = 2
    AddrSpace = 64
    Slots = 2
    Garbage = Garbage
    Unmapped = Unmapped
    BootRegions <- HighMap
    HighFrames <- SomeHigh
    Requests <- AllRequests
    Clients = {c1, c2, c3}
    SelfTest = FALSE
INVARIANT TypeOK HintsSound FreeFrameFound
CHECK_DEADLOCK FALSE

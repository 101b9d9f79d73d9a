SPECIFICATION Spec
CONSTANTS
    WordBits = 4
    GroupBits = 2
    NumWords = 4
    NumSuperWords = 2
    LowMemGroup = 4
    FirstFreeable = 4
    PageSize = 2
    AddrSpace = 64
    Slots = 2
    Garbage = Garbage
    Unmapped = Unmapped
    BootRegions <- LowMap
    HighFrames <- NoHigh
    Requests <- AlignedRequests
    Clients = {c1, c2, c3, c4}
    SelfTest = FALSE
CHECK_DEADLOCK FALSE
INVARIANTS HeldExclusively UsableAccounted NullFramesSet

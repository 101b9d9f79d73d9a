SPECIFICATION Spec
CONSTANTS
    Slots = 8
    NumTables = 7
    KernelTable = 2
    Frames <- FewFrames
    BootTable = 1
    PmmFrame = 2
    BigSize = 26
    VMallocBase = 1
    CmdlinePage = 8
    VaddmPage = 16
    VaddmSize = 2
    PmmPage = 19
    BrkBase = 24
    TestPage = 52
    PtrScale = 2
    Modules <- TwoModules
    Requests = {3}
    HeapSteps <- HeapCalls
    MaxBreaks = 3
    TlbPages = {3, 8, 29, 52}
INVARIANT FramesAccounted
CHECK_DEADLOCK FALSE

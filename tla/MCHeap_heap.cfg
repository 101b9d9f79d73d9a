CONSTANTS
    MajorSize = 3
    MinorSize = 3
    ALIGNMENT = 2
    ALIGN_INFO = 2
    l_pageSize = 16
    l_pageCount = 2
    HeapStart = 8
    HeapLimit = 120
    BrkScale = 4
    Hooks = "contract"
    Requests <- Sizes
    MaxBlocks = 3
SPECIFICATION FairSpec
INVARIANTS HeapSound BlocksApart
PROPERTIES NewMajorOnlyWhenFull EveryCallReturns ImplementsAllocator

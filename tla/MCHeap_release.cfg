CONSTANTS
    MajorSize = 3
    MinorSize = 3
    ALIGNMENT = 2
    ALIGN_INFO = 2
    l_pageSize = 16
    l_pageCount = 2
    HeapStart = 8
    HeapLimit = 1032
    BrkScale = 4
    Hooks = "psbrk"
    Requests <- Sizes
    MaxBlocks = 4
SPECIFICATION Spec
PROPERTY NewMajorApart

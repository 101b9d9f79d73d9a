CONSTANTS
    W = 3
    LowPages = 2
    KernelPage = 60
    Requests <- Several
    MaxRanges = 5
    Garbage <- Unwritten
SPECIFICATION FittingSpec
INVARIANTS AddressesHeldOnce FreePageFound

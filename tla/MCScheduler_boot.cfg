SPECIFICATION FairSpec
CONSTANTS
    idle = idle
    test = test
    kmain = kmain
    Boot = Boot
    POISON = POISON
    Procs <- MCProcs
    UserProcs <- MCUserProcs
    BootPlan <- BootAll
    Calls <- NoCalls
    BootCalls = 3
    WorkModulus = 3
    SpillHitsFlag = TRUE
CHECK_DEADLOCK FALSE
INVARIANTS NoForeignContext UserStacks StacksOwned
PROPERTY EveryProcessRuns

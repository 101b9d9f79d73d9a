SPECIFICATION Spec
CONSTANTS
    idle = idle
    test = test
    kmain = kmain
    Boot = Boot
    POISON = POISON
    Procs <- MCProcs
    UserProcs <- MCUserProcs
    BootPlan <- BootTwo
    Calls <- NoCalls
    BootCalls = 0
    WorkModulus = 3
    SpillHitsFlag = TRUE
INVARIANT NothingOverwritten
CHECK_DEADLOCK FALSE

SPECIFICATION Spec
CONSTANTS
    idle = idle
    test = test
    kmain = kmain
    Boot = Boot
    POISON = POISON
    Procs <- MCProcs
    UserProcs <- MCUserProcs
    BootPlan <- BootTwo
    Calls <- HeapCalls
    BootCalls = 0
    WorkModulus = 2
    SpillHitsFlag = TRUE
INVARIANT InterruptsReenabled
CHECK_DEADLOCK FALSE

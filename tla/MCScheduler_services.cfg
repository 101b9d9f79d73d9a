SPECIFICATION Spec
CONSTANTS
    idle = idle
    test = test
    kmain = kmain
    Boot = Boot
    POISON = POISON
    Procs <- MCProcs
    UserProcs <- MCUserProcs
    BootPlan <- BootTwo
    Calls <- AllCalls
    BootCalls = 1
    WorkModulus = 2
    SpillHitsFlag = FALSE
CHECK_DEADLOCK FALSE
INVARIANTS TypeOK RunList PidsUnique
PROPERTIES CriticalSectionsAtomic ImplementsRoundRobin

SPECIFICATION FairSpec
CONSTANTS
    Machines <- Answering
INVARIANT KeyboardReadyLate
CHECK_DEADLOCK FALSE

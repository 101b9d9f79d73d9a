SPECIFICATION FairSpec
CONSTANTS
    Machines <- Answering
CHECK_DEADLOCK FALSE
INVARIANT KeyboardUsable
PROPERTY InitEnds

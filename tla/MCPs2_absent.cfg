SPECIFICATION FairSpec
CONSTANTS
    Machines <- NoKeyboard

PROPERTY InitEnds
CHECK_DEADLOCK FALSE

SPECIFICATION Spec
CONSTANTS
    WordBits = 8
    VGA_WIDTH = 6
    VGA_HEIGHT = 4
    Byte = 16
    Below <- BelowBlank
    Fifo = 4
    Calls <- CallsAll
    MaxCalls = 2
    FaultCalls = 1
    Pids = {1, 2}
    Eip = 5
    Messages <- MessagesFault
    Registers <- RegistersFault
CHECK_DEADLOCK FALSE
INVARIANTS DisplayRight CursorTrue SerialComplete

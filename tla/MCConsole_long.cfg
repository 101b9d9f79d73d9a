SPECIFICATION Spec
CONSTANTS
    WordBits = 8
    VGA_WIDTH = 6
    VGA_HEIGHT = 4
    Byte = 16
    Below <- BelowBlank
    Fifo = 4
    Calls <- CallsLong
    MaxCalls = 1
    FaultCalls = 0
    Pids = {1, 2}
    Eip = 5
    Messages <- MessagesFault
    Registers <- RegistersFault
INVARIANT SerialComplete
CHECK_DEADLOCK FALSE

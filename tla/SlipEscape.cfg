SPECIFICATION Spec
CONSTANTS
    END = END
    ESC = ESC
    ESC_END = ESC_END
    ESC_ESC = ESC_ESC
    Plain = {A}
    Data = {END, ESC_END}
    MaxLen = 1
    Packets = 2
    BufLen = 2
    Capacity = 2
    Lossy = TRUE
INVARIANTS IntactReceived
CHECK_DEADLOCK FALSE

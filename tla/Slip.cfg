SPECIFICATION LiveSpec
CONSTANTS
    END = END
    ESC = ESC
    ESC_END = ESC_END
    ESC_ESC = ESC_ESC
    Plain = {A}
    Data = {END, ESC, ESC_END, A}
    MaxLen = 2
    Packets = 2
    BufLen = 2
    Capacity = 1
    Lossy = TRUE
INVARIANTS DeliveredAsSent IntactPlainReceived
PROPERTIES AllReceived
CHECK_DEADLOCK FALSE

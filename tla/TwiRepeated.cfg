SPECIFICATION LiveSpec
CONSTANTS
    Ctx = {a, b}
    NULL = NULL
    Addr = {0, 1, 2, 3}
    Present = {1}
    ScanFirst = 1
    ScanLast = 2
    Freq = {"100K"}
    LenMod = 8
    Lens = {1}
    StopFlags = {TRUE, FALSE}
    Garbage = {FALSE}
    Faults = {}
    Disciplined = FALSE
    MaxCalls = 3
PROPERTIES SyncReturns
CHECK_DEADLOCK FALSE

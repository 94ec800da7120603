SPECIFICATION LiveSpec
CONSTANTS
    Ctx = {a, b}
    NULL = NULL
    Addr = {0, 1, 2}
    Present = {1}
    ScanFirst = 1
    ScanLast = 2
    Freq = {"100K"}
    LenMod = 8
    Lens = {1, 3}
    StopFlags = {TRUE, FALSE}
    Garbage = {FALSE}
    Faults = {"nack", "arb_lost", "bus_error", "addressed"}
    Disciplined = TRUE
    MaxCalls = 3
INVARIANTS TypeOK ReportedAsHappened HeldOnPurpose FindsOnlyPresent
PROPERTIES LastByteNacked SyncReturnsUndisturbed
CHECK_DEADLOCK FALSE

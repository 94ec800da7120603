\* The transmit ring.
SPECIFICATION FairSpec
CONSTANTS
    Byte = {nl, cr}
    Zero = nl
    Newline = nl
    CarriageReturn = cr
    RingSize = 3
    SizeofBuffer = 5
    CharSize = 4
    MaxSize = 3
    WaitModes = {TRUE, FALSE}
    StdoutPoll = FALSE
    MixPolling = FALSE
    Reinit = FALSE
INVARIANTS RingSound PolledByteTaken NoneStranded
PROPERTIES ImplementsByteQueue BytesLeave

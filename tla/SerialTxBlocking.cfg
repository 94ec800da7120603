\* A send that blocks until everything is sent.
SPECIFICATION FairSpec
CONSTANTS
    Byte = {nl, cr}
    Zero = nl
    Newline = nl
    CarriageReturn = cr
    RingSize = 3
    SizeofBuffer = 5
    CharSize = 4
    MaxSize = 4
    WaitModes = {TRUE}
    StdoutPoll = TRUE
    MixPolling = FALSE
    Reinit = FALSE
PROPERTY
    BlockingSendReturns

\* The receive ring under every interleaving of the calls with the interrupt.
SPECIFICATION FairSpec
CONSTANTS
    Byte = {b0, b1}
    Zero = b0
    RingSize = 3
    UdrDepth = 2
    MaxSize = 3
    MixPolling = FALSE
INVARIANTS RingSound PollInOrder
PROPERTIES ImplementsByteQueue BlockingReadReturns

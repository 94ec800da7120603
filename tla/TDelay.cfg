SPECIFICATION LiveSpec
CONSTANTS
    Timer = {t1, t2}
    PortB = {t1, t2}
    Beepers = {t2}
    Base = 2
    Width = 2
    Durations = {2}
    Calls = {"tdelay_init", "beeper_init", "tdelay", "beeper_beep", "beeper_off", "beeper_block"}
    MaxCalls = 2
    MaxNest = 2
    Fast = {t1}
INVARIANTS WithinBounds MaskedIsStopped
PROPERTIES NotEarlyUnlessTorn RunningBlockReturns TonesEnd
CHECK_DEADLOCK FALSE

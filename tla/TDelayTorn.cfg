SPECIFICATION Spec
CONSTANTS
    Timer = {t1}
    PortB = {t1}
    Beepers = {}
    Base = 4
    Width = 2
    Durations = {0, 1, 4, 5}
    Calls = {"tdelay"}
    MaxCalls = 1
    MaxNest = 1
    Fast = {}
PROPERTIES NotEarly
CHECK_DEADLOCK FALSE

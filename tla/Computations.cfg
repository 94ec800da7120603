SPECIFICATION ComputationsSpec
CONSTANTS
    Implemented = {0, 1, 2}
    FCpu = 16000000
    BaudClock = 16000000
    Tones = {20, 30, 31, 50, 100, 220, 262, 440, 523, 880, 1000, 1047, 1953, 2000, 3906, 4000, 7812, 8000, 15625, 20000, 31250, 62500, 1000000}
    Delays = {0, 5, 20}
    Entries = {"tdelay_ms", "tdelay_us", "beeper_beep"}
    Resolutions = {1, 8, 10, 14, 15, 16}
    Speeds = {244, 245, 300, 488, 489, 600, 1200, 2400, 4800, 9600, 14400, 19200, 28800, 31250, 38400, 56000, 57600, 74880, 76800, 115200, 128000, 230400, 250000, 460800, 500000, 921600, 1000000, 2000000, 4000000, 5000000}
    CharSize = 8
    DataLens = {2, 3, 4, 5}
    Fill = {{}, {0}, {7}, {6, 7}, {0, 1, 3, 4, 6, 7}, {0, 1, 2, 3, 4, 5, 6, 7}}
    Varying = 3
    Places = {TRUE, FALSE}
    Damage = {{}, {0}, {0, 2, 4, 6}, {1, 2, 3, 4, 5, 6, 7}}
INVARIANTS TimerAsAsked PwmAsAsked BaudNearest VerdictRight
CHECK_DEADLOCK FALSE

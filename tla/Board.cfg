SPECIFICATION Spec
CONSTANTS
    Programs = {"text", "graphic", "thermometer"}
    Cells = 2
    Chars = {105}
    GpioTimes = {1, 5}
    Fast = {1}
    Lines = 2
    Font = 0
    MaxText = 2
    Answers = {165}
    Width = 3
    Banks = 2
    FontLength = 1
    Letters = {97}
    Patterns = {170}
    MaxCalls = 2
    Displays = 4
    Readings = {64, 226}
    CounterMod = 12
    Speeds = {0, 1, 2, 3, 4, 5, 6}
    Modes = {1, 2, 3}
    MaxResets = 1
INVARIANTS LinesSound NotWhileBusy TextShown DrawnAsCalled PeripheralsAsAsked
PROPERTIES NoGhosts SteadyShown NothingStalls
CHECK_DEADLOCK FALSE

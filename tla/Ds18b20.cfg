SPECIFICATION Spec
CONSTANTS
    PresenceDelay = {15, 50, 60}
    PresenceLength = {240}
    SampleAt = {15, 60}
    HoldFor = {15, 60}
    IsrTimes = {6}
    Power = 0
    Topology = 0
    Romcode = FALSE
    Th = 0
    Tl = 0
    Res = 3
    Forced = FALSE
    Temps = {401, 65374}
    Resolutions = {0, 3}
INVARIANTS SensorAsTold 
PROPERTIES HeardAsSent FollowsTemperature

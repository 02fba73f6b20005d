SPECIFICATION Spec
CONSTANTS
    Devices = {"a", "b"}
    MaxCaptures = 2
    MaxTurns = 2
    MaxStops = 1
    MaxFlight = 2
PROPERTY CloseConcludes
CHECK_DEADLOCK FALSE

SPECIFICATION Spec
CONSTANTS
    Devices = {"a", "b"}
    MaxCaptures = 2
    MaxTurns = 2
    MaxStops = 1
    MaxFlight = 3
INVARIANTS OneCaptureIsHeard CleanupMeansSilence StreamSurvives
PROPERTY RevokedIsNotConfirmed
CHECK_DEADLOCK FALSE

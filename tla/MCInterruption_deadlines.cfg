SPECIFICATION Spec
CONSTANTS
    Evidence = 2
    NoEvidence = 1
    Grace = 1
    MinSpeech = 1
    DuckTimeout = 1
    BufferMax = 1
    MaxGen = 1
    MaxTimers = 2
    Typed = FALSE
PROPERTY NothingWaitsForGood
CHECK_DEADLOCK FALSE

SPECIFICATION Spec
CONSTANTS
    Evidence = 1
    NoEvidence = 1
    Grace = 0
    MinSpeech = 1
    DuckTimeout = 1
    BufferMax = 1
    MaxGen = 2
    MaxTimers = 2
    Typed = FALSE
INVARIANTS SuspensionIsWatched RefusedIsDisposedOf
PROPERTY JudgedOnce
CHECK_DEADLOCK FALSE

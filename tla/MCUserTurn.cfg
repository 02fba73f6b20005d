SPECIFICATION TurnSpec
CONSTANTS
    Said <- MCSaid
    MaxGen = 3
    MaxSent = 2
    MaxQueue = 1
INVARIANTS SleepsForAReason
PROPERTIES DecidedForGood CommitIsWhole
CHECK_DEADLOCK FALSE

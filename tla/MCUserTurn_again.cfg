SPECIFICATION TurnSpec
CONSTANTS
    Said <- MCSaid
    MaxGen = 3
    MaxSent = 2
    MaxQueue = 1
INVARIANT EveryTurnIsCommittedOnce

CHECK_DEADLOCK FALSE

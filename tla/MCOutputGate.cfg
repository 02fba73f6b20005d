SPECIFICATION GateSpec
CONSTANTS
    MaxFrames = 3
    MaxGen = 4
    MaxDucks = 2
    Room = 1
INVARIANTS HeldBackIsHeard
PROPERTIES CancelledIsSilent PlayoutsFinish
CHECK_DEADLOCK FALSE

SPECIFICATION GateSpec
CONSTANTS
    MaxFrames = 3
    MaxGen = 4
    MaxDucks = 2
    Room = 1
INVARIANT FadingKeepsOrder
CHECK_DEADLOCK FALSE

SPECIFICATION Spec
CONSTANTS
    MaxTurns = 2
    MaxCalls = 3
    MaxTools = 1
INVARIANTS NoTurnIsStranded RepliesOnce
PROPERTY AbandonedTurnsStop
CHECK_DEADLOCK FALSE

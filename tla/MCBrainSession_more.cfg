\* What the code does not promise: take the invariants one at a time.
INIT Init
NEXT Next
CONSTANTS
    MaxTurns = 2
    MaxCalls = 2
    MaxTools = 1
INVARIANTS OneSpeculation NoTurnIsEverStranded EndedByOwnCall CancelledToolStops
CHECK_DEADLOCK FALSE

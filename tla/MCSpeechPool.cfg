SPECIFICATION FairSpec
CONSTANTS
    Conns = {1, 2, 3, 4}
    Streams = {s1, s2}
    Size = 1
    NoConn = NoConn
    MaxOutages = 1
    MaxLost = 1
INVARIANTS TurnsAreSeparate WaitersAreProvidedFor
PROPERTIES PoolKeepsToTarget EveryTurnDiscards
CHECK_DEADLOCK FALSE

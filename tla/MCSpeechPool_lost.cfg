SPECIFICATION Spec
CONSTANTS
    Conns = {1, 2, 3}
    Streams = {s1}
    Size = 1
    NoConn = NoConn
    MaxOutages = 0
    MaxLost = 1
INVARIANT NoneIsLost
CHECK_DEADLOCK FALSE

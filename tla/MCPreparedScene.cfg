SPECIFICATION FairSpec
CONSTANTS
    d1 = d1
    d2 = d2
    s1 = s1
    s2 = s2
    Devices = {d1, d2}
    Scenes = {s1}
    Endpoints <- MCEndpoints
    Teams = {s1}
    Idle = Idle
    NoScene = NoScene
    Closers = {s1, d1}
    MaxFaults = 2
    MaxCrashes = 1
INVARIANTS OnlyTheReservedServe AlwaysRecoverable ClosedIsProved ProducersGoFirst
PROPERTIES TeamCloseConverges
CHECK_DEADLOCK FALSE

SPECIFICATION Spec
CONSTANTS
    d1 = d1
    d2 = d2
    s1 = s1
    s2 = s2
    Devices = {d1, d2}
    Scenes = {s1, s2}
    Endpoints <- MCRivals
    Teams = {s1}
    Idle = Idle
    NoScene = NoScene
    Closers = {s1, s2}
    MaxFaults = 1
    MaxCrashes = 1
INVARIANTS OnlyTheReservedServe AlwaysRecoverable ClosedIsProved ProducersGoFirst
CHECK_DEADLOCK FALSE

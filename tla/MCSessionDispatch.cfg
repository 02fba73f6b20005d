SPECIFICATION FairSpec
CONSTANTS
    Conversations = {c1, c2}
    AnyOne = AnyOne
    NoOne = NoOne
    MaxDispatches = 2
    Faults = {"call", "read", "crash"}
    MaxFaults = 1
INVARIANTS OneDispatch
PROPERTIES WithdrawnWithStanding FreedUnlessServed

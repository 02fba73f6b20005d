SPECIFICATION Spec
CONSTANTS
    Conversations = {c1, c2}
    AnyOne = AnyOne
    NoOne = NoOne
    MaxDispatches = 2
    Faults = {}
    MaxFaults = 0
PROPERTY ReclaimIsDue

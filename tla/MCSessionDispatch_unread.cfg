SPECIFICATION FairSpec
CONSTANTS
    Conversations = {c1, c2}
    AnyOne = AnyOne
    NoOne = NoOne
    MaxDispatches = 1
    Faults = {"read"}
    MaxFaults = 1
PROPERTY FreedWhateverIsRead

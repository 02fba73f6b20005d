SPECIFICATION FairProviderSpec
CONSTANTS
    Devices = {d1}
    Generations <- MCGenerations
    OpIds = {o1}
    Manifests = {m1}
    Policies <- MCPolicies
    Handles = {h1}
    NoDecl = NoDecl
    NoHandle = NoHandle
    Idle = Idle
    NoWatch = NoWatch
    MaxCrashes = 1
INVARIANTS OneHeldPerDevice RevocationIsFinal PolicyNeverRegresses HeldChannelIsReachable
PROPERTIES ImplementsGrant NoOpeningWhileWithdrawn UsesLedger HeldIsHeard

SPECIFICATION Spec
CONSTANTS
    Devices = {d1}
    Generations <- MCOneGeneration
    OpIds = {o1}
    Manifests = {m1}
    Policies <- MCPolicies
    Handles = {h1}
    NoDecl = NoDecl
    NoHandle = NoHandle
INVARIANTS OneHeldPerDevice RevocationIsFinal PolicyNeverRegresses
PROPERTY ImplementsGrant

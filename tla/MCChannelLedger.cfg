SPECIFICATION Spec
CONSTANTS
    Devices = {d1, d2}
    Generations <- MCGenerations
    OpIds = {o1}
    Manifests = {m1}
    Policies <- MCOnePolicy
    Handles = {h1}
    NoDecl = NoDecl
    NoHandle = NoHandle
INVARIANTS OneHeldPerDevice RevocationIsFinal
PROPERTY ImplementsGrant

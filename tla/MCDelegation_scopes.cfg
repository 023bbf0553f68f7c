CONSTANTS
    a1 = a1
    a2 = a2
    a3 = a3
    read = read
    rotate = rotate
    Agent <- ThreeAgents
    Scope <- MCScope
    RegisteredScopes <- MCRegisteredScopes
    Role = {"reader", "rotator"}
    RoleScopes <- MCRoleScopes
    MaxDepth = 2
    GrantId = {g1, g2}
    DelegateRequest = {r1}
    RevokeRequest = {}
    RoleRequest = {o1, o2}
    Operated <- OperatedAgents
    Expirable <- NoGrants
    None = None
SYMMETRY ScopesSymmetry
SPECIFICATION Spec
INVARIANTS Attenuation NoAgentTwice
PROPERTY DisabledGainsNothing

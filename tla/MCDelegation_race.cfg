CONSTANTS
    a1 = a1
    a2 = a2
    a3 = a3
    read = read
    rotate = rotate
    Agent <- ThreeAgents
    Scope <- OneScope
    RegisteredScopes <- MCRegisteredScopes
    Role = {}
    RoleScopes <- MCRoleScopes
    MaxDepth = 2
    GrantId = {g1, g2}
    DelegateRequest = {r1}
    RevokeRequest = {r2}
    RoleRequest = {}
    Operated <- NoAgents
    Expirable <- NoGrants
    None = None
SPECIFICATION Spec
INVARIANT CascadeComplete

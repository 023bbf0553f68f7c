CONSTANTS
    analyst = analyst
    helper = helper
    alice = alice
    bob = bob
    read = read
    rotate = rotate
    legacy = legacy
    server = server
    tool = tool
    client1 = client1
    https = https
    http = http
    v1 = v1
    v2 = v2
    Agent <- MCAgent
    User <- MCUser
    Scope <- MCScope
    Known <- MCKnown
    TaskScoped <- MCTaskScoped
    AllowedScopes <- MCAllowedScopes
    KeyHolder <- MCKeyHolder
    KeyScopes <- MCKeyScopes
    ActivatedBy <- MCActivatedBy
    Server <- MCServer
    Tool <- MCTool
    Bound <- MCBound
    Reach <- MCReach
    Client <- MCClient
    Uri <- MCUri
    Https <- MCHttps
    RemoteHttp <- MCRemoteHttp
    Verifier <- MCVerifier
    AuthorizeRequest <- MCAuthorizeRequest
    GrantRequest <- MCGrantRequest
    Operated <- MCOperated
    Grant = {g1}
    Jti = {j1, j2}
    Code = {c1}
    Request = {r1, r2}
    None = None
SYMMETRY Symmetry
SPECIFICATION Spec
INVARIANTS TypeOK HumanAnchored TaskScopedRoots
PROPERTIES ImplementsOneTimeCode StaleConsentBounded

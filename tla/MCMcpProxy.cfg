CONSTANTS
    web = web
    mail = mail
    fetch = fetch
    send = send
    Call = {c1, c2, c3}
    Trace = {t1}
    Server <- MCServer
    Tool <- MCTool
    Binding <- MCBinding
    Token <- MCToken
    BlockedTool <- NoTools
    Threshold = 2
    Cooldown = 1
    None = None
SYMMETRY Symmetry
SPECIFICATION Spec
INVARIANTS TypeOK NoRiskAfterExposure Recorded TrippedByFailures
CHECK_DEADLOCK FALSE

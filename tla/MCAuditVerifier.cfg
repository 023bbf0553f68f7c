CONSTANTS
    o1 = o1
    o2 = o2
    Org <- TwoOrgs
    LockKey <- MCLockKey
    Content = {c1, c2}
    Unhashed = {u1}
    Writer = {w1}
    MaxEntries = 2
    Process = {p1, p2}
    Limit = 2
    None = None
SPECIFICATION VerifierFairSpec
INVARIANTS TamperDetected NoFalseAlert
PROPERTY TamperReported
CHECK_DEADLOCK FALSE

CONSTANTS
    o1 = o1
    o2 = o2
    o3 = o3
    Org <- MCOrg
    LockKey <- MCLockKey
    Content = {c1, c2}
    Unhashed = {u}
    Writer = {w1, w2}
    MaxEntries = 2
    None = None
SPECIFICATION FairSpec
INVARIANTS TypeOK ChainIntact Contiguous TipIsCurrent
PROPERTIES ImplementsLedger AppendFinishes
CHECK_DEADLOCK FALSE

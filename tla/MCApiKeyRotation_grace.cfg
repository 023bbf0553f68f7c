CONSTANTS
    Key = {k1, k2, k3}
    Request = {r1}
    Worker = {w1}
    DefaultTtl = 5
    Ttl = {5}
    Grace = {1}
    WorkerGrace = 1
    MaxTime = 6
    None = None
SPECIFICATION Spec
INVARIANT BothKeysWork
CHECK_DEADLOCK FALSE

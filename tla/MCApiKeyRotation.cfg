CONSTANTS
    Key = {k1, k2, k3}
    Request = {r1, r2}
    Worker = {w1, w2}
    DefaultTtl = 5
    Ttl <- ShortAndDefault
    Grace = {2}
    WorkerGrace = 1
    MaxTime = 6
    None = None
SYMMETRY Symmetry
SPECIFICATION Spec
INVARIANTS GraceHonoured RotatedBeforeExpiry OldSecretBounded OneSuccessor
CHECK_DEADLOCK FALSE

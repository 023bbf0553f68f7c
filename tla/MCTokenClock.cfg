CONSTANTS
    Jti = {j1, j2, d1}
    Delegated = {d1}
    Hz = 3
    Lifetime = 2
    MaxTick = 15
    None = None
SPECIFICATION Spec
INVARIANTS HeldUntilLastSecond SweptHeldUntilExp
CHECK_DEADLOCK FALSE

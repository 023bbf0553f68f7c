CONSTANTS
    Agent = {a1}
    Ephemeral = {a1}
    Key = {k1, k2}
    Jti = {j1}
    Request = {r1, r2}
    Overlap = 2
    Operation <- AllOperations
    Reaper = Reaper
    None = None
SYMMETRY Symmetry
SPECIFICATION Spec
INVARIANTS TypeOK IndexComplete RevokedKeyDead DecommissionedDead
PROPERTIES SuspendCutsOff DecommissionIsFinal EscapeIsBounded
CHECK_DEADLOCK FALSE

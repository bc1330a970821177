CONSTANTS
    Foreign = {f1}
    Saved = {k1, k2}
    Short = {}
    Size <- Sizes
    Calls = {c1, c2}
    MaxSessions = 1
    None = None
SPECIFICATION Spec
CHECK_DEADLOCK FALSE
INVARIANT
    ConflictIsReal

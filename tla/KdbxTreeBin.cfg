CONSTANTS
    Groups = {root, g1, g2}
    Entries = {e1}
    Root = root
    None = None
    MayHoldBin = TRUE
SPECIFICATION Spec
CHECK_DEADLOCK FALSE
INVARIANT
    NothingLost

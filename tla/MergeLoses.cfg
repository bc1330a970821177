CONSTANTS
    Sites = {s1, s2}
    Groups = {root, a, b}
    Entries = {x, y}
    Root = root
    First = {a, b, x}
    HistoryMax = 1
    MaxTicks = 3
    None = None
SPECIFICATION Spec
CHECK_DEADLOCK FALSE
PROPERTY
    MergeKeepsAll

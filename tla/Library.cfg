CONSTANTS
    Groups = {root, g1, g2, g3}
    Entries = {e1, e2}
    Root = root
    None = None
    MayHoldBin = FALSE
    Twins = {s1, s2}
    ReplicaGroups = {root, a, b}
    ReplicaEntries = {x, y}
    FirstObjects = {a, x}
    Values = {0, 1}
    Keys = {"k1"}
    Foreign = {"x"}
    Doc = "doc"
    Ours <- OurVaults
    Theirs <- TheirVaults
    Domain <- Domains
    HistoryMax = 1
    MaxTicks = 3
    MaxClock = 4
    MaxDepth = 2
    MaxSteps = 3
    MaxEntries = 3
    MaxApplies = 2
SPECIFICATION LibrarySpec
CHECK_DEADLOCK FALSE
SYMMETRY Symmetric
INVARIANTS
    TypesOK
    NothingLost
    TombstonesDead
    SettingsKept
    LinksFollowed
PROPERTIES
    AgreedStays
    
    FieldsInHistory
    CombineKeeps

CONSTANTS
    Foreign = {f1, f2}
    Saved = {k1, k2}
    Short = {f2}
    Size <- Sizes
    Calls = {c1, c2}
    MaxSessions = 2
    Requests = {r1, r2}
    Tabs = {t1, t2}
    First = First
    MaxFaults = 2
    None = None
SPECIFICATION BridgesSpec
CHECK_DEADLOCK FALSE
INVARIANTS
    TypesOK
    LoneReadWhole
    SaveKeepsOthers
    OwnAnswer
    CeremoniesSaved
PROPERTIES
    RequestsEnd
    ImplementsVaultFile
    CallsSettle

CONSTANTS
    Names = {n1, n2}
    Handlers = {h1, h2}
    Twins = {t1, t2}
    Other = {o1}
    Gen = Gen
    Old = Old
    None = None
    Tabs = {t}
    Pages = {"a", "hidden", "misled", "local"}
    Content <- SomeContent
    Entries = {"e1", "e2"}
    Facts <- SomeFacts
    MaxLoads = 2
    MaxPicks = 1
    Calls = {"c1", "c2"}
    ContextOf <- SomeContextOf
    Secrets = {"p1", "p2"}
    Threshold = 3
    Delay = 2
    MaxSessions = 2
    MaxSwitches = 1
    MaxSubmits = 2
    MaxTokens = 2
    MaxRestarts = 1
    MaxTime = 5
    MaxUpdates = 2
    MaxActs = 4
    MaxChecks = 2
SPECIFICATION BackgroundSpec
CHECK_DEADLOCK FALSE
SYMMETRY Symmetric
INVARIANTS
    TypesOK
    FilesApart
    ReportedInFileUnlessRaced
    CapturesReviewed
    FilledRightly
    DriveReachable
    LockTold
    SecretsLeave

CONSTANTS
    HfPage = 3
    KagglePage = 2
    FilesPage = 2
    FirstFiles = 1
    Cap = 4
    Sizes = {1, 2, 4}
    Spaces = {2}
    MaxItems = 5
    MaxPage = 4
    MaxChanges = 1
    Requests = {r1, r2}
    Workers = 1
    MaxFiles = 2
    NoThread = None
    MaxFailures = 3
    Clients = {c1, c2}
    Calls = 2
    Period = 1
    Every = 3
    MaxClients = 1
    Horizon = 4
    MaxPassed = 5
SPECIFICATION MCSpec
INVARIANTS
    MarketTypes
    PageExact
    WalkComplete
    TempDirs
    BuiltOnce
    Throttled
PROPERTIES
    ListingsEnd
    CallsAnswered
CHECK_DEADLOCK FALSE

CONSTANTS
    r1 = r1
    r2 = r2
    r3 = r3
    Absent = Absent
    Requests = {r1, r2, r3}
    Workloads <- ThreeWorkloads
    Keys <- FlatKeys
    Position <- FlatPosition
    Initial <- FlatInitial
    Contents = {"n1", "x1", "y1", "z1"}
    PageSize = 1
    BatchSize = 2
    MaxParallel = 2
    MaxFaults = 1
SPECIFICATION FairSpec
INVARIANTS
    TypeOK
    NothingLost
    CopiesBeforeDeletes
    NothingOverlooked
PROPERTIES
    StaysInScope
    Settles

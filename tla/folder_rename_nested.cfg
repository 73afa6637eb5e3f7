CONSTANTS
    r1 = r1
    r2 = r2
    r3 = r3
    Absent = Absent
    Requests = {r1}
    Workloads <- NestedWorkloads
    Keys <- NestedKeys
    Position <- NestedPosition
    Initial <- NestedInitial
    Contents = {"n1", "x1", "y1", "z1"}
    PageSize = 1
    BatchSize = 2
    MaxParallel = 10
    MaxFaults = 0
SPECIFICATION Spec
INVARIANTS
    RenameMoves

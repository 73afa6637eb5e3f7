CONSTANTS
    api = api
    small = small
    path = path
    copy = copy
    k1 = k1
    NoUpload = NoUpload
    Uploads <- AllUploads
    Keys = {k1}
    KeyOf <- OneKey
    Size <- Sizes
    Tracked = {api, small}
    Threshold = 5
    ChunkSize = 10
    MaxConcurrent = 3
    MaxFaults = 3
SPECIFICATION SceneSpec
INVARIANTS
    TypeOK
    ObjectsWhole
    PartsReceived
    BoundedConcurrency
    NoStrayTasks
    OpenHasOwner
    TrackerTruth
    ProgressWithinTotal
PROPERTIES
    ImplementsAtomicUpload
    Terminates

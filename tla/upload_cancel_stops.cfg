CONSTANTS
    api = api
    k1 = k1
    NoUpload = NoUpload
    Uploads <- OneUpload
    Keys = {k1}
    KeyOf <- OneKeyOf
    Size <- OneSize
    Tracked = {api}
    Threshold = 5
    ChunkSize = 10
    MaxConcurrent = 2
    MaxFaults = 0
SPECIFICATION Spec
INVARIANT CancelStops

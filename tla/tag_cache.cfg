CONSTANTS
    huggingface = huggingface
    kaggle = kaggle
    caller = caller
    reader = reader
    Markets <- TwoMarkets
    Groups = {"library"}
    Forcers = {caller}
    Readers = {reader}
    Interval = 4
    Buffer = 3
    CacheTimeout = 4
    MaxFetch = 1
    MaxRequests = 2
SPECIFICATION FairSpec
INVARIANTS
    TypeOK
    KeptWarm
    StalenessBounded
PROPERTIES
    WarmsForEver

CONSTANTS
    huggingface = huggingface
    kaggle = kaggle
    caller = caller
    reader = reader
    Markets <- TwoMarkets
    Groups = {"library"}
    Forcers = {caller}
    Readers = {}
    Interval = 4
    Buffer = 3
    CacheTimeout = 4
    MaxFetch = 1
    MaxRequests = 2
SPECIFICATION Spec
PROPERTIES
    ForceRefreshes

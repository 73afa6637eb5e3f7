CONSTANTS
    Requests = {r1, r2}
    Services = {s1, s2}
    NoService = None
    MaxRetries = 2
    Readers = {r1}
    Objects = {1, 2, 3, 4}
    Folders <- OneFolder
    PageSize = 2
    MaxWrites = 1
SPECIFICATION MCSpec
INVARIANTS
    ServiceTypes
    ServingClient
    Released
    AvailabilityTold
    AnswersHonest
    CountedOnce
    TreeComplete
    EmptiesWhatStayed
CHECK_DEADLOCK FALSE
PROPERTIES
    StartsAndAnswers
    CallsEnd

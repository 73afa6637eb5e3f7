CONSTANTS
    Requests = {r1, r2}
    Services = {s1, s2}
    NoService = None
    MaxRetries = 2
SPECIFICATION Spec
CHECK_DEADLOCK FALSE
PROPERTIES
    Reconnects

SPECIFICATION Spec
CONSTANTS
    NumUrls = 2
    InitRetry = 1
    MaxRetry = 4
    MaxWorkqueue = 2
    Request = {r1, r2}
    MaxEvents = 1
PROPERTIES
    Answered
CHECK_DEADLOCK FALSE

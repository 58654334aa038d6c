\* The backend as it is: a completed ride is no active ride.
CONSTANTS
    Rider = u
    Profiles = {d}
    Codes = {c}
    MaxRides = 1
    Slots = {s1, s2}
    MaxMishaps = 0
    CompletedReported = FALSE
    NULL = NULL
SPECIFICATION FairSpec
PROPERTY CompletionIsShown
CHECK_DEADLOCK FALSE

\* Two rides one after the other, two requests in flight, one mishap.
CONSTANTS
    Rider = u
    Profiles = {d}
    Codes = {c}
    MaxRides = 2
    Slots = {s1, s2}
    MaxMishaps = 1
    CompletedReported = TRUE
    NULL = NULL
SPECIFICATION FairSpec
INVARIANTS TypeOK ScreenMatchesRide OneRideAtATime
PROPERTIES ImplementsView KeptWhileOpen ScreenCatchesUp
CHECK_DEADLOCK FALSE

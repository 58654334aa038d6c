\* Two rides, another driver after them, two requests in flight, one mishap.
CONSTANTS
    Me = d
    Other = e
    Rider = u
    Codes = {c}
    MaxRides = 2
    Slots = {s1, s2}
    MaxMishaps = 1
    NULL = NULL
SPECIFICATION FairSpec
INVARIANTS TypeOK PanelHasRide
PROPERTIES ImplementsView KeptWhileOpen ScreenCatchesUp
CHECK_DEADLOCK FALSE

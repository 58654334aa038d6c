SPECIFICATION FairSpec
CONSTANTS
    u1 = u1
    d1 = d1
    d2 = d2
    p1 = p1
    p2 = p2
    h1 = h1
    h2 = h2
    NULL = NULL
    Riders = {u1}
    Drivers = {d1}
    Profiles = {d1}
    Account <- SharedIds
    Rides = {r1, r2}
    Codes = {c1}
    Handlers = {h1, h2}
    Serves <- ReadPumps
    UniqueIndexes = FALSE
    Faults = {}
INVARIANTS DriverExclusive WaitingRideIndexed
PROPERTIES RequestsReturn RiderIsTold

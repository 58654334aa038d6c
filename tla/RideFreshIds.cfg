SPECIFICATION Spec
CONSTANTS
    u1 = u1
    d1 = d1
    d2 = d2
    p1 = p1
    p2 = p2
    h1 = h1
    h2 = h2
    NULL = NULL
    Riders = {u1}
    Drivers = {d1, d2}
    Profiles = {p1, p2}
    Account <- FreshIds
    Rides = {r1}
    Codes = {c1}
    Handlers = {h1, h2}
    Serves <- AnyUser
    UniqueIndexes = FALSE
    Faults = {}
INVARIANTS AssignedDriverMayStart

SPECIFICATION FairSpec
CONSTANTS
    u1 = u1
    c1 = c1
    c2 = c2
    c3 = c3
    m1 = m1
    m2 = m2
    NULL = NULL
    Users = {u1}
    Conns = {c1, c2, c3}
    UserOf <- AllOfOne
    Leaving = {c1}
    Messages = {m1, m2}
    After <- Serial
    Recovered = {}
    Buffer = 1
INVARIANTS TypeOK MapsAgree CalmBroadcastIsExact SerialOrder
PROPERTIES ConnectionEnds BufferedIsWritten
CHECK_DEADLOCK FALSE

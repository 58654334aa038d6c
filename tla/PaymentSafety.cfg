SPECIFICATION Spec
CONSTANTS
    u1 = u1
    u2 = u2
    r1 = r1
    r2 = r2
    NULL = NULL
    Riders = {u1, u2}
    Rides = {r1, r2}
    Owner <- OneRideEach
    Payments = {p1, p2}
    Handlers = {h1, h2}
    SecretSet = TRUE
    Calls = {"cash", "upi", "valid", "invalid"}
    Faults = {"db", "crash"}
SYMMETRY Symmetry
INVARIANTS TypeOK PaidWasCaptured CapturedIsProven ConfirmedIsPaid

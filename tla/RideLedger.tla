----------------------------- MODULE RideLedger -----------------------------
(***************************************************************************)
(* What the ride service promises about the rides table, with every        *)
(* operation a single atomic step: a ride is requested, assigned once to   *)
(* one drivers row together with its OTP, started, completed, or           *)
(* cancelled.  No handlers, locks, caches or notifications appear here;    *)
(* RideService implements this module (see RideServiceProofs).             *)
(*                                                                         *)
(* A cancellation may hit a ride in any state: CancelRide checks the       *)
(* status in one statement and writes it in another, so the code promises  *)
(* no more than this.                                                      *)
(***************************************************************************)
EXTENDS FiniteSets

CONSTANTS
    Riders,         \* users.id of the accounts that request rides
    Profiles,       \* drivers.id, what rides.driver_id references
    Rides,          \* rides.id
    Codes,          \* the ride verification codes, 1000..9999 in the code
    UniqueIndexes,  \* TRUE iff the partial indexes of 004_payments.sql exist
    NULL

VARIABLE ride       \* the committed rows of the rides table

-----------------------------------------------------------------------------
Statuses ==
    {"none", "requested", "accepted", "driver_arrived", "in_progress",
     "completed", "cancelled"}

\* The statuses in which a ride occupies its driver.
DriverActive == {"accepted", "driver_arrived", "in_progress"}

\* The statuses in which a ride is its rider's current one.
RiderActive == DriverActive \cup {"requested"}

\* A row, or the absence of one: status "none".
Row == [status : Statuses,
        owner  : Riders \cup {NULL},
        driver : Profiles \cup {NULL},
        otp    : Codes \cup {NULL}]

NoRow == [status |-> "none", owner |-> NULL, driver |-> NULL, otp |-> NULL]

ActiveOf(p) == {r \in Rides : ride[r].driver = p /\ ride[r].status \in DriverActive}

Current(u) == {r \in Rides : ride[r].owner = u /\ ride[r].status \in RiderActive}

\* A unique index refuses the write that would make a second matching row.
DriverIndexAllows(p) == UniqueIndexes => ActiveOf(p) = {}
RiderIndexAllows(u) == UniqueIndexes => Current(u) = {}

-----------------------------------------------------------------------------
Request(u, r) ==
    /\ ride[r].status = "none"
    /\ RiderIndexAllows(u)
    /\ ride' = [ride EXCEPT ![r] = [NoRow EXCEPT !.status = "requested", !.owner = u]]

Assign(r, p, c) ==
    /\ ride[r].status = "requested"
    /\ DriverIndexAllows(p)
    /\ ride' = [ride EXCEPT ![r] = [@ EXCEPT !.status = "accepted", !.driver = p, !.otp = c]]

Start(r) ==
    /\ ride[r].status \in {"accepted", "driver_arrived"}
    /\ ride' = [ride EXCEPT ![r].status = "in_progress"]

Complete(r) ==
    /\ ride[r].status = "in_progress"
    /\ ride' = [ride EXCEPT ![r].status = "completed"]

Cancel(r) ==
    /\ ride[r].status # "none"
    /\ ride' = [ride EXCEPT ![r].status = "cancelled"]

-----------------------------------------------------------------------------
Init == ride = [r \in Rides |-> NoRow]

Next == \E r \in Rides :
    \/ \E u \in Riders : Request(u, r)
    \/ \E p \in Profiles, c \in Codes : Assign(r, p, c)
    \/ Start(r)
    \/ Complete(r)
    \/ Cancel(r)

Spec == Init /\ [][Next]_ride
=============================================================================

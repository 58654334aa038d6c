------------------------------ MODULE UserHome ------------------------------
(***************************************************************************)
(* The rider's page (src/frontend/src/pages/UserHome.jsx) over the rides   *)
(* table: what it shows, what it offers, and its requests in flight.       *)
(*                                                                         *)
(* The page polls GET /rides/active every four seconds and on mount, and   *)
(* never cancels a request: an answer is applied whenever it arrives,      *)
(* whatever the rider has done since.  A request is served by the backend  *)
(* at one moment and answered at a later one, so answers overtake each     *)
(* other.  The driver's side moves the table through RideLedger's actions. *)
(*                                                                         *)
(* Where the places are is the subject of Places; here a pickup or a       *)
(* dropoff is set or not.  The session is the subject of Session; here the *)
(* rider is logged in.                                                     *)
(***************************************************************************)
EXTENDS Integers, FiniteSets

CONSTANTS
    Rider,              \* the account of this page
    Profiles, Codes,    \* as in RideLedger
    MaxRides,           \* bound: ride ids 1..MaxRides, given out in order
    Slots,              \* bound: requests of the page in flight
    MaxMishaps,         \* bound: lost answers, reloads and late timers
    CompletedReported,  \* whether GET /rides/active may return a completed
                        \* ride, as the page expects; the query does not
    NULL

VARIABLES
    ride,           \* the rides table
    step,           \* the panel that is shown
    activeRide,     \* the copy of a row the panel is about, or NULL
    pickup,         \* pickupLocation is set
    dropoff,        \* dropoffLocation is set
    vehicle,        \* selectedVehicle is set
    loading,        \* disables the Book button
    timer,          \* the 300 ms timer of handleDropoffSelect is running
    calls,          \* slot -> the request in it, or NULL
    mishaps         \* how many of the bounded mishaps have happened

vars == <<ride, step, activeRide, pickup, dropoff, vehicle, loading, timer, calls, mishaps>>
form == <<pickup, dropoff, vehicle, loading>>

Rides == 1..MaxRides

View == INSTANCE RideView WITH
    Riders <- {Rider}, UniqueIndexes <- FALSE, seen <- activeRide

-----------------------------------------------------------------------------
Steps == {"LOCATION_INPUT", "ROUTE_PREVIEW", "SEARCHING_DRIVER",
          "DRIVER_ASSIGNED", "RIDE_IN_PROGRESS", "RIDE_COMPLETE"}

\* The step that an answer of GET /rides/active leads to.
StepOf(status) ==
    CASE status = "requested"                        -> "SEARCHING_DRIVER"
      [] status \in {"accepted", "driver_arrived"}   -> "DRIVER_ASSIGNED"
      [] status = "in_progress"                      -> "RIDE_IN_PROGRESS"
      [] status = "completed"                        -> "RIDE_COMPLETE"

\* "approach" is the driver's route that a poll awaits, "order" the payment
\* order that a booking awaits, "cash" the payment that a rating awaits.
Ops == {"poll", "approach", "create", "order", "cancel", "rate", "cash"}

\* "orphan": the page that sent the request is gone, the request is not.
Call == [op     : Ops,
         id     : Rides \cup {NULL},
         result : {"pending", "orphan", "ok", "failed"},
         copy   : View!Copy \cup {NULL}]

Request(op, id) == [op |-> op, id |-> id, result |-> "pending", copy |-> NULL]

ASSUME BoundAssumption == MaxRides \in Nat /\ MaxMishaps \in Nat

\* NULL is none of the values it stands beside.
ASSUME NullAssumption == NULL \notin Profiles \cup Rides \cup View!Copy \cup Call

Free == {s \in Slots : calls[s] = NULL}
Waiting == View!Current(Rider)
Done == {r \in Rides : ride[r].owner = Rider /\ ride[r].status = "completed"}
Unused == {r \in Rides : ride[r].status = "none"}
Newest(R) == {r \in R : \A q \in R : q <= r}
Oldest(R) == {r \in R : \A q \in R : r <= q}

Send(op, id) == \E s \in Free : calls' = [calls EXCEPT ![s] = Request(op, id)]

-----------------------------------------------------------------------------
\* The panels, and what a rider may do in each.

LocationPanel == step = "LOCATION_INPUT"
PreviewPanel == step = "ROUTE_PREVIEW"
SearchingPanel == step = "SEARCHING_DRIVER"
AssignedPanel == step = "DRIVER_ASSIGNED" /\ activeRide # NULL
CompletePanel == step = "RIDE_COMPLETE"

GetCurrentPosition ==
    /\ ~pickup
    /\ pickup' = TRUE
    /\ UNCHANGED <<ride, step, activeRide, dropoff, vehicle, loading, timer, calls, mishaps>>

HandleDropoffSelect ==
    /\ LocationPanel
    /\ dropoff' = TRUE
    /\ timer' = (timer \/ pickup)
    /\ UNCHANGED <<ride, step, activeRide, pickup, vehicle, loading, calls, mishaps>>

\* setStep runs when the timer fires, whatever the step is by then.  Firing
\* after an answer has put a ride on the screen is one of the mishaps.
TimerFires ==
    /\ timer
    /\ timer' = FALSE
    /\ step' = "ROUTE_PREVIEW"
    /\ IF activeRide = NULL THEN UNCHANGED mishaps
       ELSE mishaps < MaxMishaps /\ mishaps' = mishaps + 1
    /\ UNCHANGED <<ride, activeRide, form, calls>>

Back ==
    /\ PreviewPanel
    /\ step' = "LOCATION_INPUT"
    /\ vehicle' = FALSE
    /\ UNCHANGED <<ride, activeRide, pickup, dropoff, loading, timer, calls, mishaps>>

SelectVehicle ==
    /\ PreviewPanel
    /\ vehicle' = TRUE
    /\ UNCHANGED <<ride, step, activeRide, pickup, dropoff, loading, timer, calls, mishaps>>

\* Mutant: Book is not disabled while a booking is being sent.
HandleRequestRideAnytime ==
    /\ PreviewPanel
    /\ pickup /\ dropoff /\ vehicle
    /\ Send("create", NULL)
    /\ loading' = TRUE
    /\ UNCHANGED <<ride, step, activeRide, pickup, dropoff, vehicle, timer, mishaps>>

HandleRequestRide ==
    /\ PreviewPanel
    /\ pickup /\ dropoff /\ vehicle /\ ~loading
    /\ Send("create", NULL)
    /\ loading' = TRUE
    /\ UNCHANGED <<ride, step, activeRide, pickup, dropoff, vehicle, timer, mishaps>>

HandleCancelRide ==
    /\ SearchingPanel \/ AssignedPanel
    /\ activeRide # NULL
    /\ Send("cancel", activeRide.id)
    /\ UNCHANGED <<ride, step, activeRide, form, timer, mishaps>>

SubmitRating ==
    /\ CompletePanel
    /\ activeRide # NULL
    /\ Send("rate", activeRide.id)
    /\ UNCHANGED <<ride, step, activeRide, form, timer, mishaps>>

\* Mutant: the panel stays.
ResetFlowKeepsStep ==
    /\ activeRide' = NULL
    /\ vehicle' = FALSE
    /\ dropoff' = FALSE
    /\ UNCHANGED step

ResetFlow ==
    /\ activeRide' = NULL
    /\ step' = "LOCATION_INPUT"
    /\ vehicle' = FALSE
    /\ dropoff' = FALSE

Skip ==
    /\ CompletePanel
    /\ ResetFlow
    /\ UNCHANGED <<ride, pickup, loading, timer, calls, mishaps>>

\* Mutant: a page with a ride polls no more.
FetchActiveUntilFound ==
    /\ activeRide = NULL
    /\ Send("poll", NULL)
    /\ UNCHANGED <<ride, step, activeRide, form, timer, mishaps>>

FetchActive ==
    /\ Send("poll", NULL)
    /\ UNCHANGED <<ride, step, activeRide, form, timer, mishaps>>

-----------------------------------------------------------------------------
\* The backend, each request one step (RideService splits them).

\* The page gets the answer in slot s; an orphan's answer goes nowhere.
Answer(s, result, copy) ==
    calls' = [calls EXCEPT ![s] =
        IF @.result = "orphan" THEN NULL
        ELSE [@ EXCEPT !.result = result, !.copy = copy]]

\* Mutant: no active ride is answered with 200 and no ride.
ServePollEmpty(s) ==
    /\ calls[s].op = "poll"
    /\ \/ \E r \in Newest(Waiting) : Answer(s, "ok", View!CopyOf(r))
       \/ Waiting = {} /\ Answer(s, "ok", NULL)
    /\ UNCHANGED ride

ServePoll(s) ==
    /\ calls[s].op = "poll"
    /\ \/ \E r \in Newest(Waiting) : Answer(s, "ok", View!CopyOf(r))
       \/ Waiting = {} /\ Answer(s, "failed", NULL)
       \/ /\ CompletedReported /\ Waiting = {}
          /\ \E r \in Newest(Done) : Answer(s, "ok", View!CopyOf(r))
    /\ UNCHANGED ride

ServeCreate(s) ==
    /\ calls[s].op = "create"
    /\ \/ Unused = {} /\ Answer(s, "failed", NULL) /\ UNCHANGED ride
       \/ \E r \in Oldest(Unused) :
            /\ View!Request(Rider, r)
            /\ Answer(s, "ok", [id |-> r, row |-> ride'[r]])

ServeCancel(s) ==
    /\ calls[s].op = "cancel"
    /\ IF ride[calls[s].id].status \in {"completed", "cancelled"}
       THEN Answer(s, "failed", NULL) /\ UNCHANGED ride
       ELSE View!Cancel(calls[s].id) /\ Answer(s, "ok", NULL)

ServeRate(s) ==
    /\ calls[s].op = "rate"
    /\ Answer(s, IF ride[calls[s].id].status = "completed" THEN "ok" ELSE "failed", NULL)
    /\ UNCHANGED ride

\* Requests without an effect on the rides table or on what the page decides.
ServeOther(s) ==
    /\ calls[s].op \in {"approach", "order", "cash"}
    /\ Answer(s, "ok", calls[s].copy)
    /\ UNCHANGED ride

Serve(s) ==
    /\ calls[s] # NULL /\ calls[s].result \in {"pending", "orphan"}
    /\ ServePoll(s) \/ ServeCreate(s) \/ ServeCancel(s) \/ ServeRate(s) \/ ServeOther(s)
    /\ UNCHANGED <<step, activeRide, form, timer, mishaps>>

\* A request that is not served yet, or an answer, is lost.
Lose(s) ==
    /\ mishaps < MaxMishaps
    /\ calls[s] # NULL /\ calls[s].result \in {"pending", "ok"}
    /\ calls[s].op # "approach"
    /\ calls' = [calls EXCEPT ![s].result = "failed", ![s].copy = NULL]
    /\ mishaps' = mishaps + 1
    /\ UNCHANGED <<ride, step, activeRide, form, timer>>

DriverSide ==
    /\ \E r \in Rides :
         \/ \E p \in Profiles, c \in Codes : View!Assign(r, p, c)
         \/ View!Start(r)
         \/ View!Complete(r)
    /\ UNCHANGED <<step, activeRide, form, timer, calls, mishaps>>

-----------------------------------------------------------------------------
\* What the page does with an answer.

Ends(s) == calls' = [calls EXCEPT ![s] = NULL]
GoesOn(s, op, copy) ==
    calls' = [calls EXCEPT ![s] = [Request(op, @.id) EXCEPT !.copy = copy]]

\* Mutant: only the status of the copy on the screen is brought up to date.
PollAnswerMerged(s) ==
    LET copy == calls[s].copy IN
    /\ calls[s].op = "poll"
    /\ activeRide' = IF activeRide = NULL THEN copy
                     ELSE [activeRide EXCEPT !.row.status = copy.row.status]
    /\ step' = StepOf(copy.row.status)
    /\ IF step' = "DRIVER_ASSIGNED"
       THEN GoesOn(s, "approach", copy) /\ UNCHANGED form
       ELSE Ends(s) /\ UNCHANGED form

\* routeCoordinates is the null of the first render, so that the places of
\* the ride always replace those of the form; with a driver assigned only
\* after the driver's route has been awaited.
PollAnswer(s) ==
    LET copy == calls[s].copy IN
    /\ calls[s].op = "poll"
    /\ activeRide' = copy
    /\ step' = StepOf(copy.row.status)
    /\ IF step' = "DRIVER_ASSIGNED"
       THEN GoesOn(s, "approach", copy) /\ UNCHANGED form
       ELSE /\ Ends(s)
            /\ pickup' = (pickup \/ step' # "RIDE_COMPLETE")
            /\ dropoff' = (dropoff \/ step' # "RIDE_COMPLETE")
            /\ UNCHANGED <<vehicle, loading>>

ApproachAnswer(s) ==
    /\ calls[s].op = "approach"
    /\ Ends(s)
    /\ pickup' = TRUE /\ dropoff' = TRUE
    /\ UNCHANGED <<step, activeRide, vehicle, loading>>

CreateAnswer(s) ==
    /\ calls[s].op = "create"
    /\ activeRide' = calls[s].copy
    /\ step' = "SEARCHING_DRIVER"
    /\ GoesOn(s, "order", NULL)
    /\ UNCHANGED form

CancelAnswer(s) ==
    /\ calls[s].op = "cancel"
    /\ Ends(s)
    /\ ResetFlow
    /\ UNCHANGED <<pickup, loading>>

RateAnswer(s) ==
    /\ calls[s].op = "rate"
    /\ GoesOn(s, "cash", NULL)
    /\ UNCHANGED <<step, activeRide, form>>

\* A failed order or cash payment is ignored.
OrderAnswer(s) ==
    /\ calls[s].op = "order"
    /\ Ends(s)
    /\ loading' = FALSE
    /\ UNCHANGED <<step, activeRide, pickup, dropoff, vehicle>>

CashAnswer(s) ==
    /\ calls[s].op = "cash"
    /\ Ends(s)
    /\ ResetFlow
    /\ UNCHANGED <<pickup, loading>>

\* Mutant: no active ride clears the screen.
ErrorResets(s) ==
    /\ calls[s].op \in {"poll", "create", "cancel", "rate"}
    /\ Ends(s)
    /\ IF calls[s].op = "poll" THEN ResetFlow /\ UNCHANGED <<pickup, loading>>
       ELSE /\ loading' = (loading /\ calls[s].op # "create")
            /\ UNCHANGED <<step, activeRide, pickup, dropoff, vehicle>>

\* An alert at most; the Book button comes back.
Error(s) ==
    /\ calls[s].op \in {"poll", "create", "cancel", "rate"}
    /\ Ends(s)
    /\ loading' = (loading /\ calls[s].op # "create")
    /\ UNCHANGED <<step, activeRide, pickup, dropoff, vehicle>>

Apply(s) ==
    /\ calls[s] # NULL
    /\ \/ /\ calls[s].result = "ok"
          /\ \/ PollAnswer(s) \/ ApproachAnswer(s) \/ CreateAnswer(s)
             \/ CancelAnswer(s) \/ RateAnswer(s)
       \/ calls[s].result = "failed" /\ Error(s)
       \/ calls[s].result \in {"ok", "failed"} /\ (OrderAnswer(s) \/ CashAnswer(s))
    /\ UNCHANGED <<ride, timer, mishaps>>

\* The page is reloaded, or left and opened again: its state is lost, what it
\* has sent is not.
Remount ==
    /\ mishaps < MaxMishaps
    /\ mishaps' = mishaps + 1
    /\ ResetFlow
    /\ pickup' = FALSE /\ loading' = FALSE /\ timer' = FALSE
    /\ calls' = [s \in Slots |->
           IF calls[s] # NULL /\ calls[s].result \in {"pending", "orphan"}
           THEN [calls[s] EXCEPT !.result = "orphan"] ELSE NULL]
    /\ UNCHANGED ride

-----------------------------------------------------------------------------
Init ==
    /\ View!Init
    /\ step = "LOCATION_INPUT"
    /\ activeRide = NULL
    /\ pickup = FALSE /\ dropoff = FALSE /\ vehicle = FALSE
    /\ loading = FALSE /\ timer = FALSE
    /\ calls = [s \in Slots |-> NULL]
    /\ mishaps = 0

Next ==
    \/ GetCurrentPosition \/ HandleDropoffSelect \/ TimerFires
    \/ Back \/ SelectVehicle \/ HandleRequestRide
    \/ HandleCancelRide \/ SubmitRating \/ Skip
    \/ FetchActive \/ Remount \/ DriverSide
    \/ \E s \in Slots : Serve(s) \/ Lose(s) \/ Apply(s)

Spec == Init /\ [][Next]_vars

\* The interval never stops while the page is mounted: a poll is sent again
\* and again, whichever requests take the slots in between; the backend
\* serves what it gets and the browser runs the continuation of an answer.
Fairness ==
    /\ SF_vars(FetchActive)
    /\ \A s \in Slots : WF_vars(Serve(s)) /\ WF_vars(Apply(s))

FairSpec == Spec /\ Fairness
-----------------------------------------------------------------------------
\* Every variable keeps to its domain, and a request that names a ride names
\* one of the table.
TypeOK ==
    /\ ride \in [Rides -> View!Row]
    /\ step \in Steps
    /\ activeRide \in View!Copy \cup {NULL}
    /\ {pickup, dropoff, vehicle, loading, timer} \subseteq BOOLEAN
    /\ calls \in [Slots -> Call \cup {NULL}]
    /\ \A s \in Slots : calls[s] # NULL =>
           /\ calls[s].op \in {"cancel", "rate"} => calls[s].id \in Rides
           /\ calls[s].op \in {"poll", "create"} /\ calls[s].result = "ok" =>
                  calls[s].copy \in View!Copy
    /\ mishaps \in 0..MaxMishaps

\* A panel about a ride is shown only with a ride in the stage the panel is
\* about, whatever answers overtake each other (UserHome.jsx:142-182, 223,
\* 260): no panel of a driver without one, no OTP of a ride under way.
ScreenMatchesRide ==
    step \in {"SEARCHING_DRIVER", "DRIVER_ASSIGNED", "RIDE_IN_PROGRESS", "RIDE_COMPLETE"} =>
        activeRide # NULL /\ StepOf(activeRide.row.status) = step

\* Neither a mishap, nor a completed ride that a poll may report: an old
\* report, applied after the next ride has been booked, would offer to rate
\* and to skip, and so to book once more.
Undisturbed == mishaps = 0 /\ (CompletedReported => Done = {})

\* Undisturbed, one page never has two rides waiting: the Book button is
\* disabled or gone while there is one, or may be one (UserHome.jsx:516).
OneRideAtATime == Undisturbed => Cardinality(Waiting) <= 1

\* The screen is an old copy of the table at worst: it never shows a stage
\* the ride has not reached, nor another ride's driver or OTP.
ImplementsView == View!ViewSpec

\* Undisturbed, the page goes back to an empty form only when the ride on the
\* screen is over (UserHome.jsx:239): no answer to an earlier cancellation, to
\* an earlier booking or to an old poll makes it forget a ride that waits or
\* is under way.
KeptWhileOpen ==
    [][Undisturbed' /\ activeRide # NULL /\ activeRide.id \in Waiting' =>
           activeRide' # NULL]_vars

\* The newest open ride is on the screen, in the panel of its status.
ScreenIsCurrent ==
    \A r \in Newest(Waiting) :
        activeRide # NULL /\ activeRide.id = r /\ step = StepOf(ride[r].status)

\* However answers overtake each other, and after any reload and any lost
\* answer, the screen catches up with the table again and again
\* (UserHome.jsx:190).  The table rests in the end, all ids being used, so
\* that an open ride which rests too must be shown as it is.
ScreenCatchesUp == []<>ScreenIsCurrent

\* "Cash payment processing on ride completion" (PAYMENT_INTEGRATION.md:117):
\* the rider of a completed ride gets to the panel that rates and pays it.
\* False with the query as it is: the poll is told of no active ride.
CompletionIsShown ==
    \A r \in Rides :
        (activeRide # NULL /\ activeRide.id = r /\ ride[r].status = "completed") ~>
            (step = "RIDE_COMPLETE" \/ activeRide = NULL)
=============================================================================

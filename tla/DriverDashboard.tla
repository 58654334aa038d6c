-------------------------- MODULE DriverDashboard ---------------------------
(***************************************************************************)
(* The driver's page (src/frontend/src/pages/DriverDashboard.jsx) over the *)
(* rides table: the rides it offers, the ride it is about, and its         *)
(* requests in flight.                                                     *)
(*                                                                         *)
(* The page polls GET /rides/active every five seconds from an effect that *)
(* runs once, so that the callback keeps the driverStep of the first       *)
(* render, IDLE: its two comparisons with driverStep are always true, and  *)
(* every answer sets the step again.  As in UserHome no request is ever    *)
(* cancelled.  The riders and the other drivers move the table through     *)
(* RideLedger's actions.  Routes and positions are left out.               *)
(*                                                                         *)
(* The drivers row of this driver has the id of the account, which is what *)
(* the query of the poll, a start and a completion compare: RideFreshIds   *)
(* shows what becomes of rows that CreateProfile makes.                    *)
(***************************************************************************)
EXTENDS Integers, FiniteSets

CONSTANTS
    Me, Other,          \* drivers.id of this page's driver and of another
    Rider, Codes,       \* as in RideLedger
    MaxRides,           \* bound: ride ids 1..MaxRides
    Slots,              \* bound: requests of the page in flight
    MaxMishaps,         \* bound: lost answers, reloads, overlapping saves
    NULL

VARIABLES
    ride,               \* the rides table
    driverStep,         \* the panel that is shown
    currentRide,        \* the copy of a row the panel is about, or NULL
    rides,              \* the ids of the rides on offer
    showOTP,            \* showOTPInput
    submitting,         \* of the OTPVerification that is shown
    loading,            \* disables the Accept buttons
    processing,         \* paymentProcessing
    calls,              \* slot -> the request in it, or NULL
    mishaps

vars == <<ride, driverStep, currentRide, rides, showOTP, submitting, loading,
          processing, calls, mishaps>>

Rides == 1..MaxRides

View == INSTANCE RideView WITH
    Riders <- {Rider}, Profiles <- {Me, Other}, UniqueIndexes <- FALSE,
    seen <- currentRide

-----------------------------------------------------------------------------
\* RIDE_OFFERED is declared and never set.
Steps == {"IDLE", "EN_ROUTE_PICKUP", "AT_PICKUP", "RIDE_ACTIVE", "PAYMENT_COLLECTION"}

StepOf(status) ==
    CASE status = "accepted"       -> "EN_ROUTE_PICKUP"
      [] status = "driver_arrived" -> "AT_PICKUP"
      [] status = "in_progress"    -> "RIDE_ACTIVE"

\* "cash" is the payment that a confirmation awaits, "save" the profile form.
Ops == {"poll", "nearby", "accept", "verify", "complete", "cash", "save"}

Call == [op     : Ops,
         id     : Rides \cup {NULL},
         result : {"pending", "orphan", "ok", "failed"},
         copy   : View!Copy \cup {NULL},
         found  : SUBSET Rides]

Request(op, id) ==
    [op |-> op, id |-> id, result |-> "pending", copy |-> NULL, found |-> {}]

ASSUME BoundAssumption == MaxRides \in Nat /\ MaxMishaps \in Nat

\* Two drivers, and NULL is none of the values it stands beside.
ASSUME DriverAssumption == Me # Other
ASSUME NullAssumption == NULL \notin {Me, Other} \cup Rides \cup View!Copy \cup Call

Free == {s \in Slots : calls[s] = NULL}
Mine == View!ActiveOf(Me)
Requested == {r \in Rides : ride[r].status = "requested"}
Unused == {r \in Rides : ride[r].status = "none"}
Send(op, id) == \E s \in Free : calls' = [calls EXCEPT ![s] = Request(op, id)]

-----------------------------------------------------------------------------
\* The panels, and what a driver may do in each.

OfferPanel == driverStep = "IDLE"
ApproachPanel == driverStep = "EN_ROUTE_PICKUP" /\ currentRide # NULL
OTPPanel == (driverStep = "AT_PICKUP" \/ showOTP) /\ currentRide # NULL
ActivePanel == driverStep = "RIDE_ACTIVE" /\ currentRide # NULL
PaymentPanel == driverStep = "PAYMENT_COLLECTION" /\ currentRide # NULL

\* Another OTPVerification is another state: the flag goes with the panel.
KeepsPanel == submitting' = (submitting /\ OTPPanel')

\* The hub's new_ride_request, which is only listened to when idle.  The
\* goroutine that sends it may be late: the ride may be taken by then.
NewRideRequest(r) ==
    /\ OfferPanel
    /\ ride[r].status # "none"
    /\ rides' = rides \cup {r}
    /\ UNCHANGED <<ride, driverStep, currentRide, showOTP, submitting, loading,
                   processing, calls, mishaps>>

FetchNearbyRides ==
    /\ OfferPanel
    /\ Send("nearby", NULL)
    /\ UNCHANGED <<ride, driverStep, currentRide, rides, showOTP, submitting, loading,
                   processing, mishaps>>

\* Mutant: the poll runs only while the page is about no ride.
PollWhenIdle ==
    /\ OfferPanel
    /\ Send("poll", NULL)
    /\ UNCHANGED <<ride, driverStep, currentRide, rides, showOTP, submitting, loading,
                   processing, mishaps>>

Poll ==
    /\ Send("poll", NULL)
    /\ UNCHANGED <<ride, driverStep, currentRide, rides, showOTP, submitting, loading,
                   processing, mishaps>>

\* Mutant: the page takes the ride over from the offer before the answer.
HandleAcceptRideOptimistic(r) ==
    /\ OfferPanel
    /\ r \in rides
    /\ ~loading
    /\ Send("accept", r)
    /\ loading' = TRUE
    /\ currentRide' = [View!CopyOf(r) EXCEPT !.row.status = "accepted", !.row.driver = Me]
    /\ driverStep' = "EN_ROUTE_PICKUP"
    /\ UNCHANGED <<ride, rides, showOTP, submitting, processing, mishaps>>

HandleAcceptRide(r) ==
    /\ OfferPanel
    /\ r \in rides
    /\ ~loading
    /\ Send("accept", r)
    /\ loading' = TRUE
    /\ UNCHANGED <<ride, driverStep, currentRide, rides, showOTP, submitting,
                   processing, mishaps>>

HandleArrivedAtPickup ==
    /\ ApproachPanel
    /\ driverStep' = "AT_PICKUP"
    /\ showOTP' = TRUE
    /\ UNCHANGED <<ride, currentRide, rides, loading, processing, calls, mishaps>>
    /\ KeepsPanel

\* Closes the panel only if a poll has left AT_PICKUP.
CancelOTP ==
    /\ OTPPanel
    /\ showOTP' = FALSE
    /\ UNCHANGED <<ride, driverStep, currentRide, rides, loading, processing, calls, mishaps>>
    /\ KeepsPanel

HandleVerifyOTP ==
    /\ OTPPanel
    /\ ~submitting
    /\ Send("verify", currentRide.id)
    /\ submitting' = TRUE
    /\ UNCHANGED <<ride, driverStep, currentRide, rides, showOTP, loading, processing, mishaps>>

HandleCompleteRide ==
    /\ ActivePanel
    /\ driverStep' = "PAYMENT_COLLECTION"
    /\ UNCHANGED <<ride, currentRide, rides, showOTP, loading, processing, calls, mishaps>>
    /\ KeepsPanel

BackToRide ==
    /\ PaymentPanel
    /\ ~processing
    /\ driverStep' = "RIDE_ACTIVE"
    /\ UNCHANGED <<ride, currentRide, rides, showOTP, loading, processing, calls, mishaps>>
    /\ KeepsPanel

HandleConfirmPayment ==
    /\ PaymentPanel
    /\ ~processing
    /\ Send("complete", currentRide.id)
    /\ processing' = TRUE
    /\ UNCHANGED <<ride, driverStep, currentRide, rides, showOTP, submitting, loading, mishaps>>

\* The profile form covers every panel; its button shares loading with the
\* Accept buttons.  A save while a ride is being accepted, or the other way
\* round, is one of the mishaps: see SaveAnswer.
HandleSaveProfile ==
    /\ ~loading
    /\ mishaps < MaxMishaps
    /\ mishaps' = mishaps + 1
    /\ Send("save", NULL)
    /\ loading' = TRUE
    /\ UNCHANGED <<ride, driverStep, currentRide, rides, showOTP, submitting, processing>>

-----------------------------------------------------------------------------
\* The backend, each request one step.

\* The page gets the answer in slot s; an orphan's answer goes nowhere.
Answer(s, result, copy, found) ==
    calls' = [calls EXCEPT ![s] =
        IF @.result = "orphan" THEN NULL
        ELSE [@ EXCEPT !.result = result, !.copy = copy, !.found = found]]

Refuse(s) == Answer(s, "failed", NULL, {}) /\ UNCHANGED ride

\* The row that the request has just written is its answer.
AnswerRow(s) == Answer(s, "ok", [id |-> calls[s].id, row |-> ride'[calls[s].id]], {})

\* Mutant: no active ride is answered with 200 and no ride.
ServePollEmpty(s) ==
    /\ calls[s].op = "poll"
    /\ \/ \E r \in Mine : Answer(s, "ok", View!CopyOf(r), {})
       \/ Mine = {} /\ Answer(s, "ok", NULL, {})
    /\ UNCHANGED ride

ServePoll(s) ==
    /\ calls[s].op = "poll"
    /\ \/ \E r \in Mine : Answer(s, "ok", View!CopyOf(r), {})
       \/ Mine = {} /\ Answer(s, "failed", NULL, {})
    /\ UNCHANGED ride

\* The search returns some of the rides that wait.
ServeNearby(s) ==
    /\ calls[s].op = "nearby"
    /\ \E found \in SUBSET Requested : Answer(s, "ok", NULL, found)
    /\ UNCHANGED ride

ServeAccept(s) ==
    /\ calls[s].op = "accept"
    /\ \/ /\ Mine = {}
          /\ \E c \in Codes : View!Assign(calls[s].id, Me, c)
          /\ AnswerRow(s)
       \/ /\ Mine # {} \/ ride[calls[s].id].status # "requested"
          /\ Refuse(s)

\* The driver has typed the ride's OTP, or another.
ServeVerify(s) ==
    /\ calls[s].op = "verify"
    /\ \/ calls[s].id \in Mine /\ View!Start(calls[s].id) /\ AnswerRow(s)
       \/ Refuse(s)

ServeComplete(s) ==
    /\ calls[s].op = "complete"
    /\ \/ calls[s].id \in Mine /\ View!Complete(calls[s].id) /\ AnswerRow(s)
       \/ calls[s].id \notin Mine /\ Refuse(s)
       \/ ride[calls[s].id].status # "in_progress" /\ Refuse(s)

\* POST /payments/cash is for riders only: the driver's request is refused.
ServeCash(s) == calls[s].op = "cash" /\ Refuse(s)

ServeSave(s) ==
    /\ calls[s].op = "save"
    /\ Answer(s, "ok", NULL, {})
    /\ UNCHANGED ride

Serve(s) ==
    /\ calls[s] # NULL /\ calls[s].result \in {"pending", "orphan"}
    /\ \/ ServePoll(s) \/ ServeNearby(s) \/ ServeAccept(s) \/ ServeVerify(s)
       \/ ServeComplete(s) \/ ServeCash(s) \/ ServeSave(s)
    /\ UNCHANGED <<driverStep, currentRide, rides, showOTP, submitting, loading,
                   processing, mishaps>>

\* A request that is not served yet, or an answer, is lost.
Lose(s) ==
    /\ mishaps < MaxMishaps
    /\ calls[s] # NULL /\ calls[s].result \in {"pending", "ok"}
    /\ calls' = [calls EXCEPT ![s] = [@ EXCEPT !.result = "failed", !.copy = NULL, !.found = {}]]
    /\ mishaps' = mishaps + 1
    /\ UNCHANGED <<ride, driverStep, currentRide, rides, showOTP, submitting, loading,
                   processing>>

\* The riders, and another driver; how the other's rides go on is left out.
Others ==
    /\ \E r \in Rides :
         \/ r \in Unused /\ (\A q \in Unused : r <= q) /\ View!Request(Rider, r)
         \/ ride[r].status # "completed" /\ ride[r].status # "cancelled" /\ View!Cancel(r)
         \/ \E c \in Codes : View!Assign(r, Other, c)
    /\ UNCHANGED <<driverStep, currentRide, rides, showOTP, submitting, loading,
                   processing, calls, mishaps>>

-----------------------------------------------------------------------------
\* What the page does with an answer.

Ends(s) == calls' = [calls EXCEPT ![s] = NULL]

PollAnswer(s) ==
    /\ calls[s].op = "poll"
    /\ Ends(s)
    /\ currentRide' = calls[s].copy
    /\ driverStep' = StepOf(calls[s].copy.row.status)
    /\ UNCHANGED <<rides, showOTP, loading, processing>>
    /\ KeepsPanel

NearbyAnswer(s) ==
    /\ calls[s].op = "nearby"
    /\ Ends(s)
    /\ rides' = calls[s].found
    /\ UNCHANGED <<driverStep, currentRide, showOTP, submitting, loading, processing>>

AcceptAnswer(s) ==
    /\ calls[s].op = "accept"
    /\ Ends(s)
    /\ currentRide' = calls[s].copy
    /\ driverStep' = "EN_ROUTE_PICKUP"
    /\ loading' = FALSE
    /\ UNCHANGED <<rides, showOTP, processing>>
    /\ KeepsPanel

VerifyAnswer(s) ==
    /\ calls[s].op = "verify"
    /\ Ends(s)
    /\ currentRide' = calls[s].copy
    /\ driverStep' = "RIDE_ACTIVE"
    /\ showOTP' = FALSE
    /\ submitting' = FALSE
    /\ UNCHANGED <<rides, loading, processing>>

ToIdle ==
    /\ currentRide' = NULL
    /\ driverStep' = "IDLE"
    /\ processing' = FALSE
    /\ submitting' = FALSE

\* With cash selected the payment is awaited, whatever it answers.
CompleteAnswer(s) ==
    /\ calls[s].op = "complete"
    /\ \/ Ends(s) /\ ToIdle
       \/ /\ calls' = [calls EXCEPT ![s] = Request("cash", @.id)]
          /\ UNCHANGED <<driverStep, currentRide, submitting, processing>>
    /\ UNCHANGED <<rides, showOTP, loading>>

CashAnswer(s) ==
    /\ calls[s].op = "cash"
    /\ Ends(s)
    /\ ToIdle
    /\ UNCHANGED <<rides, showOTP, loading>>

\* Enables the Accept buttons, also when it was an accept that disabled them.
SaveAnswer(s) ==
    /\ calls[s].op = "save"
    /\ Ends(s)
    /\ loading' = FALSE
    /\ UNCHANGED <<driverStep, currentRide, rides, showOTP, submitting, processing>>

\* Mutant: whatever fails, the page goes back to the offers.
ErrorForgets(s) ==
    /\ calls[s].op \in {"poll", "nearby", "accept", "verify", "complete"}
    /\ Ends(s)
    /\ loading' = (loading /\ calls[s].op # "accept")
    /\ ToIdle
    /\ UNCHANGED <<rides, showOTP>>

\* Mutant: a failed completion goes back to the ride without the ride.
ErrorKeepsPanel(s) ==
    /\ calls[s].op \in {"poll", "nearby", "accept", "verify", "complete"}
    /\ Ends(s)
    /\ loading' = (loading /\ calls[s].op # "accept")
    /\ processing' = (processing /\ calls[s].op # "complete")
    /\ currentRide' = IF calls[s].op = "complete" THEN NULL ELSE currentRide
    /\ UNCHANGED <<driverStep, rides, showOTP, submitting>>

\* An alert at most: a poll or a search that fails is ignored, a failed
\* completion goes back to the ride, whatever is shown by then.
Error(s) ==
    /\ calls[s].op \in {"poll", "nearby", "accept", "verify", "complete"}
    /\ Ends(s)
    /\ loading' = (loading /\ calls[s].op # "accept")
    /\ processing' = (processing /\ calls[s].op # "complete")
    /\ driverStep' = IF calls[s].op = "complete" THEN "RIDE_ACTIVE" ELSE driverStep
    /\ UNCHANGED <<currentRide, rides, showOTP>>
    /\ submitting' = (submitting /\ OTPPanel' /\ calls[s].op # "verify")

Apply(s) ==
    /\ calls[s] # NULL
    /\ \/ /\ calls[s].result = "ok"
          /\ \/ PollAnswer(s) \/ NearbyAnswer(s) \/ AcceptAnswer(s)
             \/ VerifyAnswer(s) \/ CompleteAnswer(s)
       \/ calls[s].result = "failed" /\ Error(s)
       \/ calls[s].result \in {"ok", "failed"} /\ (CashAnswer(s) \/ SaveAnswer(s))
    /\ UNCHANGED <<ride, mishaps>>

\* The page is reloaded, or left and opened again.
Remount ==
    /\ mishaps < MaxMishaps
    /\ mishaps' = mishaps + 1
    /\ ToIdle
    /\ rides' = {} /\ showOTP' = FALSE /\ loading' = FALSE
    /\ calls' = [s \in Slots |->
           IF calls[s] # NULL /\ calls[s].result \in {"pending", "orphan"}
           THEN [calls[s] EXCEPT !.result = "orphan"] ELSE NULL]
    /\ UNCHANGED ride

-----------------------------------------------------------------------------
Init ==
    /\ View!Init
    /\ driverStep = "IDLE"
    /\ currentRide = NULL
    /\ rides = {}
    /\ showOTP = FALSE /\ submitting = FALSE
    /\ loading = FALSE /\ processing = FALSE
    /\ calls = [s \in Slots |-> NULL]
    /\ mishaps = 0

Next ==
    \/ \E r \in Rides : NewRideRequest(r) \/ HandleAcceptRide(r)
    \/ FetchNearbyRides \/ Poll
    \/ HandleArrivedAtPickup \/ CancelOTP \/ HandleVerifyOTP
    \/ HandleCompleteRide \/ BackToRide \/ HandleConfirmPayment
    \/ HandleSaveProfile \/ Remount \/ Others
    \/ \E s \in Slots : Serve(s) \/ Lose(s) \/ Apply(s)

Spec == Init /\ [][Next]_vars

\* As in UserHome: the interval of the poll never stops, the backend serves,
\* the browser runs continuations.
Fairness ==
    /\ SF_vars(Poll)
    /\ \A s \in Slots : WF_vars(Serve(s)) /\ WF_vars(Apply(s))

FairSpec == Spec /\ Fairness
-----------------------------------------------------------------------------
\* Every variable keeps to its domain, and a request names what it needs.
TypeOK ==
    /\ ride \in [Rides -> View!Row]
    /\ driverStep \in Steps
    /\ currentRide \in View!Copy \cup {NULL}
    /\ rides \subseteq Rides
    /\ {showOTP, submitting, loading, processing} \subseteq BOOLEAN
    /\ calls \in [Slots -> Call \cup {NULL}]
    /\ \A s \in Slots : calls[s] # NULL =>
           /\ calls[s].op \in {"accept", "verify", "complete"} => calls[s].id \in Rides
           /\ calls[s].op \in {"poll", "accept", "verify"} /\ calls[s].result = "ok" =>
                  calls[s].copy \in View!Copy
    /\ mishaps \in 0..MaxMishaps

\* The page is idle exactly when it is about no ride, and otherwise about a
\* ride of this driver, assigned or under way: no answer that comes late
\* leaves a panel without its ride, or idle with a ride kept
\* (DriverDashboard.jsx:85-98, 183, 233, 241).  The panels up to the pickup go
\* with a copy of a ride that has not begun.  An older poll may put such a copy
\* and its panel back after the start: that this does not stay so is
\* ScreenCatchesUp.
PanelHasRide ==
    /\ driverStep = "IDLE" <=> currentRide = NULL
    /\ currentRide # NULL =>
           /\ currentRide.row.driver = Me
           /\ currentRide.row.status \in View!DriverActive
    /\ driverStep \in {"EN_ROUTE_PICKUP", "AT_PICKUP"} =>
           currentRide.row.status \in {"accepted", "driver_arrived"}

\* The screen is an old copy of the table at worst: never ahead of it, never
\* another driver's ride, never another OTP.
ImplementsView == View!ViewSpec

\* Without a mishap the page goes idle only when the ride on the screen is
\* over: no answer to an earlier completion makes it forget the next ride
\* (DriverDashboard.jsx:233).
KeptWhileOpen ==
    [][mishaps' = 0 /\ currentRide # NULL /\ currentRide.id \in Mine' => currentRide' # NULL]_vars

\* However answers overtake each other, and after any reload and any lost
\* answer, the screen shows the driver's open ride again and again, in a
\* panel of its status (DriverDashboard.jsx:103).
ScreenIsCurrent ==
    \A r \in Mine :
        /\ currentRide # NULL /\ currentRide.id = r
        /\ \/ driverStep = StepOf(ride[r].status)
           \/ driverStep = "AT_PICKUP" /\ ride[r].status = "accepted"
           \/ driverStep = "PAYMENT_COLLECTION" /\ ride[r].status = "in_progress"

ScreenCatchesUp == []<>ScreenIsCurrent
=============================================================================

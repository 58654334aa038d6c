--------------------------- MODULE UserHomeProofs ---------------------------
(***************************************************************************)
(* Theorems about UserHome, for all values of its constants: the panel     *)
(* matches the ride on the screen, the screen implements RideView, and an  *)
(* undisturbed page neither books twice nor forgets an open ride.          *)
(***************************************************************************)
EXTENDS UserHome, FiniteSetTheorems, TLAPS

-----------------------------------------------------------------------------
\* What is known of the request in a slot: what TypeOK says of it, that its
\* copy lags, and that the copy is in a status which has a panel.
SlotOK(c) == c # NULL =>
    /\ c \in Call
    /\ c.op \in {"cancel", "rate"} => c.id \in Rides
    /\ c.copy # NULL => View!Lags(c.copy)
    /\ c.op \in {"poll", "create"} /\ c.result = "ok" => c.copy \in View!Copy
    /\ c.op = "poll" /\ c.result = "ok" =>
           c.copy.row.status \in View!RiderActive \cup {"completed"}
    /\ c.op = "create" /\ c.result = "ok" => c.copy.row.status = "requested"

CallsOK == calls \in [Slots -> Call \cup {NULL}] /\ \A s \in Slots : SlotOK(calls[s])

FormOK ==
    /\ pickup \in BOOLEAN /\ dropoff \in BOOLEAN /\ vehicle \in BOOLEAN
    /\ loading \in BOOLEAN /\ timer \in BOOLEAN

FieldsOK == FormOK /\ step \in Steps /\ mishaps \in 0..MaxMishaps

ScreenOK ==
    /\ activeRide \in View!Copy \cup {NULL}
    /\ activeRide # NULL => View!Lags(activeRide)
    /\ ScreenMatchesRide

\* The inductive invariant.
Inv == View!TableOK /\ FieldsOK /\ CallsOK /\ ScreenOK

RideSteps == {"SEARCHING_DRIVER", "DRIVER_ASSIGNED", "RIDE_IN_PROGRESS", "RIDE_COMPLETE"}

-----------------------------------------------------------------------------
LEMMA RidesAreThere == NULL \notin Rides /\ NULL \notin View!Copy /\ NULL \notin Call
                       /\ NULL \notin Profiles
BY NullAssumption

\* The table moves as the ledger says, or rests.
Moves == View!Next \/ UNCHANGED ride

LEMMA TableStaysOK ==
    ASSUME View!TableOK, Moves
    PROVE  View!TableOK'
<1>1. CASE View!Next
  BY <1>1, NullAssumption, View!TableKept
<1>2. CASE UNCHANGED ride
  BY <1>2 DEF View!TableOK, View!RowsSound
<1>3. QED
  BY <1>1, <1>2 DEF Moves

\* A copy that lags goes on lagging.
LEMMA CopyKept ==
    ASSUME View!TableOK, Moves, NEW copy \in View!Copy, View!Lags(copy)
    PROVE  View!Lags(copy)'
<1>1. CASE View!Next
  BY <1>1, View!LagsKept
<1>2. CASE UNCHANGED ride
  BY <1>2 DEF View!Lags
<1>3. QED
  BY <1>1, <1>2 DEF Moves

LEMMA SlotKept ==
    ASSUME View!TableOK, Moves, NEW c, SlotOK(c)
    PROVE  SlotOK(c)'
<1>1. c # NULL /\ c.copy # NULL => View!Lags(c.copy)'
  BY CopyKept DEF SlotOK, Call
<1>2. QED
  BY <1>1 DEF SlotOK

\* One slot gets other contents.
LEMMA SlotSet ==
    ASSUME View!TableOK, Moves, CallsOK, NEW s \in Slots,
           NEW d \in Call \cup {NULL}, SlotOK(d)', calls' = [calls EXCEPT ![s] = d]
    PROVE  CallsOK'
<1>1. calls' \in [Slots -> Call \cup {NULL}]
  BY DEF CallsOK
<1>2. ASSUME NEW t \in Slots PROVE SlotOK(calls[t])'
  <2>1. CASE t = s
    BY <2>1 DEF CallsOK
  <2>2. CASE t # s
    <3>1. PICK c : c = calls[t]
      OBVIOUS
    <3>2. calls'[t] = c
      BY <2>2, <3>1 DEF CallsOK
    <3>3. SlotOK(c)'
      BY <3>1, SlotKept DEF CallsOK
    <3>4. QED
      BY <3>2, <3>3 DEF SlotOK
  <2>3. QED
    BY <2>1, <2>2
<1>3. QED
  BY <1>1, <1>2 DEF CallsOK

LEMMA CallsRest ==
    ASSUME CallsOK, UNCHANGED <<ride, calls>>
    PROVE  CallsOK'
BY DEF CallsOK, SlotOK, View!Lags

\* A fresh request is a request, and promises nothing yet.
LEMMA RequestOK ==
    ASSUME NEW op \in Ops, NEW id \in Rides \cup {NULL},
           op \in {"cancel", "rate"} => id \in Rides
    PROVE  Request(op, id) \in Call /\ SlotOK(Request(op, id))'
BY DEF Request, Call, SlotOK

LEMMA SendOK ==
    ASSUME View!TableOK, CallsOK, UNCHANGED ride,
           NEW op \in Ops, NEW id \in Rides \cup {NULL},
           op \in {"cancel", "rate"} => id \in Rides,
           Send(op, id)
    PROVE  CallsOK'
<1>1. PICK s \in Slots : calls' = [calls EXCEPT ![s] = Request(op, id)]
  BY DEF Send, Free
<1>2. PICK d : d = Request(op, id)
  OBVIOUS
<1>3. d \in Call /\ SlotOK(d)'
  BY <1>2, RequestOK
<1>4. QED
  BY <1>1, <1>2, <1>3, SlotSet DEF Moves

\* The screen, when the page puts no ride on it.
LEMMA ScreenRests ==
    ASSUME View!TableOK, Moves, ScreenOK, UNCHANGED activeRide,
           step' = step \/ step' \notin RideSteps
    PROVE  ScreenOK'
<1>1. activeRide # NULL => View!Lags(activeRide)'
  <2>1. PICK copy : copy = activeRide
    OBVIOUS
  <2>2. activeRide # NULL => View!Lags(copy)'
    BY <2>1, CopyKept DEF ScreenOK
  <2>3. QED
    BY <2>1, <2>2 DEF View!Lags
<1>2. QED
  BY <1>1 DEF ScreenOK, ScreenMatchesRide, RideSteps, View!Lags

LEMMA ScreenEmptied ==
    ASSUME ResetFlow
    PROVE  ScreenOK' /\ step' \in Steps /\ vehicle' \in BOOLEAN /\ dropoff' \in BOOLEAN
BY DEF ResetFlow, ScreenOK, ScreenMatchesRide, Steps

-----------------------------------------------------------------------------
(* Each action keeps the invariant *)

\* What the rider does, and the timers.
LEMMA PageKeeps ==
    ASSUME Inv,
           \/ GetCurrentPosition \/ HandleDropoffSelect \/ TimerFires
           \/ Back \/ SelectVehicle \/ HandleRequestRide
           \/ HandleCancelRide \/ SubmitRating \/ Skip \/ FetchActive
    PROVE  Inv' /\ Moves
<1> USE DEF Inv
<1>1. UNCHANGED ride
  BY DEF GetCurrentPosition, HandleDropoffSelect, TimerFires, Back, SelectVehicle,
         HandleRequestRide, HandleCancelRide, SubmitRating, Skip, FetchActive
<1>2. View!TableOK' /\ Moves
  BY <1>1, TableStaysOK DEF Moves
<1>3. FieldsOK'
  <2>1. FormOK'
    BY Zenon DEF FieldsOK, FormOK, form, ResetFlow, GetCurrentPosition,
       HandleDropoffSelect, TimerFires, Back, SelectVehicle, HandleRequestRide,
       HandleCancelRide, SubmitRating, Skip, FetchActive
  <2>2. step' \in Steps /\ mishaps' \in 0..MaxMishaps
    BY BoundAssumption DEF FieldsOK, Steps, form, ResetFlow, GetCurrentPosition,
       HandleDropoffSelect, TimerFires, Back, SelectVehicle, HandleRequestRide,
       HandleCancelRide, SubmitRating, Skip, FetchActive
  <2>3. QED
    BY <2>1, <2>2 DEF FieldsOK
<1>4. ScreenOK'
  <2>1. CASE Skip
    BY <2>1, ScreenEmptied DEF Skip
  <2>2. CASE ~Skip
    <3>1. UNCHANGED activeRide /\ (step' = step \/ step' \notin RideSteps)
      BY <2>2 DEF RideSteps, form, GetCurrentPosition, HandleDropoffSelect, TimerFires,
             Back, SelectVehicle, HandleRequestRide, HandleCancelRide, SubmitRating,
             FetchActive
    <3>2. QED
      BY <1>2, <3>1, ScreenRests
  <2>3. QED
    BY <2>1, <2>2
<1>5. CallsOK'
  <2>1. CASE UNCHANGED calls
    BY <1>1, <2>1, CallsRest
  <2>2. CASE Send("poll", NULL) \/ Send("create", NULL)
    BY <1>1, <2>2, SendOK DEF Ops
  <2>3. CASE activeRide # NULL /\ (Send("cancel", activeRide.id) \/ Send("rate", activeRide.id))
    <3>1. activeRide.id \in Rides
      BY <2>3 DEF ScreenOK, View!Copy
    <3>2. PICK id \in Rides : id = activeRide.id
      BY <3>1
    <3>3. Send("cancel", id) \/ Send("rate", id)
      BY <2>3, <3>2
    <3>4. QED
      BY <1>1, <3>3, SendOK DEF Ops
  <2>4. QED
    BY <2>1, <2>2, <2>3 DEF GetCurrentPosition, HandleDropoffSelect, TimerFires, Back,
       SelectVehicle, HandleRequestRide, HandleCancelRide, SubmitRating, Skip, FetchActive
<1>6. QED
  BY <1>2, <1>3, <1>4, <1>5

LEMMA RemountKeeps ==
    ASSUME Inv, Remount
    PROVE  Inv' /\ Moves
<1> USE DEF Inv
<1>1. View!TableOK' /\ Moves
  BY TableStaysOK DEF Remount, Moves
<1>2. FieldsOK' /\ ScreenOK'
  <2>1. ResetFlow
    BY DEF Remount
  <2>2. FormOK' /\ ScreenOK' /\ step' \in Steps
    BY <2>1, ScreenEmptied DEF Remount, FormOK
  <2>3. mishaps' \in 0..MaxMishaps
    BY BoundAssumption DEF Remount, FieldsOK
  <2>4. QED
    BY <2>2, <2>3 DEF FieldsOK
<1>3. ASSUME NEW s \in Slots PROVE calls'[s] \in Call \cup {NULL} /\ SlotOK(calls[s])'
  <2>1. CASE calls'[s] = NULL
    BY <2>1 DEF SlotOK
  <2>2. CASE calls'[s] # NULL
    <3>1. PICK c : c = calls[s]
      OBVIOUS
    <3>2. c \in Call /\ SlotOK(c)'
      BY <1>1, <2>2, <3>1, SlotKept DEF Remount, CallsOK
    <3>3. PICK d : d = [c EXCEPT !.result = "orphan"]
      OBVIOUS
    <3>4. calls'[s] = d
      BY <2>2, <3>1, <3>3 DEF Remount
    <3>5. d \in Call /\ SlotOK(d)'
      BY <3>2, <3>3, NullAssumption DEF Call, SlotOK
    <3>6. QED
      BY <3>4, <3>5 DEF SlotOK
  <2>3. QED
    BY <2>1, <2>2
<1>4. CallsOK'
  BY <1>3 DEF CallsOK, Remount
<1>5. QED
  BY <1>1, <1>2, <1>4

LEMMA LoseKeeps ==
    ASSUME Inv, NEW s \in Slots, Lose(s)
    PROVE  Inv' /\ Moves
<1> USE DEF Inv
<1>1. View!TableOK' /\ Moves
  BY TableStaysOK DEF Lose, Moves
<1>2. FieldsOK' /\ ScreenOK'
  BY <1>1, ScreenRests, BoundAssumption DEF Lose, FieldsOK, FormOK, form
<1>3. PICK d : d = [calls[s] EXCEPT !.result = "failed", !.copy = NULL]
  OBVIOUS
<1>4. d \in Call /\ SlotOK(d)'
  BY <1>3 DEF Lose, CallsOK, SlotOK, Call
<1>5. calls' = [calls EXCEPT ![s] = d]
  BY <1>3 DEF Lose, CallsOK, Call
<1>6. QED
  BY <1>1, <1>2, <1>4, <1>5, SlotSet

\* An answer that is sound for its request goes into the request's slot.
LEMMA AnswerOK ==
    ASSUME View!TableOK, Moves, CallsOK,
           NEW s \in Slots, calls[s] # NULL,
           NEW result \in {"ok", "failed"}, NEW copy \in View!Copy \cup {NULL},
           copy # NULL => View!Lags(copy)',
           calls[s].op \in {"poll", "create"} /\ result = "ok" => copy # NULL,
           calls[s].op = "poll" /\ result = "ok" =>
               copy.row.status \in View!RiderActive \cup {"completed"},
           calls[s].op = "create" /\ result = "ok" => copy.row.status = "requested",
           Answer(s, result, copy)
    PROVE  CallsOK'
<1>1. CASE calls[s].result = "orphan"
  <2>1. calls' = [calls EXCEPT ![s] = NULL]
    BY <1>1 DEF Answer, CallsOK
  <2>2. QED
    BY <2>1, SlotSet DEF SlotOK
<1>2. CASE calls[s].result # "orphan"
  <2>1. PICK d : d = [calls[s] EXCEPT !.result = result, !.copy = copy]
    OBVIOUS
  <2>2. calls' = [calls EXCEPT ![s] = d]
    BY <1>2, <2>1 DEF Answer, CallsOK
  <2>3. d \in Call /\ SlotOK(d)'
    BY <2>1 DEF CallsOK, SlotOK, Call
  <2>4. QED
    BY <2>2, <2>3, SlotSet
<1>3. QED
  BY <1>1, <1>2

\* The backend's answer to a poll, a booking, or any other request.
LEMMA PollServed ==
    ASSUME Inv, NEW s \in Slots, calls[s] # NULL, ServePoll(s)
    PROVE  CallsOK' /\ Moves
<1> USE DEF Inv
<1>1. Moves
  BY DEF ServePoll, Moves
<1>2. ASSUME NEW r \in Rides, ride[r].status \in View!RiderActive \cup {"completed"},
             Answer(s, "ok", View!CopyOf(r))
      PROVE  CallsOK'
  <2>1. PICK copy : copy = View!CopyOf(r)
    OBVIOUS
  <2>2. copy \in View!Copy /\ View!Lags(copy)
    BY <1>2, <2>1, View!FreshCopyLags DEF View!RiderActive, View!DriverActive
  <2>3. View!Lags(copy)'
    BY <1>1, <2>2, CopyKept
  <2>4. copy.row.status \in View!RiderActive \cup {"completed"}
    BY <1>2, <2>1 DEF View!CopyOf
  <2>5. Answer(s, "ok", copy)
    BY <1>2, <2>1
  <2>6. QED
    BY <1>1, <2>2, <2>3, <2>4, <2>5, AnswerOK, NullAssumption DEF ServePoll
<1>3. CASE Answer(s, "failed", NULL)
  BY <1>1, <1>3, AnswerOK
<1>4. QED
  BY <1>1, <1>2, <1>3 DEF ServePoll, Newest, Waiting, Done, View!Current, View!RiderActive

LEMMA CreateServed ==
    ASSUME Inv, NEW s \in Slots, calls[s] # NULL, ServeCreate(s)
    PROVE  CallsOK' /\ Moves
<1> USE DEF Inv
<1>1. CASE Answer(s, "failed", NULL) /\ UNCHANGED ride
  BY <1>1, AnswerOK DEF Moves
<1>2. ASSUME NEW r \in Rides, ride[r].status = "none", View!Request(Rider, r),
             Answer(s, "ok", [id |-> r, row |-> ride'[r]])
      PROVE  CallsOK' /\ Moves
  <2>1. Moves
    BY <1>2 DEF Moves, View!Next
  <2>2. View!TableOK'
    BY <2>1, TableStaysOK
  <2>3. ride'[r].status = "requested"
    BY <1>2 DEF View!Request, View!TableOK, View!NoRow
  <2>4. PICK copy : copy = [id |-> r, row |-> ride'[r]]
    OBVIOUS
  <2>5. copy \in View!Copy /\ copy.row.status = "requested"
    BY <2>2, <2>3, <2>4 DEF View!Copy, View!TableOK
  <2>6. View!Lags(copy)'
    <3>1. View!CopyOf(r)' = copy
      BY <2>4 DEF View!CopyOf
    <3>2. (View!TableOK /\ r \in Rides /\ ride[r].status # "none" =>
              View!Lags(View!CopyOf(r)))'
      BY View!FreshCopyLags, PTL
    <3>3. QED
      BY <2>2, <2>3, <3>1, <3>2
  <2>7. QED
    BY <1>2, <2>1, <2>4, <2>5, <2>6, AnswerOK, NullAssumption DEF ServeCreate
<1>3. QED
  BY <1>1, <1>2 DEF ServeCreate, Oldest, Unused

LEMMA OtherServed ==
    ASSUME Inv, NEW s \in Slots, calls[s] # NULL,
           ServeCancel(s) \/ ServeRate(s) \/ ServeOther(s)
    PROVE  CallsOK' /\ Moves
<1> USE DEF Inv
<1>1. Moves
  BY DEF ServeCancel, ServeRate, ServeOther, Moves, View!Next, CallsOK, SlotOK
<1>2. CASE ServeCancel(s) \/ ServeRate(s)
  <2>1. Answer(s, "ok", NULL) \/ Answer(s, "failed", NULL)
    BY <1>2 DEF ServeCancel, ServeRate
  <2>2. QED
    BY <1>1, <1>2, <2>1, AnswerOK DEF ServeCancel, ServeRate
<1>3. CASE ServeOther(s)
  <2>1. PICK copy : copy = calls[s].copy
    OBVIOUS
  <2>2. copy \in View!Copy \cup {NULL} /\ (copy # NULL => View!Lags(copy)')
    BY <1>1, <2>1, CopyKept DEF CallsOK, SlotOK, Call
  <2>3. Answer(s, "ok", copy)
    BY <1>3, <2>1 DEF ServeOther
  <2>4. QED
    BY <1>1, <1>3, <2>2, <2>3, AnswerOK DEF ServeOther
<1>4. QED
  BY <1>1, <1>2, <1>3

LEMMA ServeKeeps ==
    ASSUME Inv, NEW s \in Slots, Serve(s)
    PROVE  Inv' /\ Moves
<1>1. CallsOK' /\ Moves
  BY PollServed, CreateServed, OtherServed DEF Serve
<1>2. View!TableOK'
  BY <1>1, TableStaysOK DEF Inv
<1>3. FieldsOK' /\ ScreenOK'
  BY <1>1, ScreenRests DEF Inv, Serve, FieldsOK, FormOK, form
<1>4. QED
  BY <1>1, <1>2, <1>3 DEF Inv

LEMMA DriverSideKeeps ==
    ASSUME Inv, DriverSide
    PROVE  Inv' /\ Moves
<1> USE DEF Inv
<1>1. Moves
  BY DEF DriverSide, Moves, View!Next
<1>2. View!TableOK'
  BY <1>1, TableStaysOK
<1>3. FieldsOK' /\ ScreenOK'
  BY <1>1, ScreenRests DEF DriverSide, FieldsOK, FormOK, form
<1>4. CallsOK'
  <2>1. ASSUME NEW s \in Slots PROVE SlotOK(calls[s])'
    <3>1. PICK c : c = calls[s]
      OBVIOUS
    <3>2. SlotOK(c)' /\ c = calls'[s]
      BY <1>1, <3>1, SlotKept DEF CallsOK, DriverSide
    <3>3. QED
      BY <3>2 DEF SlotOK
  <2>2. QED
    BY <2>1 DEF CallsOK, DriverSide
<1>5. QED
  BY <1>1, <1>2, <1>3, <1>4

\* A slot is freed, or goes on to the request that the page awaits next.
LEMMA EndsOK ==
    ASSUME View!TableOK, Moves, CallsOK, NEW s \in Slots, Ends(s)
    PROVE  CallsOK'
BY SlotSet DEF Ends, SlotOK

LEMMA GoesOnOK ==
    ASSUME View!TableOK, Moves, CallsOK, NEW s \in Slots, calls[s] # NULL,
           NEW op \in {"approach", "order", "cash"}, NEW copy \in View!Copy \cup {NULL},
           copy # NULL => View!Lags(copy), GoesOn(s, op, copy)
    PROVE  CallsOK'
<1>1. PICK d : d = [Request(op, calls[s].id) EXCEPT !.copy = copy]
  OBVIOUS
<1>2. copy # NULL => View!Lags(copy)'
  BY CopyKept
<1>3. d \in Call /\ SlotOK(d)'
  BY <1>1, <1>2 DEF Request, Call, CallsOK, SlotOK, Ops
<1>4. calls' = [calls EXCEPT ![s] = d]
  BY <1>1 DEF GoesOn, CallsOK
<1>5. QED
  BY <1>3, <1>4, SlotSet

\* The page takes a ride over from an answer.
LEMMA ScreenTakes ==
    ASSUME View!TableOK, Moves, NEW copy \in View!Copy, View!Lags(copy),
           activeRide' = copy, step' = StepOf(copy.row.status)
    PROVE  ScreenOK'
<1>1. View!Lags(copy)'
  BY CopyKept
<1>2. View!Lags(activeRide)'
  BY <1>1 DEF View!Lags
<1>3. QED
  BY <1>2, NullAssumption DEF ScreenOK, ScreenMatchesRide

LEMMA PollAnswerKeeps ==
    ASSUME Inv, NEW s \in Slots, calls[s] # NULL, calls[s].result = "ok",
           PollAnswer(s), UNCHANGED <<ride, timer, mishaps>>
    PROVE  Inv'
<1> USE DEF Inv
<1>1. Moves /\ View!TableOK'
  BY TableStaysOK DEF Moves
<1>2. PICK copy : copy = calls[s].copy
  OBVIOUS
<1>3. /\ copy \in View!Copy /\ View!Lags(copy)
      /\ copy.row.status \in View!RiderActive \cup {"completed"}
  BY <1>2, NullAssumption DEF PollAnswer, CallsOK, SlotOK
<1>4. activeRide' = copy /\ step' = StepOf(copy.row.status)
  BY <1>2 DEF PollAnswer
<1>5. ScreenOK'
  BY <1>1, <1>3, <1>4, ScreenTakes
<1>6. FieldsOK'
  <2>1. FormOK'
    BY Zenon DEF PollAnswer, form, FieldsOK, FormOK
  <2>2. step' \in Steps
    BY <1>3, <1>4 DEF StepOf, Steps, View!RiderActive, View!DriverActive
  <2>3. QED
    BY <2>1, <2>2 DEF FieldsOK
<1>7. CallsOK'
  <2>1. CASE Ends(s)
    BY <1>1, <2>1, EndsOK
  <2>2. CASE GoesOn(s, "approach", copy)
    BY <1>1, <1>3, <2>2, GoesOnOK
  <2>3. QED
    BY <1>2, <2>1, <2>2 DEF PollAnswer
<1>8. QED
  BY <1>1, <1>5, <1>6, <1>7

LEMMA CreateAnswerKeeps ==
    ASSUME Inv, NEW s \in Slots, calls[s] # NULL, calls[s].result = "ok",
           CreateAnswer(s), UNCHANGED <<ride, timer, mishaps>>
    PROVE  Inv'
<1> USE DEF Inv
<1>1. Moves /\ View!TableOK'
  BY TableStaysOK DEF Moves
<1>2. PICK copy : copy = calls[s].copy
  OBVIOUS
<1>3. copy \in View!Copy /\ View!Lags(copy) /\ copy.row.status = "requested"
  BY <1>2, NullAssumption DEF CreateAnswer, CallsOK, SlotOK
<1>4. activeRide' = copy /\ step' = StepOf(copy.row.status)
  BY <1>2, <1>3 DEF CreateAnswer, StepOf
<1>5. ScreenOK'
  BY <1>1, <1>3, <1>4, ScreenTakes
<1>6. FieldsOK'
  BY DEF CreateAnswer, form, FieldsOK, FormOK, Steps
<1>7. CallsOK'
  BY <1>1, GoesOnOK DEF CreateAnswer
<1>8. QED
  BY <1>1, <1>5, <1>6, <1>7

\* Every other answer leaves the ride on the screen as it is, or empties it.
LEMMA OtherAnswerKeeps ==
    ASSUME Inv, NEW s \in Slots, calls[s] # NULL,
           \/ ApproachAnswer(s) \/ CancelAnswer(s) \/ RateAnswer(s)
           \/ OrderAnswer(s) \/ CashAnswer(s) \/ Error(s),
           UNCHANGED <<ride, timer, mishaps>>
    PROVE  Inv'
<1> USE DEF Inv
<1>1. Moves /\ View!TableOK'
  BY TableStaysOK DEF Moves
<1>2. CallsOK'
  BY <1>1, EndsOK, GoesOnOK DEF ApproachAnswer, CancelAnswer, RateAnswer, OrderAnswer,
     CashAnswer, Error
<1>3. FormOK'
  BY Zenon DEF ApproachAnswer, CancelAnswer, RateAnswer, OrderAnswer, CashAnswer, Error,
     ResetFlow, form, FieldsOK, FormOK
<1>4. ScreenOK' /\ step' \in Steps
  <2>1. CASE ResetFlow
    BY <2>1, ScreenEmptied
  <2>2. CASE UNCHANGED <<activeRide, step>>
    BY <1>1, <2>2, ScreenRests DEF FieldsOK
  <2>3. QED
    BY <2>1, <2>2 DEF ApproachAnswer, CancelAnswer, RateAnswer, OrderAnswer, CashAnswer, Error
<1>5. QED
  BY <1>1, <1>2, <1>3, <1>4 DEF FieldsOK

LEMMA ApplyKeeps ==
    ASSUME Inv, NEW s \in Slots, Apply(s)
    PROVE  Inv' /\ Moves
BY PollAnswerKeeps, CreateAnswerKeeps, OtherAnswerKeeps DEF Apply, Moves

-----------------------------------------------------------------------------
LEMMA InitOK == Init => Inv
<1> SUFFICES ASSUME Init PROVE Inv
  OBVIOUS
<1>1. View!TableOK
  BY View!TableInit DEF Init
<1>2. FieldsOK
  <2>1. FormOK
    BY Zenon DEF Init, FormOK
  <2>2. QED
    BY <2>1, BoundAssumption DEF Init, FieldsOK, Steps
<1>3. CallsOK /\ ScreenOK
  BY DEF Init, CallsOK, SlotOK, ScreenOK, ScreenMatchesRide
<1>4. QED
  BY <1>1, <1>2, <1>3 DEF Inv

LEMMA StepOK == Inv /\ [Next]_vars => Inv' /\ Moves
<1> SUFFICES ASSUME Inv, [Next]_vars PROVE Inv' /\ Moves
  OBVIOUS
<1>1. CASE Next
  <2>1. CASE \/ GetCurrentPosition \/ HandleDropoffSelect \/ TimerFires
             \/ Back \/ SelectVehicle \/ HandleRequestRide
             \/ HandleCancelRide \/ SubmitRating \/ Skip \/ FetchActive
    BY <2>1, PageKeeps
  <2>2. CASE Remount \/ DriverSide
    BY <2>2, RemountKeeps, DriverSideKeeps
  <2>3. ASSUME NEW s \in Slots, Serve(s) \/ Lose(s) \/ Apply(s)
        PROVE  Inv' /\ Moves
    BY <2>3, ServeKeeps, LoseKeeps, ApplyKeeps
  <2>4. QED
    BY <1>1, <2>1, <2>2, <2>3 DEF Next
<1>2. CASE UNCHANGED vars
  <2>1. Moves /\ View!TableOK'
    BY <1>2, TableStaysOK DEF vars, Moves, Inv
  <2>2. CallsOK' /\ ScreenOK'
    BY <1>2, <2>1, CallsRest, ScreenRests DEF vars, Inv
  <2>3. QED
    BY <1>2, <2>1, <2>2 DEF vars, Inv, FieldsOK, FormOK
<1>3. QED
  BY <1>1, <1>2

\* The invariant holds in every behaviour.
THEOREM Invariance == Spec => []Inv
<1>1. QED
  BY InitOK, StepOK, PTL DEF Spec

\* Every variable keeps to its domain, for any number of rides, requests in
\* flight and mishaps.
THEOREM TypeCorrect == Spec => []TypeOK
<1>1. Inv => TypeOK
  BY DEF Inv, FieldsOK, FormOK, CallsOK, SlotOK, ScreenOK, View!TableOK, TypeOK
<1>2. QED
  BY <1>1, Invariance, PTL

\* A panel about a ride shows a ride in the stage of the panel, whatever
\* answers overtake each other (UserHome.jsx:142-182).
THEOREM PanelMatchesRide == Spec => []ScreenMatchesRide
<1>1. Inv => ScreenMatchesRide
  BY DEF Inv, ScreenOK
<1>2. QED
  BY <1>1, Invariance, PTL

\* The page with its requests in flight implements the screen that only ever
\* shows rows the ride has had.
THEOREM ViewRefinement == Spec => ImplementsView
<1>1. Init => View!ViewInit
  BY DEF Init, View!ViewInit
<1>2. Inv /\ Inv' /\ [Next]_vars => [View!ViewNext]_<<ride, activeRide>>
  <2> SUFFICES ASSUME Inv, Inv', [Next]_vars
               PROVE  [View!ViewNext]_<<ride, activeRide>>
    OBVIOUS
  <2>1. CASE UNCHANGED activeRide
    BY <2>1, StepOK DEF Moves, View!ViewNext
  <2>2. CASE ~UNCHANGED activeRide
    <3>1. UNCHANGED ride
      BY <2>2 DEF vars, Next, GetCurrentPosition, HandleDropoffSelect, TimerFires,
         Back, SelectVehicle, HandleRequestRide, HandleCancelRide, SubmitRating, Skip,
         FetchActive, Remount, DriverSide, Serve, Lose, Apply
    <3>2. activeRide' = NULL \/ (activeRide' \in View!Copy /\ View!Lags(activeRide)')
      BY DEF Inv, ScreenOK
    <3>3. View!Lags(activeRide)' => View!Lags(activeRide')
      BY <3>1 DEF View!Lags
    <3>4. QED
      BY <3>1, <3>2, <3>3 DEF View!ViewNext, View!See, View!Forget
  <2>3. QED
    BY <2>1, <2>2
<1>3. QED
  BY <1>1, <1>2, Invariance, PTL DEF Spec, ImplementsView, View!ViewSpec

-----------------------------------------------------------------------------
(* An undisturbed page *)

\* A booking, with its payment order, in slot s; a cancellation that went
\* through and is not known of yet.
Booking(s) == calls[s] # NULL /\ calls[s].op \in {"create", "order"}
Pending(s) == calls[s] # NULL /\ calls[s].op = "create" /\ calls[s].result = "pending"
Booked(s) == calls[s] # NULL /\ calls[s].op = "create" /\ calls[s].result = "ok"
Cancelling(s) == calls[s] # NULL /\ calls[s].op = "cancel"
Cancelled(s) == Cancelling(s) /\ calls[s].result = "ok"

\* No ride is ever reported as completed, so that none is rated or skipped.
NothingOver ==
    /\ \A s \in Slots : calls[s] # NULL =>
           /\ calls[s].op \notin {"rate", "cash"}
           /\ calls[s].result # "orphan"
           /\ calls[s].op = "poll" /\ calls[s].result = "ok" =>
                  calls[s].copy.row.status # "completed"
    /\ activeRide # NULL => step \in RideSteps \ {"RIDE_COMPLETE"}

\* One booking at a time, and none while a ride waits ...
BookingsApart ==
    /\ \A s \in Slots : Booking(s) => loading
    /\ \A s, t \in Slots : Booking(s) /\ Booking(t) => s = t
    /\ \A s \in Slots : Pending(s) => Waiting = {}
    /\ \A q, r \in Waiting : q = r

\* ... because a ride that waits is on the screen, unless the page has not
\* been told yet that it has been booked ...
WaitingShown == Waiting # {} => activeRide # NULL \/ \E s \in Slots : Booked(s)

\* ... and a cancellation that goes through ends the only one.
CancelsApart ==
    /\ \A s \in Slots : Cancelling(s) => ride[calls[s].id].status # "none"
    /\ \A s \in Slots : Cancelling(s) /\ calls[s].id \in Waiting => activeRide # NULL
    /\ \A s \in Slots : Cancelled(s) => Waiting = {} /\ activeRide # NULL
    /\ \A s, t \in Slots : Cancelled(s) => ~Pending(t)
    /\ \A s, t \in Slots : Cancelled(s) /\ Cancelled(t) => s = t

Quiet == NothingOver /\ BookingsApart /\ WaitingShown /\ CancelsApart

Owned == \A r \in Rides : ride[r].status # "none" => ride[r].owner = Rider

\* The inductive invariant.
QInv == Owned /\ (Undisturbed => Quiet)

\* What has disturbed the page stays.
LEMMA CalmBefore ==
    ASSUME Inv, Next, Undisturbed'
    PROVE  Undisturbed
<1> USE DEF Inv
<1>1. ASSUME NEW r \in Rides, ride[r].status = "completed" PROVE ride'[r] = ride[r]
  <2>1. CASE DriverSide
    BY <1>1, <2>1 DEF DriverSide, View!Assign, View!Start, View!Complete, View!TableOK
  <2>2. ASSUME NEW s \in Slots, Serve(s) PROVE ride'[r] = ride[r]
    BY <1>1, <2>2 DEF Serve, ServePoll, ServeCreate, ServeCancel, ServeRate, ServeOther,
       View!Request, View!Cancel, View!TableOK, CallsOK, SlotOK
  <2>3. CASE UNCHANGED ride
    BY <2>3
  <2>4. QED
    BY <2>1, <2>2, <2>3 DEF Next, GetCurrentPosition, HandleDropoffSelect, TimerFires,
       Back, SelectVehicle, HandleRequestRide, HandleCancelRide, SubmitRating, Skip,
       FetchActive, Remount, Lose, Apply
<1>2. Done \subseteq Done'
  BY <1>1 DEF Done
<1>3. mishaps <= mishaps'
  <2>1. mishaps' = mishaps \/ mishaps' = mishaps + 1
    BY DEF form, Next, GetCurrentPosition, HandleDropoffSelect, TimerFires,
       Back, SelectVehicle, HandleRequestRide, HandleCancelRide, SubmitRating, Skip,
       FetchActive, Remount, DriverSide, Serve, Lose, Apply
  <2>2. QED
    BY <2>1, BoundAssumption DEF FieldsOK
<1>4. QED
  BY <1>2, <1>3, BoundAssumption DEF Undisturbed, FieldsOK

\* A copy is of a ride that is there.
LEMMA CopyIsThere ==
    ASSUME View!TableOK, NEW copy \in View!Copy, View!Lags(copy)
    PROVE  copy.id \in Rides /\ ride[copy.id].status # "none"
BY DEF View!TableOK, View!Copy, View!Row, View!Statuses, View!Lags, View!MayHaveBeen, View!Stage

\* What the rider does, and the timers.
LEMMA PageStaysQuiet ==
    ASSUME Inv, Quiet, Undisturbed',
           \/ GetCurrentPosition \/ HandleDropoffSelect \/ TimerFires
           \/ Back \/ SelectVehicle \/ HandleRequestRide
           \/ HandleCancelRide \/ SubmitRating \/ Skip \/ FetchActive
    PROVE  Quiet' /\ (activeRide # NULL => activeRide' # NULL)
<1> USE DEF Inv
<1>1. UNCHANGED ride /\ Waiting' = Waiting
  BY DEF GetCurrentPosition, HandleDropoffSelect, TimerFires, Back, SelectVehicle,
     HandleRequestRide, HandleCancelRide, SubmitRating, Skip, FetchActive,
     Waiting, View!Current
<1>2. step # "RIDE_COMPLETE"
  BY DEF ScreenOK, ScreenMatchesRide, Quiet, NothingOver, RideSteps
<1>3. UNCHANGED activeRide
  BY <1>2 DEF GetCurrentPosition, HandleDropoffSelect, TimerFires, Back, SelectVehicle,
     HandleRequestRide, HandleCancelRide, SubmitRating, Skip, FetchActive, CompletePanel
<1>4. activeRide # NULL => step' = step
  BY <1>2, BoundAssumption DEF GetCurrentPosition, HandleDropoffSelect, TimerFires, Back,
     SelectVehicle, HandleRequestRide, HandleCancelRide, SubmitRating, Skip, FetchActive,
     CompletePanel, PreviewPanel, Quiet, NothingOver, RideSteps, Undisturbed, FieldsOK
<1>5. CASE UNCHANGED <<calls, loading>>
  BY <1>1, <1>3, <1>4, <1>5 DEF Quiet, NothingOver, BookingsApart, WaitingShown,
     CancelsApart, Booking, Pending, Booked, Cancelling, Cancelled
<1>6. CASE FetchActive
  BY <1>1, <1>3, <1>4, <1>6 DEF FetchActive, Send, Request, form, CallsOK, Free, Quiet,
     NothingOver, BookingsApart, WaitingShown, CancelsApart, Booking, Pending, Booked,
     Cancelling, Cancelled
<1>7. CASE HandleCancelRide
  <2>1. PICK s \in Slots : calls[s] = NULL /\ calls' = [calls EXCEPT ![s] = Request("cancel", activeRide.id)]
    BY <1>7 DEF HandleCancelRide, Send, Free
  <2>2. activeRide # NULL /\ ride[activeRide.id].status # "none" /\ loading' = loading
    BY <1>7, CopyIsThere DEF HandleCancelRide, ScreenOK, form
  <2>3. /\ \A t \in Slots : t # s => calls'[t] = calls[t]
        /\ calls'[s].op = "cancel" /\ calls'[s].result = "pending"
        /\ calls'[s].id = activeRide.id
    BY <2>1 DEF CallsOK, Request
  <2>4. NothingOver'
    BY <1>3, <1>4, <2>2, <2>3 DEF Quiet, NothingOver
  <2>5. BookingsApart'
    BY <1>1, <2>2, <2>3 DEF Quiet, BookingsApart, Booking, Pending
  <2>6. WaitingShown'
    BY <1>3, <2>2 DEF WaitingShown
  <2>7. CancelsApart'
    BY <1>1, <1>3, <2>2, <2>3 DEF Quiet, CancelsApart, Cancelling, Cancelled, Pending
  <2>8. QED
    BY <1>3, <2>4, <2>5, <2>6, <2>7 DEF Quiet
<1>8. CASE HandleRequestRide
  <2>1. PICK s \in Slots : calls[s] = NULL /\ calls' = [calls EXCEPT ![s] = Request("create", NULL)]
    BY <1>8 DEF HandleRequestRide, Send, Free
  <2>2. activeRide = NULL /\ loading = FALSE /\ loading' = TRUE
    BY <1>8 DEF HandleRequestRide, PreviewPanel, FieldsOK, FormOK, Quiet, NothingOver, RideSteps
  <2>3. /\ \A t \in Slots : t # s => calls'[t] = calls[t]
        /\ calls'[s].op = "create" /\ calls'[s].result = "pending"
    BY <2>1 DEF CallsOK, Request
  <2>4. \A t \in Slots : ~Booking(t)
    BY <2>2 DEF Quiet, BookingsApart
  <2>5. Waiting = {} /\ \A t \in Slots : ~Cancelled(t)
    BY <2>2, <2>4 DEF Quiet, WaitingShown, CancelsApart, Booked, Booking
  <2>6. NothingOver'
    BY <1>3, <2>2, <2>3 DEF Quiet, NothingOver
  <2>7. BookingsApart'
    BY <1>1, <2>2, <2>3, <2>4, <2>5 DEF BookingsApart, Booking, Pending
  <2>8. WaitingShown'
    BY <1>1, <2>5 DEF WaitingShown
  <2>9. CancelsApart'
    BY <1>1, <2>3, <2>5 DEF Quiet, CancelsApart, Cancelling, Cancelled, Pending
  <2>10. QED
    BY <1>3, <2>6, <2>7, <2>8, <2>9 DEF Quiet
<1>9. QED
  BY <1>2, <1>3, <1>5, <1>6, <1>7, <1>8 DEF GetCurrentPosition, HandleDropoffSelect,
     TimerFires, Back, SelectVehicle, SubmitRating, Skip, CompletePanel, form

\* Only slot s changes, and how.
Only(s) == \A t \in Slots : t # s => calls'[t] = calls[t]

LEMMA AnswerFacts ==
    ASSUME Inv, NothingOver, NEW s \in Slots, calls[s] # NULL,
           NEW result, NEW copy, Answer(s, result, copy)
    PROVE  /\ Only(s)
           /\ calls'[s].op = calls[s].op /\ calls'[s].id = calls[s].id
           /\ calls'[s].result = result /\ calls'[s].copy = copy
<1>1. calls[s].result # "orphan" /\ calls[s] \in Call
  BY DEF NothingOver, Inv, CallsOK, SlotOK
<1>2. PICK d : d = [calls[s] EXCEPT !.result = result, !.copy = copy]
  OBVIOUS
<1>3. d.op = calls[s].op /\ d.id = calls[s].id /\ d.result = result /\ d.copy = copy
  BY <1>1, <1>2 DEF Call
<1>4. calls' = [calls EXCEPT ![s] = d]
  BY <1>1, <1>2 DEF Answer, Inv, CallsOK
<1>5. QED
  BY <1>3, <1>4 DEF Only, Inv, CallsOK

LEMMA ServePollQuiet ==
    ASSUME Inv, Quiet, Undisturbed, NEW s \in Slots, calls[s] # NULL, ServePoll(s),
           UNCHANGED <<step, activeRide, form>>
    PROVE  Quiet'
<1>1. PICK result, copy :
          /\ result \in {"ok", "failed"}
          /\ Answer(s, result, copy)
          /\ result = "ok" => copy.row.status # "completed"
  <2>1. ASSUME NEW r \in Newest(Waiting), Answer(s, "ok", View!CopyOf(r))
        PROVE  View!CopyOf(r).row.status # "completed"
    BY DEF View!CopyOf, Newest, Waiting, View!Current, View!RiderActive, View!DriverActive
  <2>2. ~(CompletedReported /\ \E r \in Newest(Done) : TRUE)
    BY DEF Undisturbed, Newest
  <2>3. QED
    BY <2>1, <2>2 DEF ServePoll
<1>2. /\ Only(s)
      /\ calls'[s].op = "poll" /\ calls'[s].result = result /\ calls'[s].copy = copy
  BY <1>1, AnswerFacts DEF Quiet, ServePoll
<1>3. UNCHANGED ride /\ Waiting' = Waiting /\ loading' = loading
  BY DEF ServePoll, Waiting, View!Current, form
<1>4. calls[s].op = "poll"
  BY DEF ServePoll
<1>5. NothingOver'
  BY <1>1, <1>2 DEF Quiet, NothingOver, Only
<1>6. BookingsApart'
  BY <1>2, <1>3 DEF Quiet, BookingsApart, Booking, Pending, Only
<1>7. WaitingShown'
  BY <1>2, <1>3, <1>4 DEF Quiet, WaitingShown, Booked, Only
<1>8. CancelsApart'
  BY <1>2, <1>3 DEF Quiet, CancelsApart, Cancelling, Cancelled, Pending, Only
<1>9. QED
  BY <1>5, <1>6, <1>7, <1>8 DEF Quiet

LEMMA ServeCreateQuiet ==
    ASSUME Inv, Quiet, NEW s \in Slots, calls[s] # NULL,
           calls[s].result = "pending", ServeCreate(s),
           UNCHANGED <<step, activeRide, form>>
    PROVE  Quiet'
<1>0. /\ Pending(s) /\ Booking(s) /\ Waiting = {} /\ (\A t \in Slots : ~Cancelled(t))
      /\ loading' = loading /\ calls[s].op = "create"
      /\ \A t \in Slots : Booking(t) => t = s
  BY DEF ServeCreate, Pending, Booking, Quiet, BookingsApart, CancelsApart, form
<1>1. CASE Unused = {} /\ Answer(s, "failed", NULL) /\ UNCHANGED ride
  <2>1. Waiting' = Waiting
    BY <1>1 DEF Waiting, View!Current
  <2>2. Only(s) /\ calls'[s].op = "create" /\ calls'[s].result = "failed"
    BY <1>0, <1>1, AnswerFacts DEF Quiet
  <2>3. NothingOver'
    BY <2>2 DEF Quiet, NothingOver, Only
  <2>4. BookingsApart'
    BY <1>0, <2>1, <2>2 DEF Quiet, BookingsApart, Booking, Pending, Only
  <2>5. WaitingShown'
    BY <1>0, <2>1 DEF WaitingShown
  <2>6. CancelsApart'
    BY <1>0, <1>1, <2>1, <2>2 DEF Quiet, CancelsApart, Cancelling, Cancelled, Pending, Only
  <2>7. QED
    BY <2>3, <2>4, <2>5, <2>6 DEF Quiet
<1>2. ASSUME NEW r \in Rides, ride[r].status = "none", View!Request(Rider, r),
             Answer(s, "ok", [id |-> r, row |-> ride'[r]])
      PROVE  Quiet'
  <2>1. PICK row : row = [View!NoRow EXCEPT !.status = "requested", !.owner = Rider]
    OBVIOUS
  <2>2. ride' = [ride EXCEPT ![r] = row] /\ row.status = "requested"
    BY <1>2, <2>1 DEF View!Request, View!NoRow
  <2>3. ride'[r].status = "requested" /\ \A q \in Rides : q # r => ride'[q] = ride[q]
    BY <2>2 DEF Inv, View!TableOK
  <2>4. Waiting' \subseteq {r}
    BY <1>0, <2>3 DEF Waiting, View!Current
  <2>5. PICK copy : copy = [id |-> r, row |-> ride'[r]]
    OBVIOUS
  <2>6. /\ Only(s)
        /\ calls'[s].op = "create" /\ calls'[s].result = "ok" /\ calls'[s].copy = copy
    BY <1>0, <1>2, <2>5, AnswerFacts DEF Quiet
  <2>7. calls'[s] # NULL
    <3>1. Moves
      BY <1>2 DEF Moves, View!Next
    <3>2. copy \in View!Copy
      BY <2>5, <3>1, TableStaysOK DEF Inv, View!TableOK, View!Copy
    <3>3. PICK d : d = [calls[s] EXCEPT !.result = "ok", !.copy = copy]
      OBVIOUS
    <3>4. d \in Call
      BY <3>2, <3>3 DEF Inv, CallsOK, Call
    <3>5. calls'[s] = d
      BY <1>2, <2>5, <3>3 DEF Answer, Inv, CallsOK
    <3>6. QED
      BY <3>4, <3>5, NullAssumption
  <2>8. NothingOver'
    BY <2>6 DEF Quiet, NothingOver, Only
  <2>9. BookingsApart'
    BY <1>0, <2>4, <2>6 DEF Quiet, BookingsApart, Booking, Pending, Only
  <2>10. WaitingShown'
    BY <2>6, <2>7 DEF WaitingShown, Booked
  <2>11. CancelsApart'
    <3>1. \A t \in Slots : Cancelling(t) => calls[t].id # r
      BY <1>2 DEF Quiet, CancelsApart
    <3>2. \A t \in Slots : Cancelling(t)' => t # s /\ Cancelling(t) /\ calls'[t] = calls[t]
      BY <2>6 DEF Cancelling, Only
    <3>3. \A t \in Slots : ~Cancelled(t)'
      BY <1>0, <3>2 DEF Cancelled
    <3>4. \A t \in Slots : Cancelling(t)' => ride'[calls'[t].id].status # "none" /\ calls'[t].id \notin Waiting'
      BY <2>3, <2>4, <3>1, <3>2 DEF Quiet, CancelsApart, Inv, CallsOK, SlotOK, Cancelling
    <3>5. QED
      BY <3>3, <3>4 DEF CancelsApart
  <2>12. QED
    BY <2>8, <2>9, <2>10, <2>11 DEF Quiet
<1>3. QED
  BY <1>1, <1>2 DEF ServeCreate, Oldest, Unused

LEMMA ServeOtherQuiet ==
    ASSUME Inv, Owned, Quiet, NEW s \in Slots, calls[s] # NULL,
           calls[s].result = "pending",
           ServeCancel(s) \/ ServeRate(s) \/ ServeOther(s),
           UNCHANGED <<step, activeRide, form>>
    PROVE  Quiet'
<1>0. loading' = loading
  BY DEF form
<1>1. ASSUME calls[s].op # "poll", NEW result \in {"ok", "failed"}, NEW copy,
             Answer(s, result, copy), UNCHANGED ride,
             calls[s].op \in {"create", "cancel"} => result = "failed"
      PROVE  Quiet'
  <2>1. Waiting' = Waiting
    BY <1>1 DEF Waiting, View!Current
  <2>2. /\ Only(s)
        /\ calls'[s].op = calls[s].op /\ calls'[s].id = calls[s].id
        /\ calls'[s].result = result
    BY <1>1, AnswerFacts DEF Quiet
  <2>3. NothingOver'
    BY <1>1, <2>2 DEF Quiet, NothingOver, Only
  <2>4. BookingsApart'
    BY <1>0, <1>1, <2>1, <2>2 DEF Quiet, BookingsApart, Booking, Pending, Only
  <2>5. WaitingShown'
    BY <2>1, <2>2 DEF Quiet, WaitingShown, Booked, Only
  <2>6. CancelsApart'
    BY <1>1, <2>1, <2>2 DEF Quiet, CancelsApart, Cancelling, Cancelled, Pending, Only
  <2>7. QED
    BY <2>3, <2>4, <2>5, <2>6 DEF Quiet
<1>2. CASE ServeOther(s)
  BY <1>1, <1>2 DEF ServeOther
<1>3. CASE ServeRate(s)
  BY <1>3 DEF ServeRate, Quiet, NothingOver
<1>4. CASE ServeCancel(s)
  <2>1. CASE ride[calls[s].id].status \in {"completed", "cancelled"}
    BY <1>1, <1>4, <2>1 DEF ServeCancel
  <2>2. CASE ride[calls[s].id].status \notin {"completed", "cancelled"}
    <3>1. PICK r \in Rides : r = calls[s].id
      BY <1>4 DEF ServeCancel, Inv, CallsOK, SlotOK
    <3>2. ride' = [ride EXCEPT ![r].status = "cancelled"] /\ Answer(s, "ok", NULL)
      BY <1>4, <2>2, <3>1 DEF ServeCancel, View!Cancel
    <3>3. ride'[r].status = "cancelled" /\ \A q \in Rides : q # r => ride'[q] = ride[q]
      BY <3>2 DEF Inv, View!TableOK, View!Row
    <3>4. Cancelling(s) /\ ride[r].status # "none" /\ ride[r].status \in View!Statuses
      BY <1>4, <3>1 DEF ServeCancel, Cancelling, Quiet, CancelsApart, Inv, View!TableOK, View!Row
    <3>5. r \in Waiting
      BY <2>2, <3>1, <3>4 DEF Owned, Waiting, View!Current, View!RiderActive, View!DriverActive,
         View!Statuses
    <3>6. Waiting = {r} /\ activeRide # NULL
      BY <3>1, <3>4, <3>5 DEF Quiet, BookingsApart, CancelsApart
    <3>7. Waiting' = {}
      BY <3>3, <3>6 DEF Waiting, View!Current, View!RiderActive, View!DriverActive
    <3>8. /\ Only(s)
          /\ calls'[s].op = "cancel" /\ calls'[s].id = r /\ calls'[s].result = "ok"
      BY <1>4, <3>1, <3>2, AnswerFacts DEF Quiet, ServeCancel
    <3>9. \A t \in Slots : ~Cancelled(t) /\ ~Pending(t)
      BY <3>6 DEF Quiet, BookingsApart, CancelsApart
    <3>10. NothingOver'
      BY <3>8 DEF Quiet, NothingOver, Only
    <3>11. BookingsApart'
      BY <1>0, <3>7, <3>8 DEF Quiet, BookingsApart, Booking, Pending, Only
    <3>12. WaitingShown'
      BY <3>7 DEF WaitingShown
    <3>13. CancelsApart'
      <4>1. \A t \in Slots : Cancelling(t)' => ride'[calls'[t].id].status # "none"
        BY <3>3, <3>8 DEF Quiet, CancelsApart, Cancelling, Only, Inv, CallsOK, SlotOK
      <4>2. QED
        BY <3>6, <3>7, <3>8, <3>9, <4>1 DEF CancelsApart, Cancelling, Cancelled, Pending, Only
    <3>14. QED
      BY <3>10, <3>11, <3>12, <3>13 DEF Quiet
  <2>3. QED
    BY <2>1, <2>2
<1>5. QED
  BY <1>2, <1>3, <1>4

LEMMA DriverSideQuiet ==
    ASSUME Inv, Quiet, DriverSide
    PROVE  Quiet'
<1>1. PICK r \in Rides : \/ \E p \in Profiles, c \in Codes : View!Assign(r, p, c)
                         \/ View!Start(r)
                         \/ View!Complete(r)
  BY DEF DriverSide
<1>2. /\ \A q \in Rides : ride'[q].status # "none" <=> ride[q].status # "none"
      /\ Waiting' \subseteq Waiting
  <2>0. ride \in [Rides -> View!Row]
    BY DEF Inv, View!TableOK
  <2>1. \A q \in Rides : q # r => ride'[q] = ride[q]
    BY <1>1, <2>0 DEF View!Assign, View!Start, View!Complete
  <2>2. /\ ride[r].status \in {"requested", "accepted", "driver_arrived", "in_progress"}
        /\ ride'[r].status \in {"accepted", "in_progress", "completed"}
        /\ ride'[r].owner = ride[r].owner
    <3>1. CASE \E p \in Profiles, c \in Codes : View!Assign(r, p, c)
      BY <2>0, <3>1 DEF View!Assign, View!Row
    <3>2. CASE View!Start(r) \/ View!Complete(r)
      BY <2>0, <3>2 DEF View!Start, View!Complete, View!Row
    <3>3. QED
      BY <1>1, <3>1, <3>2
  <2>3. QED
    BY <2>1, <2>2 DEF Waiting, View!Current, View!RiderActive, View!DriverActive
<1>3. UNCHANGED <<calls, activeRide, step, loading>>
  BY DEF DriverSide, form
<1>4. QED
  BY <1>2, <1>3 DEF Quiet, NothingOver, BookingsApart, WaitingShown, CancelsApart, Booking,
     Pending, Booked, Cancelling, Cancelled, Inv, CallsOK, SlotOK

LEMMA EndsFacts ==
    ASSUME Inv, NEW s \in Slots, Ends(s)
    PROVE  Only(s) /\ calls'[s] = NULL
BY DEF Ends, Only, Inv, CallsOK

LEMMA GoesOnFacts ==
    ASSUME Inv, NEW s \in Slots, NEW op \in {"approach", "order"}, NEW copy,
           GoesOn(s, op, copy)
    PROVE  /\ Only(s)
           /\ calls'[s].op = op /\ calls'[s].result = "pending"
<1>1. PICK d : d = [Request(op, calls[s].id) EXCEPT !.copy = copy]
  OBVIOUS
<1>2. d.op = op /\ d.result = "pending"
  BY <1>1 DEF Request
<1>3. calls' = [calls EXCEPT ![s] = d]
  BY <1>1 DEF GoesOn, Inv, CallsOK
<1>4. QED
  BY <1>2, <1>3 DEF Only, Inv, CallsOK

\* An answer that takes no ride off the screen and is not a booking's.
LEMMA AnswerQuiet ==
    ASSUME Inv, Quiet, NEW s \in Slots, calls[s] # NULL, ~Booking(s), Only(s),
           \/ calls'[s] = NULL
           \/ calls'[s].op = "approach" /\ calls'[s].result = "pending",
           UNCHANGED <<ride, loading>>,
           activeRide' # NULL => step' \in RideSteps \ {"RIDE_COMPLETE"},
           activeRide # NULL => activeRide' # NULL
    PROVE  Quiet'
<1>1. Waiting' = Waiting
  BY DEF Waiting, View!Current
<1>2. NothingOver'
  BY DEF Quiet, NothingOver, Only
<1>3. BookingsApart'
  BY <1>1 DEF Quiet, BookingsApart, Booking, Pending, Only
<1>4. WaitingShown'
  BY <1>1 DEF Quiet, WaitingShown, Booked, Booking, Only
<1>5. CancelsApart'
  BY <1>1 DEF Quiet, CancelsApart, Cancelling, Cancelled, Pending, Only
<1>6. QED
  BY <1>2, <1>3, <1>4, <1>5 DEF Quiet

\* The answers that end a booking, or its payment order.
LEMMA BookingQuiet ==
    ASSUME Inv, Quiet, NEW s \in Slots, Booking(s), Only(s),
           \/ calls'[s] = NULL /\ ~Booked(s) /\ UNCHANGED <<activeRide, step>>
           \/ /\ calls'[s].op = "order" /\ calls'[s].result = "pending"
              /\ loading' = loading /\ activeRide' # NULL /\ step' = "SEARCHING_DRIVER",
           UNCHANGED ride
    PROVE  Quiet'
<1>1. Waiting' = Waiting
  BY DEF Waiting, View!Current
<1>2. NothingOver'
  BY DEF Quiet, NothingOver, Only, RideSteps
<1>3. BookingsApart'
  BY <1>1 DEF Quiet, BookingsApart, Booking, Pending, Only
<1>4. WaitingShown'
  BY <1>1 DEF Quiet, WaitingShown, Booked, Booking, Only
<1>5. CancelsApart'
  BY <1>1 DEF Quiet, CancelsApart, Cancelling, Cancelled, Pending, Only, Booking
<1>6. QED
  BY <1>2, <1>3, <1>4, <1>5 DEF Quiet

LEMMA CancelAnswerQuiet ==
    ASSUME Inv, Quiet, NEW s \in Slots, Cancelled(s), CancelAnswer(s), UNCHANGED ride
    PROVE  Quiet' /\ Waiting' = {}
<1>1. Waiting' = Waiting /\ Waiting = {}
  BY DEF Waiting, View!Current, Quiet, CancelsApart
<1>2. Only(s) /\ calls'[s] = NULL
  BY EndsFacts DEF CancelAnswer
<1>3. activeRide' = NULL /\ loading' = loading
  BY DEF CancelAnswer, ResetFlow
<1>4. NothingOver'
  BY <1>2, <1>3 DEF Quiet, NothingOver, Only
<1>5. BookingsApart'
  BY <1>1, <1>2, <1>3 DEF Quiet, BookingsApart, Booking, Pending, Only
<1>6. WaitingShown'
  BY <1>1 DEF WaitingShown
<1>7. CancelsApart'
  BY <1>1, <1>2 DEF Quiet, CancelsApart, Cancelling, Cancelled, Pending, Only
<1>8. QED
  BY <1>1, <1>4, <1>5, <1>6, <1>7 DEF Quiet

\* Every answer keeps quiet, and only that to a cancellation, when nothing
\* waits any more, takes a ride off the screen.
LEMMA ApplyQuiet ==
    ASSUME Inv, Quiet, NEW s \in Slots, Apply(s)
    PROVE  Quiet' /\ (activeRide # NULL /\ activeRide' = NULL => Waiting' = {})
<1>0. calls[s] # NULL /\ UNCHANGED ride
  BY DEF Apply
<1>1. CASE calls[s].result = "ok" /\ PollAnswer(s)
  <2>1. PICK copy : copy = calls[s].copy
    OBVIOUS
  <2>2. copy \in View!Copy /\ copy.row.status \in View!RiderActive
    BY <1>0, <1>1, <2>1, NullAssumption DEF PollAnswer, Inv, CallsOK, SlotOK, Quiet, NothingOver
  <2>3. activeRide' = copy /\ step' = StepOf(copy.row.status) /\ loading' = loading
    BY <1>1, <2>1 DEF PollAnswer, form
  <2>4. activeRide' # NULL /\ step' \in RideSteps \ {"RIDE_COMPLETE"}
    BY <2>2, <2>3, NullAssumption DEF RideSteps, StepOf, View!RiderActive, View!DriverActive
  <2>5. Only(s) /\ (\/ calls'[s] = NULL
                    \/ calls'[s].op = "approach" /\ calls'[s].result = "pending")
    BY <1>1, EndsFacts, GoesOnFacts DEF PollAnswer
  <2>6. QED
    BY <1>0, <1>1, <2>3, <2>4, <2>5, AnswerQuiet DEF PollAnswer, Booking
<1>2. CASE calls[s].result = "ok" /\ ApproachAnswer(s)
  BY <1>0, <1>2, EndsFacts, AnswerQuiet DEF ApproachAnswer, Booking, Quiet, NothingOver
<1>3. CASE calls[s].result = "ok" /\ CreateAnswer(s)
  <2>1. activeRide' # NULL
    BY <1>0, <1>3, NullAssumption DEF CreateAnswer, Inv, CallsOK, SlotOK
  <2>2. QED
    BY <1>0, <1>3, <2>1, GoesOnFacts, BookingQuiet DEF CreateAnswer, Booking, form
<1>4. CASE calls[s].result = "ok" /\ CancelAnswer(s)
  BY <1>0, <1>4, CancelAnswerQuiet DEF CancelAnswer, Cancelled, Cancelling
<1>5. CASE RateAnswer(s) \/ CashAnswer(s)
  BY <1>0, <1>5 DEF RateAnswer, CashAnswer, Quiet, NothingOver
<1>6. CASE OrderAnswer(s)
  BY <1>0, <1>6, EndsFacts, BookingQuiet DEF OrderAnswer, Booking, Booked
<1>7. CASE calls[s].result = "failed" /\ Error(s)
  <2>1. CASE calls[s].op = "create"
    BY <1>0, <1>7, <2>1, EndsFacts, BookingQuiet DEF Error, Booking, Booked
  <2>2. CASE calls[s].op # "create"
    <3>1. loading' = loading
      BY <1>7, <2>2, Zenon DEF Error, Inv, FieldsOK, FormOK
    <3>2. QED
      BY <1>0, <1>7, <2>2, <3>1, EndsFacts, AnswerQuiet DEF Error, Booking, Quiet, NothingOver
  <2>3. QED
    BY <2>1, <2>2
<1>8. QED
  BY <1>1, <1>2, <1>3, <1>4, <1>5, <1>6, <1>7 DEF Apply

LEMMA StaysOwned ==
    ASSUME Inv, Owned, Next
    PROVE  Owned'
<1> USE DEF Inv
<1>1. CASE UNCHANGED ride
  BY <1>1 DEF Owned
<1>2. CASE DriverSide
  <2>1. PICK r \in Rides : \/ \E p \in Profiles, c \in Codes : View!Assign(r, p, c)
                           \/ View!Start(r)
                           \/ View!Complete(r)
    BY <1>2 DEF DriverSide
  <2>2. CASE \E p \in Profiles, c \in Codes : View!Assign(r, p, c)
    BY <2>2 DEF Owned, View!Assign, View!TableOK, View!Row
  <2>3. CASE View!Start(r) \/ View!Complete(r)
    BY <2>3 DEF Owned, View!Start, View!Complete, View!TableOK, View!Row
  <2>4. QED
    BY <2>1, <2>2, <2>3
<1>3. ASSUME NEW s \in Slots, Serve(s) PROVE Owned'
  <2>1. CASE ServeCreate(s)
    <3>1. ASSUME NEW r \in Rides, View!Request(Rider, r) PROVE Owned'
      BY <3>1 DEF View!Request, View!NoRow, View!TableOK, Owned
    <3>2. QED
      BY <1>1, <2>1, <3>1 DEF ServeCreate, Oldest, Unused
  <2>2. CASE ServeCancel(s)
    <3>1. ASSUME NEW r \in Rides, View!Cancel(r) PROVE Owned'
      BY <3>1 DEF View!Cancel, View!TableOK, View!Row, Owned
    <3>2. QED
      BY <1>1, <1>3, <2>2, <3>1 DEF ServeCancel, Serve, CallsOK, SlotOK
  <2>3. QED
    BY <1>1, <1>3, <2>1, <2>2 DEF Serve, ServePoll, ServeRate, ServeOther
<1>4. QED
  BY <1>1, <1>2, <1>3 DEF Next, GetCurrentPosition, HandleDropoffSelect, TimerFires,
     Back, SelectVehicle, HandleRequestRide, HandleCancelRide, SubmitRating, Skip,
     FetchActive, Remount, Lose, Apply

LEMMA QuietInit == Init => QInv
<1> SUFFICES ASSUME Init PROVE QInv
  OBVIOUS
<1>1. \A r \in Rides : ride[r].status = "none"
  BY DEF Init, View!Init, View!NoRow
<1>2. Owned /\ Waiting = {}
  BY <1>1 DEF Owned, Waiting, View!Current, View!RiderActive, View!DriverActive
<1>3. QED
  BY <1>2 DEF QInv, Init, Quiet, NothingOver, BookingsApart, WaitingShown, CancelsApart,
     Booking, Pending, Cancelling, Cancelled

\* One step of a page that is still undisturbed after it.
LEMMA QuietStep ==
    ASSUME Inv, QInv, Next, Undisturbed'
    PROVE  Quiet' /\ (activeRide # NULL /\ activeRide' = NULL => Waiting' = {})
<1>1. Undisturbed /\ Quiet /\ Owned
  BY CalmBefore DEF QInv
<1>2. CASE \/ GetCurrentPosition \/ HandleDropoffSelect \/ TimerFires
           \/ Back \/ SelectVehicle \/ HandleRequestRide
           \/ HandleCancelRide \/ SubmitRating \/ Skip \/ FetchActive
  BY <1>1, <1>2, PageStaysQuiet
<1>3. CASE DriverSide
  BY <1>1, <1>3, DriverSideQuiet DEF DriverSide
<1>4. ASSUME NEW s \in Slots, Serve(s) PROVE Quiet' /\ UNCHANGED activeRide
  <2>1. calls[s] # NULL /\ calls[s].result = "pending"
    BY <1>1, <1>4 DEF Serve, Quiet, NothingOver
  <2>2. QED
    BY <1>1, <1>4, <2>1, ServePollQuiet, ServeCreateQuiet, ServeOtherQuiet DEF Serve
<1>5. ASSUME NEW s \in Slots, Apply(s)
      PROVE  Quiet' /\ (activeRide # NULL /\ activeRide' = NULL => Waiting' = {})
  BY <1>1, <1>5, ApplyQuiet
<1>6. ~Remount /\ \A s \in Slots : ~Lose(s)
  BY <1>1, BoundAssumption DEF Undisturbed, Remount, Lose, Inv, FieldsOK
<1>7. QED
  BY <1>2, <1>3, <1>4, <1>5, <1>6 DEF Next

LEMMA QuietStutter ==
    ASSUME QInv, UNCHANGED vars
    PROVE  QInv'
BY DEF vars, QInv, Owned, Undisturbed, Done, Quiet, NothingOver, BookingsApart, WaitingShown,
   CancelsApart, Booking, Pending, Booked, Cancelling, Cancelled, Waiting, View!Current

LEMMA QuietInvariance == Spec => []QInv
<1>1. Inv /\ QInv /\ [Next]_vars => QInv'
  BY QuietStep, QuietStutter, StaysOwned DEF QInv
<1>2. QED
  BY <1>1, QuietInit, Invariance, PTL DEF Spec

\* An undisturbed page never has two rides waiting.  The argument: a ride that
\* waits is on the screen or its booking is not answered yet, and both keep
\* the Book button away; a cancellation that goes through was of the only
\* ride that waited.
THEOREM NeverTwoBookings == Spec => []OneRideAtATime
<1>1. QInv => OneRideAtATime
  <2> SUFFICES ASSUME QInv, Undisturbed PROVE Cardinality(Waiting) <= 1
    BY DEF OneRideAtATime
  <2>1. \A q, r \in Waiting : q = r
    BY DEF QInv, Quiet, BookingsApart
  <2>2. CASE Waiting = {}
    BY <2>2, FS_EmptySet
  <2>3. CASE Waiting # {}
    <3>1. PICK r : Waiting = {r}
      BY <2>1, <2>3
    <3>2. Cardinality({r}) = 1
      BY FS_Singleton, Zenon
    <3>3. QED
      BY <3>1, <3>2
  <2>4. QED
    BY <2>2, <2>3
<1>2. QED
  BY <1>1, QuietInvariance, PTL

\* An undisturbed page never forgets a ride that waits or is under way.
THEOREM OpenRideKept == Spec => KeptWhileOpen
<1>1. Inv /\ QInv /\ [Next]_vars =>
          [Undisturbed' /\ activeRide # NULL /\ activeRide.id \in Waiting' =>
              activeRide' # NULL]_vars
  BY QuietStep
<1>2. QED
  BY <1>1, QuietInvariance, Invariance, PTL DEF Spec, KeptWhileOpen

-----------------------------------------------------------------------------
(* What ScreenCatchesUp rests on.  That the screen catches up follows, given *)
(* fairness, from what is proved here: while the table rests, any poll that  *)
(* is under way gets the screen up to date.                                  *)

\* A poll that is not served yet, or whose answer is the row there is.
Asking(s) ==
    /\ calls[s] # NULL /\ calls[s].op = "poll"
    /\ \/ calls[s].result = "pending"
       \/ calls[s].result = "ok" /\ \E r \in Newest(Waiting) : calls[s].copy = View!CopyOf(r)

\* It goes on until the screen shows the newest open ride as it is.
PollsCatchUp ==
    [][\A s \in Slots : Asking(s) /\ Waiting # {} /\ UNCHANGED <<ride, mishaps>> =>
           Asking(s)' \/ ScreenIsCurrent']_vars

\* A step that leaves the slot alone.
LEMMA AskingRests ==
    ASSUME NEW s \in Slots, Asking(s), UNCHANGED ride, calls'[s] = calls[s]
    PROVE  Asking(s)'
<1>1. Newest(Waiting)' = Newest(Waiting) /\ \A r \in Rides : View!CopyOf(r)' = View!CopyOf(r)
  BY DEF Newest, Waiting, View!Current, View!CopyOf
<1>2. Newest(Waiting) \subseteq Rides
  BY DEF Newest, Waiting, View!Current
<1>3. QED
  BY <1>1, <1>2 DEF Asking

\* A step that gives a slot other contents and leaves the others alone.
LEMMA OthersRest ==
    ASSUME CallsOK, NEW s \in Slots, NEW t \in Slots, s # t,
           \/ \E d : calls' = [calls EXCEPT ![t] = d]
           \/ UNCHANGED calls
    PROVE  calls'[s] = calls[s]
BY DEF CallsOK

\* The backend answers with the newest open ride.
LEMMA PollIsFresh ==
    ASSUME View!TableOK, CallsOK, NEW s \in Slots, Asking(s), Waiting # {}, Serve(s)
    PROVE  Asking(s)'
<1>1. calls[s] \in Call /\ calls[s].op = "poll" /\ calls[s].result = "pending"
  BY DEF Asking, Serve, CallsOK
<1>2. PICK r \in Newest(Waiting) : Answer(s, "ok", View!CopyOf(r)) /\ UNCHANGED ride
  BY <1>1 DEF Serve, ServePoll, ServeCreate, ServeCancel, ServeRate, ServeOther
<1>3. PICK d : d = [calls[s] EXCEPT !.result = "ok", !.copy = View!CopyOf(r)]
  OBVIOUS
<1>4. d.op = "poll" /\ d.result = "ok" /\ d.copy = View!CopyOf(r)
  BY <1>1, <1>3 DEF Call
<1>5. d \in Call
  <2>1. r \in Rides
    BY DEF Newest, Waiting, View!Current
  <2>2. View!CopyOf(r) \in View!Copy
    BY <2>1 DEF View!TableOK, View!CopyOf, View!Copy
  <2>3. QED
    BY <1>1, <1>3, <2>2 DEF Call
<1>6. calls'[s] = d
  BY <1>1, <1>2, <1>3 DEF Answer, CallsOK
<1>7. View!CopyOf(r)' = View!CopyOf(r) /\ Newest(Waiting)' = Newest(Waiting)
  BY <1>2 DEF View!CopyOf, Newest, Waiting, View!Current
<1>8. QED
  BY <1>4, <1>5, <1>6, <1>7, NullAssumption DEF Asking

\* The page takes over ride and panel together.
LEMMA FreshAnswerShows ==
    ASSUME CallsOK, NEW s \in Slots, Asking(s), Apply(s)
    PROVE  ScreenIsCurrent'
<1>1. calls[s].op = "poll" /\ calls[s].result = "ok" /\ UNCHANGED ride
  BY DEF Asking, Apply, OrderAnswer, CashAnswer
<1>2. PICK r \in Newest(Waiting) : calls[s].copy = View!CopyOf(r)
  BY <1>1 DEF Asking
<1>3. PollAnswer(s)
  BY <1>1 DEF Apply, ApproachAnswer, CreateAnswer, CancelAnswer, RateAnswer, OrderAnswer,
     CashAnswer
<1>4. activeRide' = calls[s].copy /\ step' = StepOf(calls[s].copy.row.status)
  BY <1>3 DEF PollAnswer
<1>5. calls[s].copy.id = r /\ calls[s].copy.row = ride[r] /\ calls[s].copy # NULL
  BY <1>1, <1>2, NullAssumption DEF View!CopyOf, CallsOK, SlotOK, Asking
<1>6. Newest(Waiting)' = {r}
  <2>1. Newest(Waiting)' = Newest(Waiting)
    BY <1>1 DEF Newest, Waiting, View!Current
  <2>2. Waiting \subseteq Int
    BY DEF Waiting, View!Current, Rides
  <2>3. ASSUME NEW q \in Newest(Waiting) PROVE q = r
    <3>1. q <= r /\ r <= q /\ q \in Int /\ r \in Int
      BY <1>2, <2>2 DEF Newest
    <3>2. QED
      BY <3>1
  <2>4. QED
    BY <1>2, <2>1, <2>3
<1>7. QED
  BY <1>1, <1>4, <1>5, <1>6 DEF ScreenIsCurrent

\* No answer of another age and nothing the rider does keeps a poll from
\* getting the screen up to date (UserHome.jsx:142-190).
THEOREM PollsShowTheRide == Spec => PollsCatchUp
<1>1. ASSUME Inv, Next, NEW s \in Slots, Asking(s), Waiting # {}, UNCHANGED <<ride, mishaps>>
      PROVE  Asking(s)' \/ ScreenIsCurrent'
  <2>0. View!TableOK /\ CallsOK /\ mishaps \in Nat
    BY <1>1, BoundAssumption DEF Inv, FieldsOK
  <2>1. CASE \/ GetCurrentPosition \/ HandleDropoffSelect \/ TimerFires \/ Back \/ SelectVehicle
             \/ HandleRequestRide \/ HandleCancelRide \/ SubmitRating \/ Skip \/ FetchActive
             \/ DriverSide
    <3>1. UNCHANGED calls \/ \E op, id : Send(op, id)
      BY <2>1 DEF GetCurrentPosition, HandleDropoffSelect, TimerFires, Back, SelectVehicle,
         HandleRequestRide, HandleCancelRide, SubmitRating, Skip, FetchActive, DriverSide
    <3>2. calls'[s] = calls[s]
      <4>1. ASSUME NEW op, NEW id, Send(op, id) PROVE calls'[s] = calls[s]
        <5>1. PICK t \in Free : calls' = [calls EXCEPT ![t] = Request(op, id)]
          BY <4>1 DEF Send
        <5>2. t \in Slots /\ s # t
          BY <1>1, <5>1 DEF Free, Asking
        <5>3. QED
          BY <2>0, <5>1, <5>2, OthersRest
      <4>2. QED
        BY <3>1, <4>1
    <3>3. QED
      BY <1>1, <3>2, AskingRests
  <2>2. ~Remount /\ \A t \in Slots : ~Lose(t)
    BY <1>1, <2>0 DEF Remount, Lose
  <2>3. ASSUME NEW t \in Slots, Serve(t) \/ Apply(t)
        PROVE  Asking(s)' \/ ScreenIsCurrent'
    <3>1. CASE t = s
      BY <1>1, <2>0, <2>3, <3>1, PollIsFresh, FreshAnswerShows
    <3>2. CASE t # s
      <4>1. \E d : calls' = [calls EXCEPT ![t] = d]
        BY <2>3, Zenon DEF Serve, ServePoll, ServeCreate, ServeCancel, ServeRate, ServeOther,
           Answer, Apply, PollAnswer, ApproachAnswer, CreateAnswer, CancelAnswer, RateAnswer,
           OrderAnswer, CashAnswer, Error, Ends, GoesOn
      <4>2. calls'[s] = calls[s]
        BY <2>0, <3>2, <4>1, OthersRest
      <4>3. QED
        BY <1>1, <4>2, AskingRests
    <3>3. QED
      BY <3>1, <3>2
  <2>4. QED
    BY <1>1, <2>1, <2>2, <2>3 DEF Next
<1>2. Inv /\ [Next]_vars =>
          [\A s \in Slots : Asking(s) /\ Waiting # {} /\ UNCHANGED <<ride, mishaps>> =>
               Asking(s)' \/ ScreenIsCurrent']_vars
  BY <1>1
<1>3. QED
  BY <1>2, Invariance, PTL DEF Spec, PollsCatchUp
-----------------------------------------------------------------------------
(* The finding of RiderCompletion, for every instance: with the query as it  *)
(* is, which returns no completed ride (repository/ride.go:219-232), the     *)
(* rider never gets to rate or to pay.                                       *)

NobodyRatesOrPays ==
    /\ step # "RIDE_COMPLETE"
    /\ \A s \in Slots : calls[s] # NULL => calls[s].op \notin {"rate", "cash"}

\* No answer under way is about a completed ride, and nothing is being paid.
Unfinished(c) == c # NULL =>
    /\ c.op \notin {"rate", "cash"}
    /\ c.op = "poll" /\ c.result = "ok" => c.copy.row.status # "completed"

NoneFinished == step # "RIDE_COMPLETE" /\ \A s \in Slots : Unfinished(calls[s])

\* A slot gets contents that are sound; the others keep theirs.
LEMMA UnfinishedSet ==
    ASSUME CallsOK, NoneFinished, NEW s \in Slots, NEW d, Unfinished(d),
           calls' = [calls EXCEPT ![s] = d], step' # "RIDE_COMPLETE"
    PROVE  NoneFinished'
<1>1. ASSUME NEW t \in Slots PROVE Unfinished(calls[t])'
  <2>1. CASE t = s
    <3>1. calls'[t] = d
      BY <2>1 DEF CallsOK
    <3>2. QED
      BY <3>1 DEF Unfinished
  <2>2. CASE t # s
    <3>1. calls'[t] = calls[t] /\ Unfinished(calls[t])
      BY <2>2 DEF CallsOK, NoneFinished
    <3>2. QED
      BY <3>1 DEF Unfinished
  <2>3. QED
    BY <2>1, <2>2
<1>2. QED
  BY <1>1 DEF NoneFinished

\* The steps of the page itself.  The panel that rates and skips is not shown.
LEMMA PageUnfinished ==
    ASSUME CallsOK, NoneFinished,
           \/ GetCurrentPosition \/ HandleDropoffSelect \/ TimerFires \/ Back \/ SelectVehicle
           \/ HandleRequestRide \/ HandleCancelRide \/ SubmitRating \/ Skip \/ FetchActive
           \/ DriverSide
    PROVE  NoneFinished'
<1>1. ~SubmitRating /\ ~Skip
  BY DEF NoneFinished, SubmitRating, Skip, CompletePanel
<1>2. step' # "RIDE_COMPLETE"
  BY <1>1 DEF NoneFinished, GetCurrentPosition, HandleDropoffSelect, TimerFires, Back, SelectVehicle,
     HandleRequestRide, HandleCancelRide, FetchActive, DriverSide
<1>3. UNCHANGED calls \/ \E op \in {"poll", "create", "cancel"} : \E id : Send(op, id)
  BY <1>1 DEF GetCurrentPosition, HandleDropoffSelect, TimerFires, Back, SelectVehicle,
     HandleRequestRide, HandleCancelRide, FetchActive, DriverSide
<1>4. CASE UNCHANGED calls
  BY <1>2, <1>4 DEF NoneFinished, Unfinished
<1>5. ASSUME NEW op \in {"poll", "create", "cancel"}, NEW id, Send(op, id)
      PROVE  NoneFinished'
  <2>1. PICK s \in Slots : calls' = [calls EXCEPT ![s] = Request(op, id)]
    BY <1>5 DEF Send, Free
  <2>2. Unfinished(Request(op, id))
    BY DEF Request, Unfinished
  <2>3. QED
    BY <1>2, <2>1, <2>2, UnfinishedSet
<1>6. QED
  BY <1>3, <1>4, <1>5

\* The backend answers a poll with a ride that is open.
LEMMA ServeUnfinished ==
    ASSUME ~CompletedReported, CallsOK, NoneFinished, NEW s \in Slots, Serve(s)
    PROVE  NoneFinished'
<1>1. calls[s] \in Call /\ calls[s] # NULL /\ step' # "RIDE_COMPLETE" /\ Unfinished(calls[s])
  BY DEF Serve, CallsOK, NoneFinished
<1>2. PICK result, copy :
          /\ Answer(s, result, copy)
          /\ calls[s].op = "poll" /\ result = "ok" => copy.row.status # "completed"
  <2>1. CASE ServePoll(s)
    <3>1. ASSUME NEW r \in Newest(Waiting) PROVE View!CopyOf(r).row.status # "completed"
      BY DEF Newest, Waiting, View!Current, View!RiderActive, View!DriverActive, View!CopyOf
    <3>2. QED
      BY <2>1, <3>1 DEF ServePoll
  <2>2. CASE ServeCreate(s) \/ ServeCancel(s) \/ ServeRate(s) \/ ServeOther(s)
    <3>1. calls[s].op # "poll" /\ \E result, copy : Answer(s, result, copy)
      BY <2>2, Zenon DEF ServeCreate, ServeCancel, ServeRate, ServeOther
    <3>2. QED
      BY <3>1
  <2>3. QED
    BY <2>1, <2>2 DEF Serve
<1>3. PICK d : d = IF calls[s].result = "orphan" THEN NULL
                   ELSE [calls[s] EXCEPT !.result = result, !.copy = copy]
  OBVIOUS
<1>4. calls' = [calls EXCEPT ![s] = d]
  BY <1>2, <1>3 DEF Answer, CallsOK
<1>5. d # NULL => d.op = calls[s].op /\ d.result = result /\ d.copy = copy
  BY <1>1, <1>3 DEF Call
<1>6. Unfinished(d)
  BY <1>1, <1>2, <1>5 DEF Unfinished
<1>7. QED
  BY <1>1, <1>4, <1>6, UnfinishedSet

\* What the page does with an answer.
LEMMA ApplyUnfinished ==
    ASSUME CallsOK, NoneFinished, NEW s \in Slots, Apply(s)
    PROVE  NoneFinished'
<1>1. /\ calls[s] \in Call /\ calls[s] # NULL /\ Unfinished(calls[s]) /\ SlotOK(calls[s])
      /\ step # "RIDE_COMPLETE"
  BY DEF Apply, CallsOK, NoneFinished
<1>2. step' # "RIDE_COMPLETE"
  <2>1. ASSUME PollAnswer(s), calls[s].result = "ok" PROVE step' # "RIDE_COMPLETE"
    <3>1. /\ step' = StepOf(calls[s].copy.row.status)
          /\ calls[s].copy.row.status \in View!RiderActive
      BY <1>1, <2>1 DEF PollAnswer, Unfinished, SlotOK
    <3>2. QED
      BY <3>1 DEF StepOf, View!RiderActive, View!DriverActive
  <2>2. ~PollAnswer(s) => step' \in {step, "SEARCHING_DRIVER", "LOCATION_INPUT"}
    BY DEF Apply, ApproachAnswer, CreateAnswer, CancelAnswer, RateAnswer, OrderAnswer, CashAnswer,
       Error, ResetFlow
  <2>3. PollAnswer(s) => calls[s].result = "ok" \/ step' = step
    BY DEF Apply, PollAnswer, OrderAnswer, CashAnswer, Error
  <2>4. QED
    BY <1>1, <2>1, <2>2, <2>3
<1>3. Ends(s) \/ \E op \in {"approach", "order"} : \E copy : GoesOn(s, op, copy)
  <2>1. ~RateAnswer(s)
    BY <1>1 DEF RateAnswer, Unfinished
  <2>2. QED
    BY <2>1 DEF Apply, PollAnswer, ApproachAnswer, CreateAnswer, CancelAnswer, OrderAnswer,
       CashAnswer, Error
<1>4. CASE Ends(s)
  <2>1. Unfinished(NULL)
    BY DEF Unfinished
  <2>2. QED
    BY <1>2, <1>4, <2>1, UnfinishedSet DEF Ends
<1>5. ASSUME NEW op \in {"approach", "order"}, NEW copy, GoesOn(s, op, copy)
      PROVE  NoneFinished'
  <2>1. PICK d : d = [Request(op, calls[s].id) EXCEPT !.copy = copy]
    OBVIOUS
  <2>2. calls' = [calls EXCEPT ![s] = d] /\ Unfinished(d)
    BY <1>5, <2>1 DEF GoesOn, CallsOK, Request, Unfinished
  <2>3. QED
    BY <1>2, <2>2, UnfinishedSet
<1>6. QED
  BY <1>3, <1>4, <1>5

LEMMA MishapUnfinished ==
    ASSUME CallsOK, NoneFinished, Remount \/ \E s \in Slots : Lose(s)
    PROVE  NoneFinished'
<1>1. ASSUME NEW s \in Slots, Lose(s) PROVE NoneFinished'
  <2>1. calls[s] \in Call /\ Unfinished(calls[s]) /\ step' # "RIDE_COMPLETE"
    BY <1>1 DEF Lose, CallsOK, NoneFinished
  <2>2. PICK d : d = [calls[s] EXCEPT !.result = "failed", !.copy = NULL]
    OBVIOUS
  <2>3. Unfinished(d)
    BY <1>1, <2>1, <2>2 DEF Lose, Call, Unfinished
  <2>4. calls' = [calls EXCEPT ![s] = d]
    BY <1>1, <2>1, <2>2 DEF Lose, CallsOK, Call
  <2>5. QED
    BY <2>1, <2>3, <2>4, UnfinishedSet
<1>2. CASE Remount
  <2>1. step' # "RIDE_COMPLETE"
    BY <1>2 DEF Remount, ResetFlow
  <2>2. ASSUME NEW s \in Slots PROVE Unfinished(calls[s])'
    <3>1. CASE calls'[s] = NULL
      BY <3>1 DEF Unfinished
    <3>2. CASE calls'[s] # NULL
      <4>1. PICK c : c = calls[s] /\ c \in Call /\ Unfinished(c) /\ c # NULL
        BY <1>2, <3>2 DEF Remount, CallsOK, NoneFinished
      <4>2. PICK d : d = [c EXCEPT !.result = "orphan"]
        OBVIOUS
      <4>3. calls'[s] = d
        BY <1>2, <3>2, <4>1, <4>2 DEF Remount
      <4>4. QED
        BY <4>1, <4>2, <4>3 DEF Call, Unfinished
    <3>3. QED
      BY <3>1, <3>2
  <2>3. QED
    BY <2>1, <2>2 DEF NoneFinished
<1>3. QED
  BY <1>1, <1>2

\* However many rides, requests in flight, lost answers and reloads there are,
\* the panel that rates and pays a ride is never shown and no rating and no cash
\* payment is ever sent (UserHome.jsx:180, 245-257).
THEOREM CompletionNeverShown == ~CompletedReported => (Spec => []NobodyRatesOrPays)
<1> SUFFICES ASSUME ~CompletedReported PROVE Spec => []NobodyRatesOrPays
  OBVIOUS
<1>1. Init => NoneFinished
  BY DEF Init, NoneFinished, Unfinished
<1>2. Inv /\ NoneFinished /\ [Next]_vars => NoneFinished'
  <2> SUFFICES ASSUME Inv, NoneFinished, [Next]_vars PROVE NoneFinished'
    OBVIOUS
  <2>1. CallsOK
    BY DEF Inv
  <2>2. CASE UNCHANGED vars
    BY <2>2 DEF vars, NoneFinished, Unfinished
  <2>3. QED
    BY <2>1, <2>2, PageUnfinished, ServeUnfinished, ApplyUnfinished, MishapUnfinished DEF Next
<1>3. NoneFinished => NobodyRatesOrPays
  BY DEF NoneFinished, NobodyRatesOrPays, Unfinished
<1>4. QED
  BY <1>1, <1>2, <1>3, Invariance, PTL DEF Spec
=============================================================================

----------------------- MODULE DriverDashboardProofs ------------------------
(***************************************************************************)
(* Theorems about DriverDashboard, for all values of its constants: no     *)
(* panel without its ride, the screen implements RideView, and a page      *)
(* without a mishap never forgets a ride that is under way.                *)
(***************************************************************************)
EXTENDS DriverDashboard, TLAPS

-----------------------------------------------------------------------------
\* What is known of the request in a slot: its copy lags, and the answer to a
\* poll, an acceptance or a start is about a ride of this driver.
SlotOK(c) == c # NULL =>
    /\ c \in Call
    /\ c.op \in {"accept", "verify", "complete"} => c.id \in Rides
    /\ c.copy # NULL => View!Lags(c.copy)
    /\ c.op \in {"poll", "accept", "verify"} /\ c.result = "ok" =>
           c.copy \in View!Copy /\ c.copy.row.driver = Me
    /\ c.op = "poll" /\ c.result = "ok" => c.copy.row.status \in View!DriverActive
    /\ c.op = "accept" /\ c.result = "ok" => c.copy.row.status = "accepted"
    /\ c.op = "verify" /\ c.result = "ok" => c.copy.row.status = "in_progress"

CallsOK == calls \in [Slots -> Call \cup {NULL}] /\ \A s \in Slots : SlotOK(calls[s])

FlagsOK ==
    /\ showOTP \in BOOLEAN /\ submitting \in BOOLEAN
    /\ loading \in BOOLEAN /\ processing \in BOOLEAN

FieldsOK ==
    /\ FlagsOK
    /\ driverStep \in Steps
    /\ rides \subseteq Rides
    /\ mishaps \in 0..MaxMishaps

ScreenOK ==
    /\ currentRide \in View!Copy \cup {NULL}
    /\ currentRide # NULL => View!Lags(currentRide)
    /\ PanelHasRide

\* A completion, with its payment, in slot s: the page awaits it with the
\* ride on the screen, and there is one at most.
Paying(s) ==
    /\ calls[s] # NULL
    /\ calls[s].op \in {"complete", "cash"}
    /\ calls[s].result # "orphan"

PayingOK ==
    /\ \A s \in Slots : Paying(s) => processing /\ currentRide # NULL
    /\ \A s, t \in Slots : Paying(s) /\ Paying(t) => s = t

\* The inductive invariant.
Inv == View!TableOK /\ FieldsOK /\ CallsOK /\ ScreenOK /\ PayingOK

-----------------------------------------------------------------------------
\* The table moves as the ledger says, or rests.
Moves == View!Next \/ UNCHANGED ride

LEMMA TableStaysOK ==
    ASSUME View!TableOK, Moves
    PROVE  View!TableOK'
<1>1. CASE View!Next
  BY <1>1, NullAssumption, View!TableKept
<1>2. CASE UNCHANGED ride
  BY <1>2 DEF View!TableOK, View!RowsSound
<1>3. QED
  BY <1>1, <1>2 DEF Moves

\* A copy that lags goes on lagging.
LEMMA CopyKept ==
    ASSUME View!TableOK, Moves, NEW copy \in View!Copy, View!Lags(copy)
    PROVE  View!Lags(copy)'
<1>1. CASE View!Next
  BY <1>1, View!LagsKept
<1>2. CASE UNCHANGED ride
  BY <1>2 DEF View!Lags
<1>3. QED
  BY <1>1, <1>2 DEF Moves

LEMMA SlotKept ==
    ASSUME View!TableOK, Moves, NEW c, SlotOK(c)
    PROVE  SlotOK(c)'
<1>1. c # NULL /\ c.copy # NULL => View!Lags(c.copy)'
  BY CopyKept DEF SlotOK, Call
<1>2. QED
  BY <1>1 DEF SlotOK

\* One slot gets other contents.
LEMMA SlotSet ==
    ASSUME View!TableOK, Moves, CallsOK, NEW s \in Slots,
           NEW d \in Call \cup {NULL}, SlotOK(d)', calls' = [calls EXCEPT ![s] = d]
    PROVE  CallsOK'
<1>1. calls' \in [Slots -> Call \cup {NULL}]
  BY DEF CallsOK
<1>2. ASSUME NEW t \in Slots PROVE SlotOK(calls[t])'
  <2>1. CASE t = s
    BY <2>1 DEF CallsOK
  <2>2. CASE t # s
    <3>1. PICK c : c = calls[t]
      OBVIOUS
    <3>2. calls'[t] = c
      BY <2>2, <3>1 DEF CallsOK
    <3>3. SlotOK(c)'
      BY <3>1, SlotKept DEF CallsOK
    <3>4. QED
      BY <3>2, <3>3 DEF SlotOK
  <2>3. QED
    BY <2>1, <2>2
<1>3. QED
  BY <1>1, <1>2 DEF CallsOK

\* No slot changes, whatever the table does.
LEMMA CallsRest ==
    ASSUME View!TableOK, Moves, CallsOK, UNCHANGED calls
    PROVE  CallsOK'
<1>1. ASSUME NEW s \in Slots PROVE SlotOK(calls[s])'
  <2>1. PICK c : c = calls[s]
    OBVIOUS
  <2>2. SlotOK(c)' /\ c = calls'[s]
    BY <2>1, SlotKept DEF CallsOK
  <2>3. QED
    BY <2>2 DEF SlotOK
<1>2. QED
  BY <1>1 DEF CallsOK

LEMMA SendOK ==
    ASSUME View!TableOK, CallsOK, UNCHANGED ride,
           NEW op \in Ops, NEW id \in Rides \cup {NULL},
           op \in {"accept", "verify", "complete"} => id \in Rides,
           Send(op, id)
    PROVE  CallsOK'
<1>1. PICK s \in Slots : calls' = [calls EXCEPT ![s] = Request(op, id)]
  BY DEF Send, Free
<1>2. PICK d : d = Request(op, id)
  OBVIOUS
<1>3. d \in Call /\ SlotOK(d)'
  BY <1>2 DEF Request, Call, SlotOK
<1>4. QED
  BY <1>1, <1>2, <1>3, SlotSet DEF Moves

\* The copy on the screen, when the page takes over no other.
LEMMA CopyRests ==
    ASSUME View!TableOK, Moves, ScreenOK, UNCHANGED currentRide
    PROVE  /\ currentRide' \in View!Copy \cup {NULL}
           /\ currentRide' # NULL => View!Lags(currentRide)'
<1>1. PICK copy : copy = currentRide
  OBVIOUS
<1>2. currentRide # NULL => View!Lags(copy)'
  BY <1>1, CopyKept DEF ScreenOK
<1>3. QED
  BY <1>1, <1>2 DEF ScreenOK, View!Lags

LEMMA ScreenRests ==
    ASSUME View!TableOK, Moves, ScreenOK, UNCHANGED <<currentRide, driverStep>>
    PROVE  ScreenOK'
BY CopyRests DEF ScreenOK, PanelHasRide

LEMMA ScreenEmptied ==
    ASSUME ToIdle
    PROVE  ScreenOK' /\ driverStep' \in Steps
BY DEF ToIdle, ScreenOK, PanelHasRide, Steps

\* A request that is no completion is sent, ends or is answered.
LEMMA PayingRests ==
    ASSUME PayingOK, processing' = processing,
           currentRide # NULL => currentRide' # NULL,
           \A s \in Slots : Paying(s)' => Paying(s)
    PROVE  PayingOK'
BY DEF PayingOK

\* Slot s changes, and is no completion after the change.
LEMMA SlotPaysNot ==
    ASSUME CallsOK, NEW s \in Slots, NEW d, calls' = [calls EXCEPT ![s] = d],
           d = NULL \/ d.op \notin {"complete", "cash"}
    PROVE  \A t \in Slots : Paying(t)' => t # s /\ Paying(t)
BY DEF CallsOK, Paying

LEMMA SendPaysNot ==
    ASSUME CallsOK, NEW op \in Ops, NEW id, Send(op, id), op # "complete", op # "cash"
    PROVE  \A t \in Slots : Paying(t)' => Paying(t)
<1>1. PICK s \in Slots : calls' = [calls EXCEPT ![s] = Request(op, id)]
  BY DEF Send, Free
<1>2. PICK d : d = Request(op, id)
  OBVIOUS
<1>3. d.op \notin {"complete", "cash"}
  BY <1>2 DEF Request
<1>4. QED
  BY <1>1, <1>2, <1>3, SlotPaysNot

-----------------------------------------------------------------------------
(* Each action keeps the invariant *)

\* What the driver does, the intervals and the hub's announcements.
Page ==
    \/ \E r \in Rides : NewRideRequest(r) \/ HandleAcceptRide(r)
    \/ FetchNearbyRides \/ Poll
    \/ HandleArrivedAtPickup \/ CancelOTP \/ HandleVerifyOTP
    \/ HandleCompleteRide \/ BackToRide \/ HandleConfirmPayment
    \/ HandleSaveProfile

LEMMA PageKeeps ==
    ASSUME Inv, Page
    PROVE  Inv' /\ Moves
<1> USE DEF Inv
<1>1. UNCHANGED <<ride, currentRide>>
  BY DEF Page, NewRideRequest, HandleAcceptRide, FetchNearbyRides, Poll,
     HandleArrivedAtPickup, CancelOTP, HandleVerifyOTP, HandleCompleteRide, BackToRide,
     HandleConfirmPayment, HandleSaveProfile
<1>2. View!TableOK' /\ Moves
  BY <1>1, TableStaysOK DEF Moves
<1>3. FieldsOK'
  <2>1. FlagsOK'
    BY Zenon DEF FieldsOK, FlagsOK, KeepsPanel, Page, NewRideRequest, HandleAcceptRide,
       FetchNearbyRides, Poll, HandleArrivedAtPickup, CancelOTP, HandleVerifyOTP,
       HandleCompleteRide, BackToRide, HandleConfirmPayment, HandleSaveProfile
  <2>2. driverStep' \in Steps /\ rides' \subseteq Rides /\ mishaps' \in 0..MaxMishaps
    BY BoundAssumption DEF FieldsOK, Steps, Page, NewRideRequest, HandleAcceptRide,
       FetchNearbyRides, Poll, HandleArrivedAtPickup, CancelOTP, HandleVerifyOTP,
       HandleCompleteRide, BackToRide, HandleConfirmPayment, HandleSaveProfile
  <2>3. QED
    BY <2>1, <2>2 DEF FieldsOK
<1>4. ScreenOK'
  <2>1. PanelHasRide'
    BY <1>1 DEF ScreenOK, PanelHasRide, ApproachPanel, OTPPanel, ActivePanel, PaymentPanel,
       Page, NewRideRequest, HandleAcceptRide, FetchNearbyRides, Poll,
       HandleArrivedAtPickup, CancelOTP, HandleVerifyOTP, HandleCompleteRide, BackToRide,
       HandleConfirmPayment, HandleSaveProfile
  <2>2. QED
    BY <1>1, <1>2, <2>1, CopyRests DEF ScreenOK
<1>5. CallsOK' /\ PayingOK'
  <2>1. CASE UNCHANGED <<calls, processing>>
    BY <1>1, <1>2, <2>1, CallsRest DEF PayingOK, Paying
  <2>2. CASE /\ Send("poll", NULL) \/ Send("nearby", NULL) \/ Send("save", NULL)
             /\ UNCHANGED processing
    BY <1>1, <2>2, SendOK, SendPaysNot, PayingRests DEF Ops
  <2>3. ASSUME NEW r \in Rides, Send("accept", r), UNCHANGED processing
        PROVE  CallsOK' /\ PayingOK'
    BY <1>1, <2>3, SendOK, SendPaysNot, PayingRests DEF Ops
  <2>4. CASE currentRide # NULL /\ Send("verify", currentRide.id) /\ UNCHANGED processing
    <3>1. PICK id \in Rides : id = currentRide.id
      BY <2>4 DEF ScreenOK, View!Copy
    <3>2. Send("verify", id)
      BY <2>4, <3>1
    <3>3. QED
      BY <1>1, <2>4, <3>2, SendOK, SendPaysNot, PayingRests DEF Ops
  <2>5. CASE HandleConfirmPayment
    <3>1. PICK id \in Rides : id = currentRide.id
      BY <2>5 DEF HandleConfirmPayment, PaymentPanel, ScreenOK, View!Copy
    <3>2. Send("complete", id)
      BY <2>5, <3>1 DEF HandleConfirmPayment
    <3>3. CallsOK'
      BY <1>1, <3>2, SendOK DEF Ops
    <3>4. PICK s \in Slots : calls' = [calls EXCEPT ![s] = Request("complete", id)]
      BY <3>2 DEF Send, Free
    <3>5. \A t \in Slots : ~Paying(t)
      BY <2>5 DEF HandleConfirmPayment, PayingOK
    <3>6. \A t \in Slots : Paying(t)' => t = s
      BY <3>4, <3>5 DEF Paying, CallsOK
    <3>7. QED
      BY <2>5, <3>3, <3>6 DEF HandleConfirmPayment, PaymentPanel, PayingOK
  <2>6. QED
    BY <2>1, <2>2, <2>3, <2>4, <2>5 DEF OTPPanel, Page, NewRideRequest, HandleAcceptRide,
       FetchNearbyRides, Poll, HandleArrivedAtPickup, CancelOTP, HandleVerifyOTP,
       HandleCompleteRide, BackToRide, HandleSaveProfile
<1>6. QED
  BY <1>2, <1>3, <1>4, <1>5

LEMMA RemountKeeps ==
    ASSUME Inv, Remount
    PROVE  Inv' /\ Moves
<1> USE DEF Inv
<1>1. View!TableOK' /\ Moves
  BY TableStaysOK DEF Remount, Moves
<1>2. FieldsOK' /\ ScreenOK'
  <2>1. ToIdle
    BY DEF Remount
  <2>2. FlagsOK' /\ ScreenOK' /\ driverStep' \in Steps
    BY <2>1, ScreenEmptied DEF Remount, FlagsOK, ToIdle
  <2>3. mishaps' \in 0..MaxMishaps /\ rides' \subseteq Rides
    BY BoundAssumption DEF Remount, FieldsOK
  <2>4. QED
    BY <2>2, <2>3 DEF FieldsOK
<1>3. ASSUME NEW s \in Slots
      PROVE  calls'[s] \in Call \cup {NULL} /\ SlotOK(calls[s])' /\ ~Paying(s)'
  <2>1. CASE calls'[s] = NULL
    BY <2>1 DEF SlotOK, Paying
  <2>2. CASE calls'[s] # NULL
    <3>1. PICK c : c = calls[s]
      OBVIOUS
    <3>2. c \in Call /\ SlotOK(c)'
      BY <1>1, <2>2, <3>1, SlotKept DEF Remount, CallsOK
    <3>3. PICK d : d = [c EXCEPT !.result = "orphan"]
      OBVIOUS
    <3>4. calls'[s] = d
      BY <2>2, <3>1, <3>3 DEF Remount
    <3>5. d \in Call /\ SlotOK(d)' /\ d.result = "orphan"
      BY <3>2, <3>3, NullAssumption DEF Call, SlotOK
    <3>6. QED
      BY <3>4, <3>5 DEF SlotOK, Paying
  <2>3. QED
    BY <2>1, <2>2
<1>4. CallsOK' /\ PayingOK'
  BY <1>3 DEF CallsOK, PayingOK, Remount
<1>5. QED
  BY <1>1, <1>2, <1>4

LEMMA LoseKeeps ==
    ASSUME Inv, NEW s \in Slots, Lose(s)
    PROVE  Inv' /\ Moves
<1> USE DEF Inv
<1>1. View!TableOK' /\ Moves
  BY TableStaysOK DEF Lose, Moves
<1>2. FieldsOK' /\ ScreenOK'
  BY <1>1, ScreenRests, BoundAssumption DEF Lose, FieldsOK, FlagsOK
<1>3. PICK d : d = [calls[s] EXCEPT !.result = "failed", !.copy = NULL, !.found = {}]
  OBVIOUS
<1>4. d \in Call /\ SlotOK(d)' /\ d.op = calls[s].op
  BY <1>3 DEF Lose, CallsOK, SlotOK, Call
<1>5. calls' = [calls EXCEPT ![s] = d]
  BY <1>3 DEF Lose
<1>6. CallsOK'
  BY <1>1, <1>4, <1>5, SlotSet
<1>7. \A t \in Slots : Paying(t)' => Paying(t)
  BY <1>4, <1>5 DEF Lose, Paying, CallsOK
<1>8. PayingOK'
  BY <1>7, PayingRests DEF Lose
<1>9. QED
  BY <1>1, <1>2, <1>6, <1>8

\* An answer that is sound for its request goes into the request's slot.
LEMMA AnswerOK ==
    ASSUME View!TableOK, Moves, CallsOK, NEW s \in Slots, calls[s] # NULL,
           NEW result \in {"ok", "failed"}, NEW copy \in View!Copy \cup {NULL},
           NEW found \in SUBSET Rides,
           copy # NULL => View!Lags(copy)',
           calls[s].op \in {"poll", "accept", "verify"} /\ result = "ok" =>
               copy # NULL /\ copy.row.driver = Me,
           calls[s].op = "poll" /\ result = "ok" => copy.row.status \in View!DriverActive,
           calls[s].op = "accept" /\ result = "ok" => copy.row.status = "accepted",
           calls[s].op = "verify" /\ result = "ok" => copy.row.status = "in_progress",
           Answer(s, result, copy, found)
    PROVE  CallsOK' /\ \A t \in Slots : Paying(t)' => Paying(t)
<1>1. CASE calls[s].result = "orphan"
  <2>1. calls' = [calls EXCEPT ![s] = NULL]
    BY <1>1 DEF Answer, CallsOK
  <2>2. QED
    BY <2>1, SlotSet DEF SlotOK, Paying, CallsOK
<1>2. CASE calls[s].result # "orphan"
  <2>1. PICK d : d = [calls[s] EXCEPT !.result = result, !.copy = copy, !.found = found]
    OBVIOUS
  <2>2. calls' = [calls EXCEPT ![s] = d]
    BY <1>2, <2>1 DEF Answer, CallsOK
  <2>3. d \in Call /\ SlotOK(d)' /\ d.op = calls[s].op
    BY <2>1 DEF CallsOK, SlotOK, Call
  <2>4. CallsOK'
    BY <2>2, <2>3, SlotSet
  <2>5. QED
    BY <1>2, <2>2, <2>3, <2>4 DEF Paying, CallsOK
<1>3. QED
  BY <1>1, <1>2

LEMMA RefuseOK ==
    ASSUME Inv, NEW s \in Slots, calls[s] # NULL, Refuse(s)
    PROVE  CallsOK' /\ (\A t \in Slots : Paying(t)' => Paying(t)) /\ Moves
BY AnswerOK DEF Refuse, Inv, Moves

\* The answer to a poll, or to a request that has written a row.
LEMMA PollServed ==
    ASSUME Inv, NEW s \in Slots, calls[s] # NULL, ServePoll(s)
    PROVE  CallsOK' /\ (\A t \in Slots : Paying(t)' => Paying(t)) /\ Moves
<1> USE DEF Inv
<1>1. Moves
  BY DEF ServePoll, Moves
<1>2. ASSUME NEW r \in Mine, Answer(s, "ok", View!CopyOf(r), {})
      PROVE  CallsOK' /\ \A t \in Slots : Paying(t)' => Paying(t)
  <2>1. PICK copy : copy = View!CopyOf(r)
    OBVIOUS
  <2>2. copy \in View!Copy /\ View!Lags(copy)
    BY <2>1, View!FreshCopyLags DEF Mine, View!ActiveOf, View!DriverActive
  <2>3. View!Lags(copy)'
    BY <1>1, <2>2, CopyKept
  <2>4. copy.row.status \in View!DriverActive /\ copy.row.driver = Me
    BY <2>1 DEF View!CopyOf, Mine, View!ActiveOf
  <2>5. Answer(s, "ok", copy, {})
    BY <1>2, <2>1
  <2>6. QED
    BY <1>1, <2>2, <2>3, <2>4, <2>5, AnswerOK, NullAssumption DEF ServePoll
<1>3. CASE Answer(s, "failed", NULL, {})
  BY <1>1, <1>3, AnswerOK
<1>4. QED
  BY <1>1, <1>2, <1>3 DEF ServePoll

LEMMA RowServed ==
    ASSUME Inv, NEW s \in Slots, calls[s] # NULL, calls[s].id \in Rides, View!Next,
           ride'[calls[s].id].driver = Me,
           \/ calls[s].op = "accept" /\ ride'[calls[s].id].status = "accepted"
           \/ calls[s].op = "verify" /\ ride'[calls[s].id].status = "in_progress"
           \/ calls[s].op = "complete" /\ ride'[calls[s].id].status = "completed",
           AnswerRow(s)
    PROVE  CallsOK' /\ (\A t \in Slots : Paying(t)' => Paying(t)) /\ Moves
<1> USE DEF Inv
<1>1. Moves /\ View!TableOK'
  BY TableStaysOK DEF Moves
<1>2. PICK r \in Rides : r = calls[s].id
  OBVIOUS
<1>3. PICK copy : copy = [id |-> r, row |-> ride'[r]]
  OBVIOUS
<1>4. copy \in View!Copy /\ copy.row = ride'[r]
  BY <1>1, <1>3 DEF View!Copy, View!TableOK
<1>5. View!Lags(copy)'
  <2>1. View!CopyOf(r)' = copy
    BY <1>3 DEF View!CopyOf
  <2>2. (View!TableOK /\ r \in Rides /\ ride[r].status # "none" =>
            View!Lags(View!CopyOf(r)))'
    BY View!FreshCopyLags, PTL
  <2>3. QED
    BY <1>1, <1>2, <2>1, <2>2
<1>6. Answer(s, "ok", copy, {})
  BY <1>2, <1>3 DEF AnswerRow
<1>7. QED
  BY <1>1, <1>2, <1>4, <1>5, <1>6, AnswerOK, NullAssumption

LEMMA WriteServed ==
    ASSUME Inv, NEW s \in Slots, calls[s] # NULL,
           ServeAccept(s) \/ ServeVerify(s) \/ ServeComplete(s)
    PROVE  CallsOK' /\ (\A t \in Slots : Paying(t)' => Paying(t)) /\ Moves
<1>1. CASE Refuse(s)
  BY <1>1, RefuseOK
<1>2. PICK r \in Rides : r = calls[s].id
  BY DEF ServeAccept, ServeVerify, ServeComplete, Inv, CallsOK, SlotOK
<1>3. ride \in [Rides -> View!Row]
  BY DEF Inv, View!TableOK
<1>4. CASE ServeAccept(s) /\ AnswerRow(s) /\ \E c \in Codes : View!Assign(r, Me, c)
  <2>1. PICK c \in Codes : View!Assign(r, Me, c)
    BY <1>4
  <2>2. View!Next
    BY <2>1 DEF View!Next
  <2>3. PICK row : row = [ride[r] EXCEPT !.status = "accepted", !.driver = Me, !.otp = c]
    OBVIOUS
  <2>4. row.driver = Me /\ row.status = "accepted"
    BY <1>3, <2>3 DEF View!Row
  <2>5. ride' = [ride EXCEPT ![r] = row]
    BY <2>1, <2>3 DEF View!Assign
  <2>6. QED
    BY <1>2, <1>3, <1>4, <2>2, <2>4, <2>5, RowServed DEF ServeAccept
<1>5. CASE ServeVerify(s) /\ AnswerRow(s) /\ r \in Mine /\ View!Start(r)
  <2>1. View!Next /\ ride'[r].driver = Me /\ ride'[r].status = "in_progress"
    BY <1>3, <1>5 DEF View!Start, View!Next, View!Row, Mine, View!ActiveOf
  <2>2. QED
    BY <1>2, <1>5, <2>1, RowServed DEF ServeVerify
<1>6. CASE ServeComplete(s) /\ AnswerRow(s) /\ r \in Mine /\ View!Complete(r)
  <2>1. View!Next /\ ride'[r].driver = Me /\ ride'[r].status = "completed"
    BY <1>3, <1>6 DEF View!Complete, View!Next, View!Row, Mine, View!ActiveOf
  <2>2. QED
    BY <1>2, <1>6, <2>1, RowServed DEF ServeComplete
<1>7. QED
  BY <1>1, <1>2, <1>4, <1>5, <1>6 DEF ServeAccept, ServeVerify, ServeComplete

LEMMA OtherServed ==
    ASSUME Inv, NEW s \in Slots, calls[s] # NULL,
           ServeNearby(s) \/ ServeCash(s) \/ ServeSave(s)
    PROVE  CallsOK' /\ (\A t \in Slots : Paying(t)' => Paying(t)) /\ Moves
<1> USE DEF Inv
<1>1. CASE ServeCash(s)
  BY <1>1, RefuseOK DEF ServeCash
<1>2. CASE ServeNearby(s) \/ ServeSave(s)
  <2>1. Moves
    BY <1>2 DEF ServeNearby, ServeSave, Moves
  <2>2. PICK found \in SUBSET Rides : Answer(s, "ok", NULL, found)
    BY <1>2 DEF ServeNearby, ServeSave, Requested
  <2>3. QED
    BY <1>2, <2>1, <2>2, AnswerOK DEF ServeNearby, ServeSave
<1>3. QED
  BY <1>1, <1>2

LEMMA ServeKeeps ==
    ASSUME Inv, NEW s \in Slots, Serve(s)
    PROVE  Inv' /\ Moves
<1>1. CallsOK' /\ (\A t \in Slots : Paying(t)' => Paying(t)) /\ Moves
  BY PollServed, WriteServed, OtherServed DEF Serve
<1>2. View!TableOK'
  BY <1>1, TableStaysOK DEF Inv
<1>3. FieldsOK' /\ ScreenOK' /\ PayingOK'
  BY <1>1, ScreenRests, PayingRests DEF Inv, Serve, FieldsOK, FlagsOK
<1>4. QED
  BY <1>1, <1>2, <1>3 DEF Inv

LEMMA OthersKeep ==
    ASSUME Inv, Others
    PROVE  Inv' /\ Moves
<1> USE DEF Inv
<1>1. Moves
  BY DEF Others, Unused, Moves, View!Next
<1>2. View!TableOK' /\ CallsOK'
  BY <1>1, TableStaysOK, CallsRest DEF Others
<1>3. FieldsOK' /\ ScreenOK'
  BY <1>1, ScreenRests DEF Others, FieldsOK, FlagsOK
<1>4. PayingOK'
  BY DEF Others, PayingOK, Paying
<1>5. QED
  BY <1>1, <1>2, <1>3, <1>4

-----------------------------------------------------------------------------
(* What the page does with an answer *)

LEMMA EndsOK ==
    ASSUME Inv, UNCHANGED ride, NEW s \in Slots, Ends(s)
    PROVE  CallsOK' /\ (\A t \in Slots : Paying(t)' => t # s /\ Paying(t))
BY SlotSet, SlotPaysNot DEF Ends, SlotOK, Inv, Moves

\* The page takes a ride over from an answer.
LEMMA ScreenTakes ==
    ASSUME View!TableOK, UNCHANGED ride, NEW copy \in View!Copy, View!Lags(copy),
           copy.row.driver = Me, currentRide' = copy,
           \/ copy.row.status \in View!DriverActive /\ driverStep' = StepOf(copy.row.status)
           \/ copy.row.status = "accepted" /\ driverStep' = "EN_ROUTE_PICKUP"
           \/ copy.row.status = "in_progress" /\ driverStep' = "RIDE_ACTIVE"
    PROVE  ScreenOK' /\ driverStep' \in Steps /\ currentRide' # NULL
<1>1. View!Lags(currentRide)'
  BY DEF View!Lags
<1>2. copy # NULL
  BY NullAssumption
<1>3. PanelHasRide' /\ driverStep' \in Steps
  BY <1>2 DEF PanelHasRide, StepOf, Steps, View!DriverActive
<1>4. QED
  BY <1>1, <1>2, <1>3 DEF ScreenOK

LEMMA RideAnswerKeeps ==
    ASSUME Inv, NEW s \in Slots, calls[s] # NULL, calls[s].result = "ok",
           PollAnswer(s) \/ AcceptAnswer(s) \/ VerifyAnswer(s),
           UNCHANGED <<ride, mishaps>>
    PROVE  Inv' /\ currentRide' # NULL
<1> USE DEF Inv
<1>1. View!TableOK'
  BY TableStaysOK DEF Moves
<1>2. PICK copy : copy = calls[s].copy
  OBVIOUS
<1>3. /\ copy \in View!Copy /\ View!Lags(copy) /\ copy.row.driver = Me
      /\ currentRide' = copy
      /\ \/ copy.row.status \in View!DriverActive /\ driverStep' = StepOf(copy.row.status)
         \/ copy.row.status = "accepted" /\ driverStep' = "EN_ROUTE_PICKUP"
         \/ copy.row.status = "in_progress" /\ driverStep' = "RIDE_ACTIVE"
  BY <1>2, NullAssumption DEF PollAnswer, AcceptAnswer, VerifyAnswer, CallsOK, SlotOK
<1>4. ScreenOK' /\ driverStep' \in Steps /\ currentRide' # NULL
  BY <1>3, ScreenTakes
<1>5. FlagsOK'
  BY Zenon DEF FieldsOK, FlagsOK, KeepsPanel, PollAnswer, AcceptAnswer, VerifyAnswer
<1>6. CallsOK' /\ PayingOK'
  BY <1>4, EndsOK, PayingRests DEF PollAnswer, AcceptAnswer, VerifyAnswer
<1>7. QED
  BY <1>1, <1>4, <1>5, <1>6 DEF FieldsOK, PollAnswer, AcceptAnswer, VerifyAnswer

\* A completion is over: it was the only one.
LEMMA PayingEnds ==
    ASSUME Inv, NEW s \in Slots, Paying(s), \A t \in Slots : Paying(t)' => t # s /\ Paying(t)
    PROVE  PayingOK'
BY DEF Inv, PayingOK

LEMMA PaidKeeps ==
    ASSUME Inv, NEW s \in Slots, calls[s] # NULL, calls[s].result \in {"ok", "failed"},
           CompleteAnswer(s) \/ CashAnswer(s), UNCHANGED <<ride, mishaps>>
    PROVE  Inv'
<1> USE DEF Inv
<1>1. View!TableOK'
  BY TableStaysOK DEF Moves
<1>2. Paying(s)
  BY DEF Paying, CompleteAnswer, CashAnswer
<1>3. CASE Ends(s) /\ ToIdle
  <2>1. FieldsOK' /\ ScreenOK'
    BY <1>3, ScreenEmptied DEF ToIdle, FieldsOK, FlagsOK, CompleteAnswer, CashAnswer
  <2>2. QED
    BY <1>1, <1>2, <1>3, <2>1, EndsOK, PayingEnds
<1>4. CASE /\ calls' = [calls EXCEPT ![s] = Request("cash", @.id)]
           /\ UNCHANGED <<driverStep, currentRide, submitting, processing>>
           /\ CompleteAnswer(s)
  <2>1. PICK d : d = Request("cash", calls[s].id)
    OBVIOUS
  <2>2. d \in Call /\ SlotOK(d)'
    BY <2>1 DEF Request, Call, SlotOK, CallsOK, Ops
  <2>3. calls' = [calls EXCEPT ![s] = d]
    BY <1>4, <2>1 DEF CallsOK
  <2>4. CallsOK' /\ \A t \in Slots : Paying(t)' => Paying(t)
    BY <1>2, <2>2, <2>3, SlotSet DEF Moves, Paying, CallsOK
  <2>5. FieldsOK' /\ ScreenOK'
    BY <1>4, ScreenRests DEF CompleteAnswer, FieldsOK, FlagsOK, Moves
  <2>6. QED
    BY <1>1, <1>4, <2>4, <2>5, PayingRests
<1>5. QED
  BY <1>3, <1>4 DEF CompleteAnswer, CashAnswer

LEMMA OtherAnswerKeeps ==
    ASSUME Inv, NEW s \in Slots, calls[s] # NULL,
           NearbyAnswer(s) \/ SaveAnswer(s), UNCHANGED <<ride, mishaps>>
    PROVE  Inv'
<1> USE DEF Inv
<1>1. View!TableOK' /\ ScreenOK'
  BY TableStaysOK, ScreenRests DEF Moves, NearbyAnswer, SaveAnswer
<1>2. CallsOK' /\ PayingOK'
  BY EndsOK, PayingRests DEF NearbyAnswer, SaveAnswer
<1>3. FieldsOK'
  BY DEF NearbyAnswer, SaveAnswer, FieldsOK, FlagsOK, CallsOK, Call
<1>4. QED
  BY <1>1, <1>2, <1>3

\* A failed completion finds the ride still on the screen.
LEMMA ErrorKeeps ==
    ASSUME Inv, NEW s \in Slots, calls[s] # NULL, calls[s].result = "failed",
           Error(s), UNCHANGED <<ride, mishaps>>
    PROVE  Inv' /\ UNCHANGED currentRide
<1> USE DEF Inv
<1>1. View!TableOK' /\ UNCHANGED currentRide
  BY TableStaysOK DEF Moves, Error
<1>2. FlagsOK'
  BY Zenon DEF FieldsOK, FlagsOK, Error
<1>3. CallsOK' /\ \A t \in Slots : Paying(t)' => t # s /\ Paying(t)
  BY EndsOK DEF Error
<1>4. CASE calls[s].op = "complete"
  <2>1. Paying(s) /\ currentRide # NULL
    BY <1>4 DEF Paying, PayingOK
  <2>2. driverStep' = "RIDE_ACTIVE"
    BY <1>4 DEF Error
  <2>3. PanelHasRide' /\ driverStep' \in Steps
    BY <1>1, <2>1, <2>2 DEF ScreenOK, PanelHasRide, Steps
  <2>4. ScreenOK'
    BY <1>1, <2>3, CopyRests DEF ScreenOK, Moves
  <2>5. PayingOK'
    BY <1>3, <2>1, PayingEnds
  <2>6. QED
    BY <1>1, <1>2, <1>3, <2>3, <2>4, <2>5 DEF FieldsOK, Error
<1>5. CASE calls[s].op # "complete"
  <2>1. driverStep' = driverStep
    BY <1>5 DEF Error
  <2>2. processing' = processing
    BY <1>5, Zenon DEF Error, FieldsOK, FlagsOK
  <2>3. ScreenOK' /\ PayingOK'
    BY <1>1, <1>3, <2>1, <2>2, ScreenRests, PayingRests DEF Moves
  <2>4. QED
    BY <1>1, <1>2, <1>3, <2>1, <2>3 DEF FieldsOK, Error
<1>6. QED
  BY <1>4, <1>5

LEMMA ApplyKeeps ==
    ASSUME Inv, NEW s \in Slots, Apply(s)
    PROVE  Inv' /\ Moves
BY RideAnswerKeeps, PaidKeeps, OtherAnswerKeeps, ErrorKeeps DEF Apply, Moves

-----------------------------------------------------------------------------
LEMMA InitOK == Init => Inv
<1> SUFFICES ASSUME Init PROVE Inv
  OBVIOUS
<1>1. View!TableOK
  BY View!TableInit DEF Init
<1>2. FieldsOK
  <2>1. FlagsOK
    BY Zenon DEF Init, FlagsOK
  <2>2. QED
    BY <2>1, BoundAssumption DEF Init, FieldsOK, Steps
<1>3. CallsOK /\ ScreenOK /\ PayingOK
  BY DEF Init, CallsOK, SlotOK, ScreenOK, PanelHasRide, PayingOK, Paying
<1>4. QED
  BY <1>1, <1>2, <1>3 DEF Inv

LEMMA StepOK == Inv /\ [Next]_vars => Inv' /\ Moves
<1> SUFFICES ASSUME Inv, [Next]_vars PROVE Inv' /\ Moves
  OBVIOUS
<1>1. CASE Next
  <2>1. CASE Page
    BY <2>1, PageKeeps
  <2>2. CASE Remount \/ Others
    BY <2>2, RemountKeeps, OthersKeep
  <2>3. ASSUME NEW s \in Slots, Serve(s) \/ Lose(s) \/ Apply(s)
        PROVE  Inv' /\ Moves
    BY <2>3, ServeKeeps, LoseKeeps, ApplyKeeps
  <2>4. QED
    BY <1>1, <2>1, <2>2, <2>3 DEF Next, Page
<1>2. CASE UNCHANGED vars
  <2>1. Moves /\ View!TableOK'
    BY <1>2, TableStaysOK DEF vars, Moves, Inv
  <2>2. CallsOK' /\ ScreenOK'
    BY <1>2, <2>1, CallsRest, ScreenRests DEF vars, Inv
  <2>3. QED
    BY <1>2, <2>1, <2>2 DEF vars, Inv, FieldsOK, FlagsOK, PayingOK, Paying
<1>3. QED
  BY <1>1, <1>2

\* The invariant holds in every behaviour.
THEOREM Invariance == Spec => []Inv
<1>1. QED
  BY InitOK, StepOK, PTL DEF Spec

\* Every variable keeps to its domain, for any number of rides, requests in
\* flight and mishaps.
THEOREM TypeCorrect == Spec => []TypeOK
<1>1. Inv => TypeOK
  BY DEF Inv, FieldsOK, FlagsOK, CallsOK, SlotOK, ScreenOK, View!TableOK, TypeOK
<1>2. QED
  BY <1>1, Invariance, PTL

\* The page is idle exactly when it is about no ride, and otherwise about a
\* ride of this driver; the panels up to the pickup go with a copy of a ride
\* that has not begun (DriverDashboard.jsx:85-98).
THEOREM NoPanelWithoutRide == Spec => []PanelHasRide
<1>1. Inv => PanelHasRide
  BY DEF Inv, ScreenOK
<1>2. QED
  BY <1>1, Invariance, PTL

\* The page with its requests in flight implements the screen that only ever
\* shows rows the ride has had.
THEOREM ViewRefinement == Spec => ImplementsView
<1>1. Init => View!ViewInit
  BY DEF Init, View!ViewInit
<1>2. Inv /\ Inv' /\ [Next]_vars => [View!ViewNext]_<<ride, currentRide>>
  <2> SUFFICES ASSUME Inv, Inv', [Next]_vars
               PROVE  [View!ViewNext]_<<ride, currentRide>>
    OBVIOUS
  <2>1. CASE UNCHANGED currentRide
    BY <2>1, StepOK DEF Moves, View!ViewNext
  <2>2. CASE ~UNCHANGED currentRide
    <3>1. UNCHANGED ride
      BY <2>2 DEF vars, Next, NewRideRequest, HandleAcceptRide, FetchNearbyRides, Poll,
         HandleArrivedAtPickup, CancelOTP, HandleVerifyOTP, HandleCompleteRide, BackToRide,
         HandleConfirmPayment, HandleSaveProfile, Remount, Others, Serve, Lose, Apply
    <3>2. currentRide' = NULL \/ (currentRide' \in View!Copy /\ View!Lags(currentRide)')
      BY DEF Inv, ScreenOK
    <3>3. View!Lags(currentRide)' => View!Lags(currentRide')
      BY <3>1 DEF View!Lags
    <3>4. QED
      BY <3>1, <3>2, <3>3 DEF View!ViewNext, View!See, View!Forget
  <2>3. QED
    BY <2>1, <2>2
<1>3. QED
  BY <1>1, <1>2, Invariance, PTL DEF Spec, ImplementsView, View!ViewSpec

-----------------------------------------------------------------------------
(* A page without a mishap *)

Accepting(s) == calls[s] # NULL /\ calls[s].op = "accept"
Asked(s) == Accepting(s) /\ calls[s].result = "pending"
Taken(s) == Accepting(s) /\ calls[s].result = "ok"

\* A completion that went through, or the payment after it.
Completed(s) == Paying(s) /\ (calls[s].op = "cash" \/ calls[s].result = "ok")

\* One acceptance at a time, and none while a ride is under way ...
AcceptsApart ==
    /\ \A s \in Slots : calls[s] # NULL => calls[s].op # "save" /\ calls[s].result # "orphan"
    /\ \A s \in Slots : Accepting(s) => loading
    /\ \A s, t \in Slots : Accepting(s) /\ Accepting(t) => s = t
    /\ \A s \in Slots : Asked(s) => Mine = {}

\* ... because the ride is on the screen, unless the page has not been told
\* yet that it has got it ...
MineShown == Mine # {} => currentRide # NULL \/ \E s \in Slots : Taken(s)

\* ... so that the completion which takes a ride off the screen was of the
\* only ride, and no other can be accepted until it does.
CompletedApart == \A s \in Slots : Completed(s) => Mine = {} /\ \A t \in Slots : ~Asked(t)

Calm == AcceptsApart /\ MineShown /\ CompletedApart

OneRide == \A q, r \in Mine : q = r

\* The inductive invariant.
CalmInv == OneRide /\ (mishaps = 0 => Calm)

LEMMA CalmInit == Init => CalmInv
<1> SUFFICES ASSUME Init PROVE CalmInv
  OBVIOUS
<1>1. Mine = {}
  BY DEF Init, View!Init, View!NoRow, Mine, View!ActiveOf, View!DriverActive
<1>2. QED
  BY <1>1 DEF CalmInv, OneRide, Init, Calm, AcceptsApart, MineShown, CompletedApart,
     Accepting, Asked, Completed, Paying

LEMMA MineRests ==
    ASSUME UNCHANGED ride
    PROVE  Mine' = Mine
BY DEF Mine, View!ActiveOf

\* Only slot s changes.
Only(s) == \A t \in Slots : t # s => calls'[t] = calls[t]

\* The page changes, and at most sends what is no acceptance or completion.
LEMMA SendCalm ==
    ASSUME Inv, Calm, UNCHANGED <<ride, loading, currentRide>>,
           \/ UNCHANGED calls
           \/ \E s \in Slots, d \in Call :
                  /\ calls[s] = NULL /\ calls' = [calls EXCEPT ![s] = d]
                  /\ d.op \in {"poll", "nearby", "verify", "complete"} /\ d.result = "pending"
    PROVE  Calm'
<1>1. Mine' = Mine
  BY MineRests
<1>2. CASE UNCHANGED calls
  BY <1>1, <1>2 DEF Calm, AcceptsApart, MineShown, CompletedApart, Accepting, Asked, Taken,
     Completed, Paying
<1>3. CASE \E s \in Slots, d \in Call :
               /\ calls[s] = NULL /\ calls' = [calls EXCEPT ![s] = d]
               /\ d.op \in {"poll", "nearby", "verify", "complete"} /\ d.result = "pending"
  <2>1. PICK s \in Slots, d \in Call :
               /\ calls[s] = NULL /\ calls' = [calls EXCEPT ![s] = d]
               /\ d.op \in {"poll", "nearby", "verify", "complete"} /\ d.result = "pending"
    BY <1>3
  <2>2. Only(s) /\ calls'[s] = d
    BY <2>1 DEF Only, Inv, CallsOK
  <2>3. AcceptsApart'
    BY <1>1, <2>1, <2>2 DEF Calm, AcceptsApart, Accepting, Asked, Only
  <2>4. MineShown'
    BY <1>1, <2>1, <2>2 DEF Calm, MineShown, Taken, Accepting, Only
  <2>5. CompletedApart'
    BY <1>1, <2>1, <2>2 DEF Calm, CompletedApart, Completed, Paying, Asked, Accepting, Only
  <2>6. QED
    BY <2>3, <2>4, <2>5 DEF Calm
<1>4. QED
  BY <1>2, <1>3

LEMMA PageStaysCalm ==
    ASSUME Inv, Calm, Page, mishaps' = 0
    PROVE  Calm' /\ currentRide' = currentRide
<1>1. UNCHANGED <<ride, currentRide>>
  BY DEF Page, NewRideRequest, HandleAcceptRide, FetchNearbyRides, Poll,
     HandleArrivedAtPickup, CancelOTP, HandleVerifyOTP, HandleCompleteRide, BackToRide,
     HandleConfirmPayment, HandleSaveProfile
<1>2. ~HandleSaveProfile
  BY BoundAssumption DEF HandleSaveProfile, Inv, FieldsOK
<1>3. CASE UNCHANGED <<calls, loading>>
  BY <1>1, <1>3, SendCalm
<1>4. CASE /\ Send("poll", NULL) \/ Send("nearby", NULL)
           /\ UNCHANGED loading
  <2>1. PICK op \in {"poll", "nearby"} : Send(op, NULL)
    BY <1>4
  <2>2. PICK s \in Slots : calls[s] = NULL /\ calls' = [calls EXCEPT ![s] = Request(op, NULL)]
    BY <2>1 DEF Send, Free
  <2>3. PICK d : d = Request(op, NULL)
    OBVIOUS
  <2>4. d \in Call /\ d.op = op /\ d.result = "pending"
    BY <2>3 DEF Request, Call, Ops
  <2>5. QED
    BY <1>1, <1>4, <2>2, <2>3, <2>4, SendCalm
<1>5. CASE HandleVerifyOTP \/ HandleConfirmPayment
  <2>1. PICK id \in Rides : id = currentRide.id
    BY <1>5 DEF HandleVerifyOTP, OTPPanel, HandleConfirmPayment, PaymentPanel, Inv, ScreenOK,
       View!Copy
  <2>2. PICK op \in {"verify", "complete"} : Send(op, id)
    BY <1>5, <2>1 DEF HandleVerifyOTP, HandleConfirmPayment
  <2>3. PICK s \in Slots : calls[s] = NULL /\ calls' = [calls EXCEPT ![s] = Request(op, id)]
    BY <2>2 DEF Send, Free
  <2>4. PICK d : d = Request(op, id)
    OBVIOUS
  <2>5. d \in Call /\ d.op = op /\ d.result = "pending"
    BY <2>4 DEF Request, Call, Ops
  <2>6. UNCHANGED loading
    BY <1>5 DEF HandleVerifyOTP, HandleConfirmPayment
  <2>7. QED
    BY <1>1, <2>3, <2>4, <2>5, <2>6, SendCalm
<1>6. ASSUME NEW r \in Rides, HandleAcceptRide(r) PROVE Calm'
  <2>1. PICK s \in Slots : calls[s] = NULL /\ calls' = [calls EXCEPT ![s] = Request("accept", r)]
    BY <1>6 DEF HandleAcceptRide, Send, Free
  <2>2. Only(s) /\ calls'[s].op = "accept" /\ calls'[s].result = "pending"
    BY <2>1 DEF Only, Inv, CallsOK, Request
  <2>3. \A t \in Slots : ~Accepting(t)
    BY <1>6 DEF HandleAcceptRide, Calm, AcceptsApart
  <2>4. currentRide = NULL /\ \A t \in Slots : ~Paying(t)
    BY <1>6 DEF HandleAcceptRide, OfferPanel, Inv, ScreenOK, PanelHasRide, PayingOK
  <2>5. Mine = {} /\ Mine' = {}
    BY <1>1, <2>3, <2>4, MineRests DEF Calm, MineShown, Taken
  <2>6. loading'
    BY <1>6 DEF HandleAcceptRide
  <2>7. AcceptsApart'
    BY <2>2, <2>3, <2>5, <2>6 DEF Calm, AcceptsApart, Accepting, Asked, Only
  <2>8. MineShown' /\ CompletedApart'
    BY <2>2, <2>4, <2>5 DEF MineShown, CompletedApart, Completed, Paying, Only
  <2>9. QED
    BY <2>7, <2>8 DEF Calm
<1>7. QED
  BY <1>1, <1>2, <1>3, <1>4, <1>5, <1>6 DEF Page, NewRideRequest, FetchNearbyRides, Poll,
     HandleArrivedAtPickup, CancelOTP, HandleCompleteRide, BackToRide

LEMMA OthersCalm ==
    ASSUME Inv, Others
    PROVE  Mine' \subseteq Mine /\ (Calm => Calm')
<1>0. ride \in [Rides -> View!Row]
  BY DEF Inv, View!TableOK
<1>1. PICK r \in Rides : \/ View!Request(Rider, r)
                         \/ View!Cancel(r)
                         \/ \E c \in Codes : View!Assign(r, Other, c)
  BY DEF Others, Unused
<1>2. /\ \A q \in Rides : q # r => ride'[q] = ride[q]
      /\ r \notin Mine'
  <2>1. CASE View!Request(Rider, r)
    <3>1. PICK row : row = [View!NoRow EXCEPT !.status = "requested", !.owner = Rider]
      OBVIOUS
    <3>2. row.status = "requested"
      BY <3>1 DEF View!NoRow
    <3>3. ride' = [ride EXCEPT ![r] = row]
      BY <2>1, <3>1 DEF View!Request
    <3>4. QED
      BY <1>0, <3>2, <3>3 DEF Mine, View!ActiveOf, View!DriverActive
  <2>2. CASE View!Cancel(r)
    <3>1. ride'[r].status = "cancelled" /\ \A q \in Rides : q # r => ride'[q] = ride[q]
      BY <1>0, <2>2 DEF View!Cancel, View!Row
    <3>2. QED
      BY <3>1 DEF Mine, View!ActiveOf, View!DriverActive
  <2>3. CASE \E c \in Codes : View!Assign(r, Other, c)
    <3>1. PICK c \in Codes : View!Assign(r, Other, c)
      BY <2>3
    <3>2. PICK row : row = [ride[r] EXCEPT !.status = "accepted", !.driver = Other, !.otp = c]
      OBVIOUS
    <3>3. row.driver = Other
      BY <1>0, <3>2 DEF View!Row
    <3>4. ride' = [ride EXCEPT ![r] = row]
      BY <3>1, <3>2 DEF View!Assign
    <3>5. QED
      BY <1>0, <3>3, <3>4, DriverAssumption DEF Mine, View!ActiveOf
  <2>4. QED
    BY <1>1, <2>1, <2>2, <2>3
<1>3. Mine' \subseteq Mine
  BY <1>2 DEF Mine, View!ActiveOf
<1>4. UNCHANGED <<calls, loading, currentRide>>
  BY DEF Others
<1>5. QED
  BY <1>3, <1>4 DEF Calm, AcceptsApart, MineShown, CompletedApart, Accepting, Asked, Taken,
     Completed, Paying

LEMMA AnswerFacts ==
    ASSUME Inv, NEW s \in Slots, calls[s] # NULL, calls[s].result = "pending",
           NEW result, NEW copy, NEW found, Answer(s, result, copy, found)
    PROVE  /\ Only(s)
           /\ calls'[s].op = calls[s].op /\ calls'[s].result = result
<1>1. calls[s] \in Call
  BY DEF Inv, CallsOK, SlotOK
<1>2. PICK d : d = [calls[s] EXCEPT !.result = result, !.copy = copy, !.found = found]
  OBVIOUS
<1>3. d.op = calls[s].op /\ d.result = result
  BY <1>1, <1>2 DEF Call
<1>4. calls' = [calls EXCEPT ![s] = d]
  BY <1>1, <1>2 DEF Answer, Inv, CallsOK
<1>5. QED
  BY <1>3, <1>4 DEF Only, Inv, CallsOK

\* An answer that neither gives the driver a ride nor takes one.
LEMMA AnswerCalm ==
    ASSUME Inv, Calm, NEW s \in Slots, calls[s] # NULL, calls[s].result = "pending",
           NEW result \in {"ok", "failed"}, NEW copy, NEW found,
           Answer(s, result, copy, found),
           calls[s].op \in {"accept", "complete"} => result = "failed",
           Mine' = Mine, UNCHANGED <<currentRide, loading>>
    PROVE  Calm'
<1>1. Only(s) /\ calls'[s].op = calls[s].op /\ calls'[s].result = result
  BY AnswerFacts
<1>2. AcceptsApart'
  BY <1>1 DEF Calm, AcceptsApart, Accepting, Asked, Only
<1>3. MineShown'
  BY <1>1 DEF Calm, MineShown, Taken, Accepting, Only
<1>4. CompletedApart'
  BY <1>1 DEF Calm, CompletedApart, Completed, Paying, Asked, Accepting, Only
<1>5. QED
  BY <1>2, <1>3, <1>4 DEF Calm

LEMMA RefuseCalm ==
    ASSUME Inv, Calm, NEW s \in Slots, calls[s] # NULL, calls[s].result = "pending",
           Refuse(s), UNCHANGED <<currentRide, loading>>
    PROVE  Calm' /\ Mine' = Mine
BY MineRests, AnswerCalm DEF Refuse

LEMMA ReadCalm ==
    ASSUME Inv, Calm, NEW s \in Slots, calls[s] # NULL, calls[s].result = "pending",
           ServePoll(s) \/ ServeNearby(s) \/ ServeSave(s), UNCHANGED <<currentRide, loading>>
    PROVE  Calm'
<1>1. Mine' = Mine
  BY MineRests DEF ServePoll, ServeNearby, ServeSave
<1>2. PICK result, copy, found :
          result \in {"ok", "failed"} /\ Answer(s, result, copy, found)
  BY DEF ServePoll, ServeNearby, ServeSave
<1>3. calls[s].op \notin {"accept", "complete"}
  BY DEF ServePoll, ServeNearby, ServeSave
<1>4. QED
  BY <1>1, <1>2, <1>3, AnswerCalm

LEMMA AcceptCalm ==
    ASSUME Inv, Calm, NEW s \in Slots, calls[s] # NULL, calls[s].result = "pending",
           calls[s].op = "accept", Mine = {}, AnswerRow(s),
           NEW c \in Codes, View!Assign(calls[s].id, Me, c), UNCHANGED <<currentRide, loading>>
    PROVE  Calm'
<1>1. View!Next /\ calls[s].id \in Rides /\ calls[s] \in Call
  BY DEF View!Next, Inv, CallsOK, SlotOK
<1>2. PICK copy : copy = [id |-> calls[s].id, row |-> ride'[calls[s].id]]
  OBVIOUS
<1>3. copy \in View!Copy
  BY <1>1, <1>2, TableStaysOK DEF Inv, Moves, View!TableOK, View!Copy
<1>4. PICK d : d = [calls[s] EXCEPT !.result = "ok", !.copy = copy, !.found = {}]
  OBVIOUS
<1>5. d \in Call /\ d.op = "accept" /\ d.result = "ok"
  BY <1>1, <1>3, <1>4 DEF Call
<1>6. calls' = [calls EXCEPT ![s] = d]
  BY <1>1, <1>2, <1>4 DEF AnswerRow, Answer, Inv, CallsOK
<1>7. Only(s) /\ calls'[s] = d
  BY <1>6 DEF Only, Inv, CallsOK
<1>8. Taken(s)'
  BY <1>5, <1>7, NullAssumption DEF Taken, Accepting
<1>9. Asked(s) /\ \A t \in Slots : ~Completed(t)
  BY DEF Asked, Accepting, Calm, CompletedApart
<1>10. AcceptsApart'
  BY <1>5, <1>7 DEF Calm, AcceptsApart, Accepting, Asked, Only
<1>11. CompletedApart'
  BY <1>5, <1>7, <1>9 DEF CompletedApart, Completed, Paying, Only
<1>12. QED
  BY <1>8, <1>10, <1>11 DEF Calm, MineShown

LEMMA StartCalm ==
    ASSUME Inv, Calm, NEW s \in Slots, calls[s] # NULL, calls[s].result = "pending",
           calls[s].op = "verify", calls[s].id \in Mine, View!Start(calls[s].id), AnswerRow(s),
           UNCHANGED <<currentRide, loading>>
    PROVE  Calm' /\ Mine' = Mine
<1>1. PICK r \in Rides : r = calls[s].id
  BY DEF Mine, View!ActiveOf
<1>2. /\ ride'[r].status = "in_progress" /\ ride'[r].driver = ride[r].driver
      /\ \A q \in Rides : q # r => ride'[q] = ride[q]
  BY <1>1 DEF View!Start, Inv, View!TableOK, View!Row
<1>3. Mine' = Mine
  BY <1>1, <1>2 DEF Mine, View!ActiveOf, View!DriverActive
<1>4. QED
  BY <1>3, AnswerCalm DEF AnswerRow

LEMMA CompleteCalm ==
    ASSUME Inv, OneRide, NEW s \in Slots, calls[s] # NULL, calls[s].result = "pending",
           calls[s].op = "complete", calls[s].id \in Mine, View!Complete(calls[s].id),
           AnswerRow(s), UNCHANGED <<currentRide, loading>>
    PROVE  Mine' = {} /\ (Calm => Calm')
<1>1. PICK r \in Rides : r = calls[s].id
  BY DEF Mine, View!ActiveOf
<1>2. ride'[r].status = "completed" /\ \A q \in Rides : q # r => ride'[q] = ride[q]
  BY <1>1 DEF View!Complete, Inv, View!TableOK, View!Row
<1>3. Mine = {r} /\ Mine' = {}
  BY <1>1, <1>2 DEF OneRide, Mine, View!ActiveOf, View!DriverActive
<1>4. Only(s) /\ calls'[s].op = "complete" /\ calls'[s].result = "ok"
  BY AnswerFacts DEF AnswerRow
<1>5. ASSUME Calm PROVE Calm'
  <2>1. AcceptsApart'
    BY <1>3, <1>4, <1>5 DEF Calm, AcceptsApart, Accepting, Asked, Only
  <2>2. MineShown' /\ \A t \in Slots : ~Asked(t)'
    BY <1>3, <1>4, <1>5 DEF Calm, AcceptsApart, MineShown, Asked, Accepting, Only
  <2>3. QED
    BY <1>3, <2>1, <2>2 DEF Calm, CompletedApart
<1>6. QED
  BY <1>3, <1>5

LEMMA ServeCalm ==
    ASSUME Inv, OneRide, Calm, NEW s \in Slots, Serve(s)
    PROVE  Calm'
<1>1. calls[s] # NULL /\ calls[s].result = "pending" /\ UNCHANGED <<currentRide, loading>>
  BY DEF Serve, Calm, AcceptsApart
<1>2. CASE ServePoll(s) \/ ServeNearby(s) \/ ServeSave(s)
  BY <1>1, <1>2, ReadCalm
<1>3. CASE Refuse(s)
  BY <1>1, <1>3, RefuseCalm
<1>4. CASE ServeAccept(s) /\ ~Refuse(s)
  BY <1>1, <1>4, AcceptCalm DEF ServeAccept
<1>5. CASE ServeVerify(s) /\ ~Refuse(s)
  BY <1>1, <1>5, StartCalm DEF ServeVerify
<1>6. CASE ServeComplete(s) /\ ~Refuse(s)
  BY <1>1, <1>6, CompleteCalm DEF ServeComplete
<1>7. QED
  BY <1>2, <1>3, <1>4, <1>5, <1>6 DEF Serve, ServeCash

\* An answer's continuation frees slot s.
LEMMA EndsCalm ==
    ASSUME Inv, Calm, NEW s \in Slots, calls[s] # NULL, Ends(s), UNCHANGED ride,
           Accepting(s) \/ loading' = loading,
           currentRide # NULL => currentRide' # NULL,
           Taken(s) => currentRide' # NULL
    PROVE  Calm'
<1>1. Mine' = Mine /\ Only(s) /\ calls'[s] = NULL
  BY MineRests DEF Ends, Only, Inv, CallsOK
<1>2. AcceptsApart'
  BY <1>1 DEF Calm, AcceptsApart, Accepting, Asked, Only
<1>3. MineShown'
  BY <1>1 DEF Calm, MineShown, Taken, Accepting, Only
<1>4. CompletedApart'
  BY <1>1 DEF Calm, CompletedApart, Completed, Paying, Asked, Accepting, Only
<1>5. QED
  BY <1>2, <1>3, <1>4 DEF Calm

\* With the completion, nothing is under way any more.
LEMMA PaidCalm ==
    ASSUME Inv, Calm, NEW s \in Slots, Completed(s), UNCHANGED <<ride, loading>>,
           \/ Ends(s)
           \/ /\ calls' = [calls EXCEPT ![s] = Request("cash", @.id)]
              /\ UNCHANGED currentRide
    PROVE  Calm' /\ Mine' = {}
<1>1. Mine' = {} /\ Mine = {} /\ \A t \in Slots : ~Asked(t)
  BY MineRests DEF Calm, CompletedApart
<1>2. /\ Only(s)
      /\ calls'[s] = NULL \/ calls'[s].op = "cash"
  BY DEF Ends, Request, Only, Inv, CallsOK
<1>3. AcceptsApart'
  <2>1. \A t \in Slots : t # s => calls'[t] = calls[t]
    BY <1>2 DEF Only
  <2>2. calls'[s] = NULL \/ (calls'[s].op = "cash" /\ calls'[s].result = "pending")
    BY DEF Ends, Request, Inv, CallsOK
  <2>3. QED
    BY <1>1, <2>1, <2>2 DEF Calm, AcceptsApart, Accepting, Asked
<1>4. MineShown' /\ CompletedApart'
  BY <1>1, <1>2 DEF MineShown, CompletedApart, Asked, Accepting, Only
<1>5. QED
  BY <1>1, <1>3, <1>4 DEF Calm

\* Every answer keeps calm, and only that to a completion, or to the payment
\* after it, takes a ride off the screen: nothing is under way then.
LEMMA ApplyCalm ==
    ASSUME Inv, Calm, NEW s \in Slots, Apply(s)
    PROVE  Calm' /\ (currentRide # NULL /\ currentRide' = NULL => Mine' = {})
<1>1. calls[s] # NULL /\ UNCHANGED <<ride, mishaps>> /\ calls[s].op # "save"
  BY DEF Apply, Calm, AcceptsApart
<1>2. CASE /\ calls[s].result = "ok"
           /\ PollAnswer(s) \/ AcceptAnswer(s) \/ VerifyAnswer(s)
  <2>1. currentRide' # NULL
    BY <1>1, <1>2, RideAnswerKeeps
  <2>2. QED
    BY <1>1, <1>2, <2>1, EndsCalm DEF PollAnswer, AcceptAnswer, VerifyAnswer, Accepting
<1>3. CASE calls[s].result = "ok" /\ NearbyAnswer(s)
  BY <1>1, <1>3, EndsCalm DEF NearbyAnswer, Taken, Accepting
<1>4. CASE (calls[s].result = "ok" /\ CompleteAnswer(s)) \/ CashAnswer(s)
  <2>1. Completed(s) /\ UNCHANGED loading
    BY <1>1, <1>4 DEF CompleteAnswer, CashAnswer, Completed, Paying, Calm, AcceptsApart
  <2>2. QED
    BY <1>1, <1>4, <2>1, PaidCalm DEF CompleteAnswer, CashAnswer
<1>5. CASE calls[s].result = "failed" /\ Error(s)
  <2>1. Accepting(s) \/ loading' = loading
    BY <1>1, <1>5, Zenon DEF Error, Accepting, Inv, FieldsOK, FlagsOK
  <2>2. UNCHANGED currentRide /\ ~Taken(s)
    BY <1>5 DEF Error, Taken
  <2>3. QED
    BY <1>1, <1>5, <2>1, <2>2, EndsCalm DEF Error
<1>6. QED
  BY <1>1, <1>2, <1>3, <1>4, <1>5 DEF Apply, SaveAnswer

\* Whatever happens, the driver has one ride under way at most: an acceptance
\* goes through only without one.
LEMMA OneRideServed ==
    ASSUME Inv, OneRide, NEW s \in Slots, Serve(s)
    PROVE  OneRide'
<1>0. ride \in [Rides -> View!Row]
  BY DEF Inv, View!TableOK
<1>1. CASE UNCHANGED ride
  BY <1>1, MineRests DEF OneRide
<1>2. PICK r : r = calls[s].id
  OBVIOUS
<1>3. CASE ServeAccept(s) /\ Mine = {} /\ \E c \in Codes : View!Assign(r, Me, c)
  <2>1. \A q \in Rides : q # r => ride'[q] = ride[q]
    BY <1>0, <1>3 DEF View!Assign
  <2>2. Mine' \subseteq {r}
    BY <1>3, <2>1 DEF Mine, View!ActiveOf
  <2>3. QED
    BY <2>2 DEF OneRide
<1>4. CASE r \in Mine /\ (View!Start(r) \/ View!Complete(r))
  <2>1. \A q \in Rides : q # r => ride'[q] = ride[q]
    BY <1>0, <1>4 DEF View!Start, View!Complete
  <2>2. Mine' \subseteq Mine
    BY <1>4, <2>1 DEF Mine, View!ActiveOf
  <2>3. QED
    BY <2>2 DEF OneRide
<1>5. QED
  BY <1>1, <1>2, <1>3, <1>4 DEF Serve, ServePoll, ServeNearby, ServeAccept, ServeVerify,
     ServeComplete, ServeCash, ServeSave, Refuse

LEMMA OneRideStays ==
    ASSUME Inv, OneRide, Next
    PROVE  OneRide'
<1>1. CASE UNCHANGED ride
  BY <1>1, MineRests DEF OneRide
<1>2. CASE Others
  BY <1>2, OthersCalm DEF OneRide
<1>3. CASE \E s \in Slots : Serve(s)
  BY <1>3, OneRideServed
<1>4. QED
  BY <1>1, <1>2, <1>3 DEF Next, NewRideRequest, HandleAcceptRide, FetchNearbyRides, Poll,
     HandleArrivedAtPickup, CancelOTP, HandleVerifyOTP, HandleCompleteRide, BackToRide,
     HandleConfirmPayment, HandleSaveProfile, Remount, Lose, Apply

\* One step of a page that has had no mishap after it.
LEMMA CalmStep ==
    ASSUME Inv, CalmInv, Next, mishaps' = 0
    PROVE  Calm' /\ (currentRide # NULL /\ currentRide' = NULL => Mine' = {})
<1>1. mishaps = 0
  <2>1. mishaps' = mishaps \/ mishaps' = mishaps + 1
    BY DEF Next, NewRideRequest, HandleAcceptRide, FetchNearbyRides, Poll,
       HandleArrivedAtPickup, CancelOTP, HandleVerifyOTP, HandleCompleteRide, BackToRide,
       HandleConfirmPayment, HandleSaveProfile, Remount, Others, Serve, Lose, Apply
  <2>2. QED
    BY <2>1, BoundAssumption DEF Inv, FieldsOK
<1>2. OneRide /\ Calm
  BY <1>1 DEF CalmInv
<1>3. CASE Page
  BY <1>2, <1>3, PageStaysCalm
<1>4. CASE Others
  BY <1>2, <1>4, OthersCalm DEF Others
<1>5. ASSUME NEW s \in Slots, Serve(s) PROVE Calm' /\ UNCHANGED currentRide
  BY <1>2, <1>5, ServeCalm DEF Serve
<1>6. ASSUME NEW s \in Slots, Apply(s)
      PROVE  Calm' /\ (currentRide # NULL /\ currentRide' = NULL => Mine' = {})
  BY <1>2, <1>6, ApplyCalm
<1>7. ~Remount /\ \A s \in Slots : ~Lose(s)
  BY <1>1 DEF Remount, Lose
<1>8. QED
  BY <1>3, <1>4, <1>5, <1>6, <1>7 DEF Next, Page

LEMMA CalmStutter ==
    ASSUME CalmInv, UNCHANGED vars
    PROVE  CalmInv'
BY DEF vars, CalmInv, OneRide, Calm, AcceptsApart, MineShown, CompletedApart, Accepting,
   Asked, Taken, Completed, Paying, Mine, View!ActiveOf

LEMMA CalmInvariance == Spec => []CalmInv
<1>1. Inv /\ CalmInv /\ [Next]_vars => CalmInv'
  BY CalmStep, CalmStutter, OneRideStays DEF CalmInv
<1>2. QED
  BY <1>1, CalmInit, Invariance, PTL DEF Spec

\* A page without a mishap never forgets a ride that is under way.  The
\* argument: a ride under way is on the screen or its acceptance is not
\* answered yet, so that no other is accepted meanwhile; a completion that goes
\* through was of the only ride.
THEOREM OpenRideKept == Spec => KeptWhileOpen
<1>1. Inv /\ CalmInv /\ [Next]_vars =>
          [mishaps' = 0 /\ currentRide # NULL /\ currentRide.id \in Mine' =>
              currentRide' # NULL]_vars
  BY CalmStep
<1>2. QED
  BY <1>1, CalmInvariance, Invariance, PTL DEF Spec, KeptWhileOpen

-----------------------------------------------------------------------------
(* What ScreenCatchesUp rests on: while the table rests, any poll that is    *)
(* under way gets the screen up to date.                                     *)

\* A poll that is not served yet, or whose answer is the row there is.
Asking(s) ==
    /\ calls[s] # NULL /\ calls[s].op = "poll"
    /\ \/ calls[s].result = "pending"
       \/ calls[s].result = "ok" /\ \E r \in Mine : calls[s].copy = View!CopyOf(r)

\* It goes on until the screen shows the driver's open ride as it is.
PollsCatchUp ==
    [][\A s \in Slots : Asking(s) /\ Mine # {} /\ UNCHANGED <<ride, mishaps>> =>
           Asking(s)' \/ ScreenIsCurrent']_vars

\* A step that leaves the slot alone.
LEMMA AskingRests ==
    ASSUME NEW s \in Slots, Asking(s), UNCHANGED ride, calls'[s] = calls[s]
    PROVE  Asking(s)'
<1>1. Mine' = Mine /\ \A r \in Rides : View!CopyOf(r)' = View!CopyOf(r)
  BY MineRests DEF View!CopyOf
<1>2. Mine \subseteq Rides
  BY DEF Mine, View!ActiveOf
<1>3. QED
  BY <1>1, <1>2 DEF Asking

\* A step that gives a slot other contents leaves the others alone.
LEMMA OthersRest ==
    ASSUME CallsOK, NEW s \in Slots, NEW t \in Slots, s # t,
           NEW d, calls' = [calls EXCEPT ![t] = d]
    PROVE  calls'[s] = calls[s]
BY DEF CallsOK

\* The backend answers with the driver's ride.
LEMMA PollIsFresh ==
    ASSUME View!TableOK, CallsOK, NEW s \in Slots, Asking(s), Mine # {}, Serve(s)
    PROVE  Asking(s)'
<1>1. calls[s] \in Call /\ calls[s].op = "poll" /\ calls[s].result = "pending"
  BY DEF Asking, Serve, CallsOK
<1>2. PICK r \in Mine : Answer(s, "ok", View!CopyOf(r), {}) /\ UNCHANGED ride
  BY <1>1 DEF Serve, ServePoll, ServeNearby, ServeAccept, ServeVerify, ServeComplete,
     ServeCash, ServeSave
<1>3. PICK d : d = [calls[s] EXCEPT !.result = "ok", !.copy = View!CopyOf(r), !.found = {}]
  OBVIOUS
<1>4. d.op = "poll" /\ d.result = "ok" /\ d.copy = View!CopyOf(r)
  BY <1>1, <1>3 DEF Call
<1>5. d \in Call
  <2>1. r \in Rides
    BY DEF Mine, View!ActiveOf
  <2>2. View!CopyOf(r) \in View!Copy
    BY <2>1 DEF View!TableOK, View!CopyOf, View!Copy
  <2>3. QED
    BY <1>1, <1>3, <2>2 DEF Call
<1>6. calls'[s] = d
  BY <1>1, <1>2, <1>3 DEF Answer, CallsOK
<1>7. View!CopyOf(r)' = View!CopyOf(r) /\ Mine' = Mine
  BY <1>2, MineRests DEF View!CopyOf
<1>8. QED
  BY <1>4, <1>5, <1>6, <1>7, NullAssumption DEF Asking

\* The page takes over ride and panel together, and there is one ride only.
LEMMA FreshAnswerShows ==
    ASSUME CallsOK, OneRide, NEW s \in Slots, Asking(s), Apply(s)
    PROVE  ScreenIsCurrent'
<1>1. calls[s].op = "poll" /\ calls[s].result = "ok" /\ UNCHANGED ride
  BY DEF Asking, Apply, CashAnswer, SaveAnswer
<1>2. PICK r \in Mine : calls[s].copy = View!CopyOf(r)
  BY <1>1 DEF Asking
<1>3. PollAnswer(s)
  BY <1>1 DEF Apply, NearbyAnswer, AcceptAnswer, VerifyAnswer, CompleteAnswer, CashAnswer,
     SaveAnswer
<1>4. currentRide' = calls[s].copy /\ driverStep' = StepOf(calls[s].copy.row.status)
  BY <1>3 DEF PollAnswer
<1>5. calls[s].copy.id = r /\ calls[s].copy.row = ride[r]
  BY <1>2 DEF View!CopyOf
<1>6. calls[s].copy # NULL
  BY <1>1, NullAssumption DEF CallsOK, SlotOK, Asking
<1>7. Mine' = {r}
  BY <1>1, <1>2, MineRests DEF OneRide
<1>8. QED
  BY <1>1, <1>4, <1>5, <1>6, <1>7 DEF ScreenIsCurrent

\* No answer of another age and nothing the driver does keeps a poll from
\* getting the screen up to date (DriverDashboard.jsx:85-103).
THEOREM PollsShowTheRide == Spec => PollsCatchUp
<1>1. ASSUME Inv, OneRide, Next, NEW s \in Slots, Asking(s), Mine # {},
             UNCHANGED <<ride, mishaps>>
      PROVE  Asking(s)' \/ ScreenIsCurrent'
  <2>0. View!TableOK /\ CallsOK /\ mishaps \in Nat
    BY <1>1, BoundAssumption DEF Inv, FieldsOK
  <2>1. CASE \/ \E r \in Rides : NewRideRequest(r) \/ HandleAcceptRide(r)
             \/ FetchNearbyRides \/ Poll \/ HandleArrivedAtPickup \/ CancelOTP
             \/ HandleVerifyOTP \/ HandleCompleteRide \/ BackToRide \/ HandleConfirmPayment
             \/ Others
    <3>1. UNCHANGED calls \/ \E op, id : Send(op, id)
      BY <2>1 DEF NewRideRequest, HandleAcceptRide, FetchNearbyRides, Poll,
         HandleArrivedAtPickup, CancelOTP, HandleVerifyOTP, HandleCompleteRide, BackToRide,
         HandleConfirmPayment, Others
    <3>2. ASSUME NEW op, NEW id, Send(op, id) PROVE calls'[s] = calls[s]
      <4>1. PICK t \in Free : calls' = [calls EXCEPT ![t] = Request(op, id)]
        BY <3>2 DEF Send
      <4>2. t \in Slots /\ s # t
        BY <1>1, <4>1 DEF Free, Asking
      <4>3. QED
        BY <2>0, <4>1, <4>2, OthersRest
    <3>3. calls'[s] = calls[s]
      BY <3>1, <3>2
    <3>4. QED
      BY <1>1, <3>3, AskingRests
  <2>2. ~Remount /\ ~HandleSaveProfile /\ \A t \in Slots : ~Lose(t)
    <3>1. mishaps' # mishaps + 1
      BY <1>1, <2>0
    <3>2. QED
      BY <3>1, Zenon DEF Remount, HandleSaveProfile, Lose
  <2>3. ASSUME NEW t \in Slots, Serve(t) \/ Apply(t)
        PROVE  Asking(s)' \/ ScreenIsCurrent'
    <3>1. CASE t = s
      BY <1>1, <2>0, <2>3, <3>1, PollIsFresh, FreshAnswerShows
    <3>2. CASE t # s
      <4>1. \E d : calls' = [calls EXCEPT ![t] = d]
        BY <2>3, Zenon DEF Serve, ServePoll, ServeNearby, ServeAccept, ServeVerify,
           ServeComplete, ServeCash, ServeSave, Answer, AnswerRow, Refuse, Apply, PollAnswer,
           NearbyAnswer, AcceptAnswer, VerifyAnswer, CompleteAnswer, CashAnswer, SaveAnswer,
           Error, Ends
      <4>2. calls'[s] = calls[s]
        BY <2>0, <3>2, <4>1, OthersRest
      <4>3. QED
        BY <1>1, <4>2, AskingRests
    <3>3. QED
      BY <3>1, <3>2
  <2>4. QED
    BY <1>1, <2>1, <2>2, <2>3 DEF Next
<1>2. Inv /\ CalmInv /\ [Next]_vars =>
          [\A s \in Slots : Asking(s) /\ Mine # {} /\ UNCHANGED <<ride, mishaps>> =>
               Asking(s)' \/ ScreenIsCurrent']_vars
  BY <1>1 DEF CalmInv
<1>3. QED
  BY <1>2, CalmInvariance, Invariance, PTL DEF Spec, PollsCatchUp
=============================================================================

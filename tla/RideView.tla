------------------------------ MODULE RideView ------------------------------
(***************************************************************************)
(* What a screen that follows one ride promises, over the rides table of   *)
(* RideLedger.  The screen keeps a copy of a row; it is refreshed at times *)
(* of its own choosing, from answers that may be old and may overtake each *)
(* other, so all that is promised is that a copy is a row the ride has     *)
(* really had: never a stage the ride has not reached, never a driver or   *)
(* an OTP other than the ride's own.                                       *)
(*                                                                         *)
(* UserHome and DriverDashboard implement this module.                     *)
(***************************************************************************)
EXTENDS RideLedger, Integers, TLAPS

VARIABLE seen       \* the copy on the screen, or NULL

-----------------------------------------------------------------------------
Copy == [id : Rides, row : Row]

\* How far a ride has come; a ride only ever goes up.
Stage == [s \in Statuses |->
    CASE s = "none"           -> 0
      [] s = "requested"      -> 1
      [] s = "accepted"       -> 2
      [] s = "driver_arrived" -> 3
      [] s = "in_progress"    -> 4
      [] s = "completed"      -> 5
      [] s = "cancelled"      -> 6]

\* A ride whose row is now could have had the row old before.
MayHaveBeen(old, now) ==
    /\ old.status # "none"
    /\ old.owner = now.owner
    /\ Stage[old.status] <= Stage[now.status]
    /\ old.status = "requested" => old.driver = NULL /\ old.otp = NULL
    /\ old.status \in {"accepted", "driver_arrived", "in_progress", "completed"} =>
           old.driver # NULL /\ old.driver = now.driver /\ old.otp = now.otp
    /\ old.status = "cancelled" => old = now

CopyOf(r) == [id |-> r, row |-> ride[r]]

\* A copy is never ahead of the ride, and agrees with it on whose it is.
Lags(copy) == MayHaveBeen(copy.row, ride[copy.id])

-----------------------------------------------------------------------------
\* The screen takes over any row that some ride has had.
See ==
    /\ seen' \in {copy \in Copy : Lags(copy)}
    /\ UNCHANGED ride

Forget == seen' = NULL /\ UNCHANGED ride

ViewInit == Init /\ seen = NULL

ViewNext ==
    \/ Next /\ UNCHANGED seen
    \/ See
    \/ Forget

ViewSpec == ViewInit /\ [][ViewNext]_<<ride, seen>>

\* Whatever the screen shows was true once.  Follows from ViewSpec because
\* the ledger never takes a stage, a driver or an OTP back.
NeverAhead == seen # NULL => seen \in Copy /\ Lags(seen)

-----------------------------------------------------------------------------
\* A ride has a driver exactly from its assignment on, which is what makes a
\* fresh copy one that lags.
RowsSound == \A r \in Rides :
    /\ ride[r].status = "none" => ride[r] = NoRow
    /\ ride[r].status = "requested" => ride[r].driver = NULL /\ ride[r].otp = NULL
    /\ ride[r].status \in DriverActive \cup {"completed"} => ride[r].driver # NULL

TableOK == ride \in [Rides -> Row] /\ RowsSound

LEMMA TableInit == Init => TableOK
BY DEF Init, TableOK, RowsSound, NoRow, Row, Statuses, DriverActive

\* The ledger keeps its rows sound.
LEMMA TableKept ==
    ASSUME NULL \notin Profiles, TableOK, Next
    PROVE  TableOK'
<1> USE DEF TableOK, RowsSound, Row, NoRow, Statuses, DriverActive
<1>1. PICK r \in Rides : \/ \E u \in Riders : Request(u, r)
                         \/ \E p \in Profiles, c \in Codes : Assign(r, p, c)
                         \/ Start(r)
                         \/ Complete(r)
                         \/ Cancel(r)
  BY DEF Next
<1>2. CASE \E u \in Riders : Request(u, r)
  <2>1. PICK u \in Riders : Request(u, r)
    BY <1>2
  <2>2. PICK row : row = [NoRow EXCEPT !.status = "requested", !.owner = u]
    OBVIOUS
  <2>3. row \in Row /\ row.status = "requested" /\ row.driver = NULL /\ row.otp = NULL
    BY <2>2
  <2>4. ride' = [ride EXCEPT ![r] = row]
    BY <2>1, <2>2 DEF Request
  <2>5. QED
    BY <2>3, <2>4
<1>3. CASE \E p \in Profiles, c \in Codes : Assign(r, p, c)
  <2>1. PICK p \in Profiles, c \in Codes : Assign(r, p, c)
    BY <1>3
  <2>2. PICK row : row = [ride[r] EXCEPT !.status = "accepted", !.driver = p, !.otp = c]
    OBVIOUS
  <2>3. row \in Row /\ row.status = "accepted" /\ row.driver = p
    BY <2>2
  <2>4. ride' = [ride EXCEPT ![r] = row]
    BY <2>1, <2>2 DEF Assign
  <2>5. QED
    BY <2>3, <2>4
<1>4. CASE Start(r)
  BY <1>4 DEF Start
<1>5. CASE Complete(r)
  BY <1>5 DEF Complete
<1>6. CASE Cancel(r)
  BY <1>6 DEF Cancel
<1>7. QED
  BY <1>1, <1>2, <1>3, <1>4, <1>5, <1>6

\* A row that is there could have been what it is.
LEMMA FreshCopyLags ==
    ASSUME TableOK, NEW r \in Rides, ride[r].status # "none"
    PROVE  CopyOf(r) \in Copy /\ Lags(CopyOf(r))
BY DEF TableOK, RowsSound, CopyOf, Copy, Lags, MayHaveBeen, Row, Statuses, Stage, DriverActive

\* No operation of the ledger leaves a copy ahead of the table.
LEMMA LagsKept ==
    ASSUME TableOK, Next, NEW copy \in Copy, Lags(copy)
    PROVE  Lags(copy)'
<1> USE DEF TableOK, Row, NoRow, Statuses, DriverActive, Copy, Lags, MayHaveBeen, Stage
<1>1. PICK r \in Rides : \/ \E u \in Riders : Request(u, r)
                         \/ \E p \in Profiles, c \in Codes : Assign(r, p, c)
                         \/ Start(r)
                         \/ Complete(r)
                         \/ Cancel(r)
  BY DEF Next
<1>2. CASE \E u \in Riders : Request(u, r)
  BY <1>2 DEF Request
<1>3. CASE \E p \in Profiles, c \in Codes : Assign(r, p, c)
  BY <1>3 DEF Assign
<1>4. CASE Start(r)
  BY <1>4 DEF Start
<1>5. CASE Complete(r)
  BY <1>5 DEF Complete
<1>6. CASE Cancel(r)
  BY <1>6 DEF Cancel
<1>7. QED
  BY <1>1, <1>2, <1>3, <1>4, <1>5, <1>6

\* A screen never shows what the ride has not been: the ledger never takes a
\* stage, a driver or an OTP back.
THEOREM ScreenIsNeverAhead ==
    ASSUME NULL \notin Profiles
    PROVE  ViewSpec => []NeverAhead
<1>1. ViewInit => TableOK /\ NeverAhead
  BY TableInit DEF ViewInit, NeverAhead
<1>2. TableOK /\ NeverAhead /\ [ViewNext]_<<ride, seen>> => TableOK' /\ NeverAhead'
  <2> SUFFICES ASSUME TableOK, NeverAhead, [ViewNext]_<<ride, seen>>
               PROVE  TableOK' /\ NeverAhead'
    OBVIOUS
  <2>1. CASE Next /\ UNCHANGED seen
    <3>1. TableOK'
      BY <2>1, TableKept
    <3>2. seen # NULL => Lags(seen)'
      BY <2>1, LagsKept DEF NeverAhead
    <3>3. QED
      BY <2>1, <3>1, <3>2 DEF NeverAhead, Lags, Copy
  <2>2. CASE See
    BY <2>2 DEF See, NeverAhead, TableOK, RowsSound, Lags
  <2>3. CASE Forget \/ UNCHANGED <<ride, seen>>
    BY <2>3 DEF Forget, NeverAhead, TableOK, RowsSound, Lags
  <2>4. QED
    BY <2>1, <2>2, <2>3 DEF ViewNext
<1>3. QED
  BY <1>1, <1>2, PTL DEF ViewSpec
=============================================================================

-------------------------- MODULE RideServiceProofs --------------------------
(***************************************************************************)
(* Proofs about RideService, for any numbers of users, rides and handlers, *)
(* any assignment of drivers rows to accounts, with or without the unique  *)
(* indexes and under any of the failures.                                  *)
(***************************************************************************)
EXTENDS RideService, TLAPS

-----------------------------------------------------------------------------
(* Type correctness *)

\* Writing a status, or an assignment, into a row leaves a row.
LEMMA RowsTyped ==
    ASSUME ride \in [Rides -> Ledger!Row], NEW r \in Rides
    PROVE  /\ \A s \in Ledger!Statuses :
                 [ride EXCEPT ![r].status = s] \in [Rides -> Ledger!Row]
           /\ \A p \in Profiles, c \in Codes :
                 [ride EXCEPT ![r] = [@ EXCEPT !.status = "accepted", !.driver = p, !.otp = c]]
                    \in [Rides -> Ledger!Row]
           /\ \A u \in Riders :
                 [ride EXCEPT ![r] = [Ledger!NoRow EXCEPT !.status = "requested", !.owner = u]]
                    \in [Rides -> Ledger!Row]
<1>1. ASSUME NEW s \in Ledger!Statuses
      PROVE  [ride EXCEPT ![r].status = s] \in [Rides -> Ledger!Row]
  <2>1. [ride[r] EXCEPT !.status = s] \in Ledger!Row
    BY DEF Ledger!Row
  <2>2. QED
    BY <2>1
<1>2. ASSUME NEW p \in Profiles, NEW c \in Codes
      PROVE  [ride EXCEPT ![r] = [@ EXCEPT !.status = "accepted", !.driver = p, !.otp = c]]
                \in [Rides -> Ledger!Row]
  <2>1. [ride[r] EXCEPT !.status = "accepted", !.driver = p, !.otp = c] \in Ledger!Row
    BY DEF Ledger!Row, Ledger!Statuses
  <2>2. QED
    BY <2>1
<1>3. ASSUME NEW u \in Riders
      PROVE  [ride EXCEPT ![r] = [Ledger!NoRow EXCEPT !.status = "requested", !.owner = u]]
                \in [Rides -> Ledger!Row]
  BY DEF Ledger!Row, Ledger!Statuses, Ledger!NoRow
<1>4. QED
  BY <1>1, <1>2, <1>3

\* Every statement of every handler keeps each variable in its type.
LEMMA ProceedTyped ==
    ASSUME TypeOK, NEW h \in Handlers, Proceed(h)
    PROVE  TypeOK'
<1> DEFINE r == req[h].ride
           p == req[h].id
<1>0. req[h] \in Request /\ RequestOK(h)
  BY DEF TypeOK
<1>1. ASSUME AcceptLock(h) PROVE TypeOK'
  BY <1>0, <1>1 DEF TypeOK, AcceptLock, Continue, Return, RequestOK, Request, Idle, Steps
<1>2. ASSUME AcceptCount(h) PROVE TypeOK'
  BY <1>0, <1>2 DEF TypeOK, AcceptCount, Continue, Return, Release, RequestOK, Request, Idle, Steps
<1>3. ASSUME NEW c \in Codes, AcceptUpdate(h, c) PROVE TypeOK'
  <2>1. r \in Rides
    BY <1>0, <1>3 DEF AcceptUpdate, RequestOK, Idle
  <2>a. \/ ride' = ride
        \/ p \in Profiles /\ ride' = [ride EXCEPT ![r] = [@ EXCEPT !.status = "accepted", !.driver = p, !.otp = c]]
    BY <1>0, <1>3 DEF AcceptUpdate, RequestOK
  <2>b. ASSUME ride' = ride PROVE ride' \in [Rides -> Ledger!Row]
    BY <2>b DEF TypeOK
  <2>c. ASSUME p \in Profiles /\ ride' = [ride EXCEPT ![r] = [@ EXCEPT !.status = "accepted", !.driver = p, !.otp = c]]
        PROVE  ride' \in [Rides -> Ledger!Row]
    BY <2>1, <2>c, RowsTyped DEF TypeOK, Ledger!Statuses
  <2>2. ride' \in [Rides -> Ledger!Row]
    BY <2>a, <2>b, <2>c
  <2>3. QED
    BY <1>0, <1>3, <2>1, <2>2 DEF TypeOK, AcceptUpdate, Continue, Return, Release, RequestOK, Request, Idle, Steps
<1>4. ASSUME AcceptReply(h) PROVE TypeOK'
  BY <1>0, <1>4 DEF TypeOK, AcceptReply, Return, RequestOK, Request, Idle, Steps, Events
<1>5. ASSUME StartUpdate(h) PROVE TypeOK'
  <2>1. r \in Rides
    BY <1>0, <1>5 DEF StartUpdate, RequestOK, Idle
  <2>a. \/ ride' = ride
        \/ ride' = [ride EXCEPT ![r].status = "in_progress"]
    BY <1>0, <1>5 DEF StartUpdate, RequestOK
  <2>b. ASSUME ride' = ride PROVE ride' \in [Rides -> Ledger!Row]
    BY <2>b DEF TypeOK
  <2>c. ASSUME ride' = [ride EXCEPT ![r].status = "in_progress"]
        PROVE  ride' \in [Rides -> Ledger!Row]
    BY <2>1, <2>c, RowsTyped DEF TypeOK, Ledger!Statuses
  <2>2. ride' \in [Rides -> Ledger!Row]
    BY <2>a, <2>b, <2>c
  <2>3. QED
    BY <1>0, <1>5, <2>1, <2>2 DEF TypeOK, StartUpdate, Continue, Return, RequestOK, Request, Idle, Steps
<1>6. ASSUME StartReply(h) PROVE TypeOK'
  BY <1>0, <1>6 DEF TypeOK, StartReply, Return, RequestOK, Request, Idle, Steps, Events
<1>7. ASSUME CompleteUpdate(h) PROVE TypeOK'
  <2>1. r \in Rides
    BY <1>0, <1>7 DEF CompleteUpdate, RequestOK, Idle
  <2>a. \/ ride' = ride
        \/ ride' = [ride EXCEPT ![r].status = "completed"]
    BY <1>0, <1>7 DEF CompleteUpdate, RequestOK
  <2>b. ASSUME ride' = ride PROVE ride' \in [Rides -> Ledger!Row]
    BY <2>b DEF TypeOK
  <2>c. ASSUME ride' = [ride EXCEPT ![r].status = "completed"]
        PROVE  ride' \in [Rides -> Ledger!Row]
    BY <2>1, <2>c, RowsTyped DEF TypeOK, Ledger!Statuses
  <2>2. ride' \in [Rides -> Ledger!Row]
    BY <2>a, <2>b, <2>c
  <2>3. QED
    BY <1>0, <1>7, <2>1, <2>2 DEF TypeOK, CompleteUpdate, Continue, Return, RequestOK, Request, Idle, Steps
<1>8. ASSUME CompleteReply(h) PROVE TypeOK'
  BY <1>0, <1>8 DEF TypeOK, CompleteReply, Return, RequestOK, Request, Idle, Steps, Events
<1>9. ASSUME CancelUpdate(h) PROVE TypeOK'
  <2>1. r \in Rides
    BY <1>0, <1>9 DEF CancelUpdate, RequestOK, Idle
  <2>2. ride' \in [Rides -> Ledger!Row]
    BY <1>0, <1>9, <2>1, RowsTyped DEF TypeOK, CancelUpdate, RequestOK, Ledger!Statuses
  <2>3. QED
    BY <1>0, <1>9, <2>1, <2>2 DEF TypeOK, CancelUpdate, Continue, Return, RequestOK, Request, Idle, Steps
<1>10. ASSUME NEW found \in BOOLEAN, CancelReply(h, found) PROVE TypeOK'
  BY <1>0, <1>10 DEF TypeOK, CancelReply, Return, RequestOK, Request, Idle, Steps, Events
<1>11. QED
  BY <1>1, <1>2, <1>3, <1>4, <1>5, <1>6, <1>7, <1>8, <1>9, <1>10 DEF Proceed

\* A new request names a ride and, if it is an accept, one of the caller's
\* own drivers rows.
LEMMA CallTyped ==
    ASSUME TypeOK, NEW h \in Handlers, Call(h)
    PROVE  TypeOK'
<1>1. PICK r \in Rides :
        \/ \E p \in Profiles : AcceptRide(h, Account[p], p, r)
        \/ \E d \in Drivers, c \in Codes : StartRideWithOTP(h, d, r, c)
        \/ \E d \in Drivers : StartRide(h, d, r)
        \/ \E d \in Drivers : CompleteRide(h, d, r)
        \/ \E u \in Riders : CancelRide(h, u, r)
  BY DEF Call
<1> USE DEF TypeOK, Begin, RequestOK, Request, Idle, Steps
<1>2. ASSUME NEW p \in Profiles, AcceptRide(h, Account[p], p, r) PROVE TypeOK'
  BY <1>2 DEF AcceptRide
<1>3. ASSUME NEW d \in Drivers, NEW c \in Codes, StartRideWithOTP(h, d, r, c) PROVE TypeOK'
  BY <1>3 DEF StartRideWithOTP
<1>4. ASSUME NEW d \in Drivers, StartRide(h, d, r) PROVE TypeOK'
  BY <1>4 DEF StartRide
<1>5. ASSUME NEW d \in Drivers, CompleteRide(h, d, r) PROVE TypeOK'
  BY <1>5 DEF CompleteRide
<1>6. ASSUME NEW u \in Riders, CancelRide(h, u, r) PROVE TypeOK'
  <2>1. ride[r].driver \in Profiles \cup {NULL}
    BY DEF Ledger!Row
  <2>2. QED
    BY <1>6, <2>1 DEF CancelRide
<1>7. QED
  BY <1>1, <1>2, <1>3, <1>4, <1>5, <1>6

\* Every step of the service, a stutter included, keeps the types.
LEMMA TypeStep == TypeOK /\ [Next]_vars => TypeOK'
<1> SUFFICES ASSUME TypeOK, [Next]_vars PROVE TypeOK'
  OBVIOUS
<1>1. ASSUME NEW u \in Riders, NEW r \in Rides, NEW answered \in BOOLEAN,
             CreateRideRequest(u, r, answered)
      PROVE  TypeOK'
  <2>1. ride' \in [Rides -> Ledger!Row]
    BY <1>1, RowsTyped DEF TypeOK, CreateRideRequest
  <2>2. QED
    BY <1>1, <2>1 DEF TypeOK, CreateRideRequest, RequestOK
<1>2. ASSUME NEW h \in Handlers, Call(h) PROVE TypeOK'
  BY <1>2, CallTyped
<1>3. ASSUME NEW h \in Handlers, Proceed(h) PROVE TypeOK'
  BY <1>3, ProceedTyped
<1>4. ASSUME NEW h \in Handlers, Fail(h) PROVE TypeOK'
  BY <1>4 DEF TypeOK, Fail, Return, Release, RequestOK, Request, Idle, Steps
<1>5. ASSUME Crash PROVE TypeOK'
  BY <1>5 DEF TypeOK, Crash, RequestOK, Request, Idle, Steps
<1>6. ASSUME NEW r \in Rides, Goroutine(r) PROVE TypeOK'
  BY <1>6 DEF TypeOK, Goroutine, GeoAdd, ZRem, RequestOK
<1>7. ASSUME UNCHANGED vars PROVE TypeOK'
  BY <1>7 DEF TypeOK, vars, RequestOK
<1>8. QED
  BY <1>1, <1>2, <1>3, <1>4, <1>5, <1>6, <1>7 DEF Next

\* The empty table and the idle handlers are well typed.
LEMMA TypeInit == Init => TypeOK
  BY DEF Init, TypeOK, RequestOK, Request, Idle, Steps, Ledger!Row, Ledger!Statuses,
         Ledger!NoRow

\* Every reachable state is well typed; in particular an accept works with a
\* drivers row of a user its handler serves.
THEOREM TypeCorrect == Spec => []TypeOK
<1>1. TypeOK /\ [Next]_vars => TypeOK'
  BY TypeStep
<1>2. QED
  BY TypeInit, <1>1, PTL DEF Spec

-----------------------------------------------------------------------------
(* The row lock of AcceptRide *)

\* At the start no row is locked and no transaction is open.
LEMMA LockInit == Init => CheckedStatusHolds
  BY NullAssumption DEF Init, CheckedStatusHolds, LockOwner, LockedIsRequested, InTransaction, Idle

\* No step of any handler changes the status of a row that another one has
\* locked, and locks are taken and given up with the transaction.
LEMMA LockStep == TypeOK /\ CheckedStatusHolds /\ [Next]_vars => CheckedStatusHolds'
<1> SUFFICES ASSUME TypeOK, CheckedStatusHolds, [Next]_vars PROVE CheckedStatusHolds'
  OBVIOUS
<1>1. ASSUME NEW u \in Riders, NEW r \in Rides, NEW answered \in BOOLEAN,
             CreateRideRequest(u, r, answered)
      PROVE  CheckedStatusHolds'
  BY <1>1 DEF TypeOK, CreateRideRequest, CheckedStatusHolds, LockOwner, LockedIsRequested, Ledger!NoRow, Ledger!Row
<1>2. ASSUME NEW h \in Handlers, Call(h) PROVE CheckedStatusHolds'
  BY <1>2 DEF TypeOK, Call, AcceptRide, StartRideWithOTP, StartRide, CompleteRide, CancelRide,
              Begin, Idle, CheckedStatusHolds, LockOwner, LockedIsRequested, InTransaction
<1>3. ASSUME NEW h \in Handlers, AcceptLock(h) PROVE CheckedStatusHolds'
  <2>1. req[h] \in Request /\ RequestOK(h) /\ req[h].ride \in Rides
    BY <1>3 DEF TypeOK, AcceptLock, RequestOK, Idle
  <2>2. LockOwner'
    BY <1>3, <2>1, NullAssumption
       DEF TypeOK, AcceptLock, Continue, Return, Request, Steps, Idle, CheckedStatusHolds, LockOwner, InTransaction
  <2>3. LockedIsRequested'
    BY <1>3, <2>1, NullAssumption
       DEF TypeOK, AcceptLock, Continue, Return, CheckedStatusHolds, LockOwner, LockedIsRequested, InTransaction
  <2>4. QED
    BY <2>2, <2>3 DEF CheckedStatusHolds
<1>4. ASSUME NEW h \in Handlers, AcceptCount(h) PROVE CheckedStatusHolds'
  <2>1. req[h] \in Request /\ RequestOK(h) /\ req[h].ride \in Rides
    BY <1>4 DEF TypeOK, AcceptCount, RequestOK, Idle
  <2>2. LockOwner'
    BY <1>4, <2>1, NullAssumption
       DEF TypeOK, AcceptCount, Continue, Return, Release, Request, Steps, Idle, CheckedStatusHolds, LockOwner, InTransaction
  <2>3. LockedIsRequested'
    BY <1>4, <2>1, NullAssumption
       DEF TypeOK, AcceptCount, Continue, Return, Release, CheckedStatusHolds, LockOwner, LockedIsRequested, InTransaction
  <2>4. QED
    BY <2>2, <2>3 DEF CheckedStatusHolds
<1>5. ASSUME NEW h \in Handlers, NEW c \in Codes, AcceptUpdate(h, c) PROVE CheckedStatusHolds'
  <2>1. req[h] \in Request /\ RequestOK(h) /\ req[h].ride \in Rides
    BY <1>5 DEF TypeOK, AcceptUpdate, RequestOK, Idle
  <2>2. LockOwner'
    BY <1>5, <2>1, NullAssumption
       DEF TypeOK, AcceptUpdate, Continue, Return, Release, Request, Steps, Idle, CheckedStatusHolds, LockOwner, InTransaction
  <2>3. LockedIsRequested'
    BY <1>5, <2>1, NullAssumption
       DEF TypeOK, AcceptUpdate, Continue, Return, Release, CheckedStatusHolds, LockOwner, LockedIsRequested, InTransaction
  <2>4. QED
    BY <2>2, <2>3 DEF CheckedStatusHolds
<1>6. ASSUME NEW h \in Handlers, AcceptReply(h) PROVE CheckedStatusHolds'
  BY <1>6 DEF TypeOK, AcceptReply, Return, Idle, CheckedStatusHolds, LockOwner, LockedIsRequested, InTransaction
<1>7. ASSUME NEW h \in Handlers, StartUpdate(h) PROVE CheckedStatusHolds'
  <2>1. req[h] \in Request /\ RequestOK(h) /\ req[h].ride \in Rides
    BY <1>7 DEF TypeOK, StartUpdate, RequestOK, Idle
  <2>2. LockOwner'
    BY <1>7, <2>1, NullAssumption
       DEF TypeOK, StartUpdate, Continue, Return, Request, Steps, Idle, CheckedStatusHolds, LockOwner, InTransaction
  <2>3. LockedIsRequested'
    BY <1>7, <2>1, NullAssumption
       DEF TypeOK, StartUpdate, Continue, Return, CheckedStatusHolds, LockOwner, LockedIsRequested, InTransaction
  <2>4. QED
    BY <2>2, <2>3 DEF CheckedStatusHolds
<1>8. ASSUME NEW h \in Handlers, StartReply(h) PROVE CheckedStatusHolds'
  BY <1>8 DEF TypeOK, StartReply, Return, Idle, CheckedStatusHolds, LockOwner, LockedIsRequested, InTransaction
<1>9. ASSUME NEW h \in Handlers, CompleteUpdate(h) PROVE CheckedStatusHolds'
  <2>1. req[h] \in Request /\ RequestOK(h) /\ req[h].ride \in Rides
    BY <1>9 DEF TypeOK, CompleteUpdate, RequestOK, Idle
  <2>2. LockOwner'
    BY <1>9, <2>1, NullAssumption
       DEF TypeOK, CompleteUpdate, Continue, Return, Request, Steps, Idle, CheckedStatusHolds, LockOwner, InTransaction
  <2>3. LockedIsRequested'
    BY <1>9, <2>1, NullAssumption
       DEF TypeOK, CompleteUpdate, Continue, Return, CheckedStatusHolds, LockOwner, LockedIsRequested, InTransaction
  <2>4. QED
    BY <2>2, <2>3 DEF CheckedStatusHolds
<1>10. ASSUME NEW h \in Handlers, CompleteReply(h) PROVE CheckedStatusHolds'
  BY <1>10 DEF TypeOK, CompleteReply, Return, Idle, CheckedStatusHolds, LockOwner, LockedIsRequested, InTransaction
<1>11. ASSUME NEW h \in Handlers, CancelUpdate(h) PROVE CheckedStatusHolds'
  BY <1>11 DEF TypeOK, CancelUpdate, Continue, CheckedStatusHolds, LockOwner, LockedIsRequested, InTransaction
<1>12. ASSUME NEW h \in Handlers, NEW found \in BOOLEAN, CancelReply(h, found)
       PROVE  CheckedStatusHolds'
  BY <1>12 DEF TypeOK, CancelReply, Return, Idle, CheckedStatusHolds, LockOwner, LockedIsRequested, InTransaction
<1>13. ASSUME NEW h \in Handlers, Fail(h) PROVE CheckedStatusHolds'
  BY <1>13, NullAssumption
     DEF TypeOK, Fail, Return, Release, Idle, CheckedStatusHolds, LockOwner, LockedIsRequested, InTransaction
<1>14. ASSUME Crash PROVE CheckedStatusHolds'
  BY <1>14, NullAssumption DEF TypeOK, Crash, Idle, CheckedStatusHolds, LockOwner, LockedIsRequested, InTransaction
<1>15. ASSUME NEW r \in Rides, Goroutine(r) PROVE CheckedStatusHolds'
  BY <1>15 DEF Goroutine, GeoAdd, ZRem, CheckedStatusHolds, LockOwner, LockedIsRequested
<1>16. ASSUME UNCHANGED vars PROVE CheckedStatusHolds'
  BY <1>16 DEF vars, CheckedStatusHolds, LockOwner, LockedIsRequested
<1>17. QED
  BY <1>1, <1>2, <1>3, <1>4, <1>5, <1>6, <1>7, <1>8, <1>9, <1>10, <1>11, <1>12, <1>13, <1>14,
     <1>15, <1>16 DEF Next, Proceed

\* What AcceptRide has read under FOR UPDATE stays true until it commits or
\* rolls back, whatever the other handlers do.
THEOREM LockHolds == Spec => []CheckedStatusHolds
<1>1. TypeOK /\ CheckedStatusHolds /\ [Next]_vars => CheckedStatusHolds'
  BY LockStep
<1>2. QED
  BY LockInit, TypeCorrect, <1>1, PTL DEF Spec

-----------------------------------------------------------------------------
(* The ledger *)

\* A handler that is about to cancel a ride has found its row.
CancelFoundRow ==
    \A h \in Handlers : req[h].step = "cancel_update" => ride[req[h].ride].status # "none"

\* The statements that write the rides table.
LEMMA RideWriters ==
    ASSUME [Next]_vars
    PROVE  \/ UNCHANGED ride
           \/ \E u \in Riders, r \in Rides, answered \in BOOLEAN : CreateRideRequest(u, r, answered)
           \/ \E h \in Handlers, c \in Codes : AcceptUpdate(h, c)
           \/ \E h \in Handlers : StartUpdate(h) \/ CompleteUpdate(h) \/ CancelUpdate(h)
<1>1. ASSUME NEW h \in Handlers, Call(h) \/ Fail(h) PROVE UNCHANGED ride
  BY <1>1 DEF Call, AcceptRide, StartRideWithOTP, StartRide, CompleteRide, CancelRide, Fail
<1>2. ASSUME NEW h \in Handlers,
             \/ AcceptLock(h) \/ AcceptCount(h) \/ AcceptReply(h) \/ StartReply(h)
             \/ CompleteReply(h) \/ \E found \in BOOLEAN : CancelReply(h, found)
      PROVE  UNCHANGED ride
  BY <1>2 DEF AcceptLock, AcceptCount, AcceptReply, StartReply, CompleteReply, CancelReply
<1>3. ASSUME Crash \/ (\E r \in Rides : Goroutine(r)) \/ UNCHANGED vars PROVE UNCHANGED ride
  BY <1>3 DEF Crash, Goroutine, GeoAdd, ZRem, vars
<1>4. QED
  BY <1>1, <1>2, <1>3 DEF Next, Proceed

\* Rows are never deleted, so a row found stays there until it is cancelled.
LEMMA CancelFoundRowStep == TypeOK /\ CancelFoundRow /\ [Next]_vars => CancelFoundRow'
<1> SUFFICES ASSUME TypeOK, CancelFoundRow, [Next]_vars,
                    NEW k \in Handlers, req'[k].step = "cancel_update"
             PROVE  ride'[req'[k].ride].status # "none"
  BY DEF CancelFoundRow
<1>1. ASSUME NEW r \in Rides, ride[r].status # "none" PROVE ride'[r].status # "none"
  <2>1. CASE \E u \in Riders, q \in Rides, answered \in BOOLEAN :
               CreateRideRequest(u, q, answered)
    BY <1>1, <2>1 DEF TypeOK, CreateRideRequest
  <2>2. ASSUME NEW h \in Handlers, NEW c \in Codes, AcceptUpdate(h, c)
        PROVE  ride'[r].status # "none"
    <3>1. CASE ride' = ride
      BY <1>1, <3>1
    <3>2. CASE ride' = [ride EXCEPT ![req[h].ride] =
                          [@ EXCEPT !.status = "accepted", !.driver = req[h].id, !.otp = c]]
      BY <1>1, <3>2 DEF TypeOK, Ledger!Row
    <3>3. QED
      BY <2>2, <3>1, <3>2 DEF AcceptUpdate
  <2>3. ASSUME NEW h \in Handlers, StartUpdate(h) \/ CompleteUpdate(h) \/ CancelUpdate(h)
        PROVE  ride'[r].status # "none"
    BY <1>1, <2>3 DEF TypeOK, StartUpdate, CompleteUpdate, CancelUpdate, Ledger!Row
  <2>4. QED
    BY <1>1, <2>1, <2>2, <2>3, RideWriters
<1>2. CASE req'[k] = req[k]
  BY <1>1, <1>2 DEF TypeOK, CancelFoundRow, RequestOK, Idle
<1>3. CASE req'[k] # req[k]
  <2>a. req[k] \in Request
    BY DEF TypeOK
  <2>b. ASSUME NEW h \in Handlers, Proceed(h) PROVE FALSE
    <3>1. req[h] \in Request /\ DOMAIN req = Handlers
      BY DEF TypeOK
    <3>2. \/ req' = [req EXCEPT ![h] = Idle]
          \/ \E step \in Steps \ {"cancel_update"} : req' = [req EXCEPT ![h].step = step]
      BY <2>b DEF Steps, Proceed, AcceptLock, AcceptCount, AcceptUpdate, AcceptReply, StartUpdate,
             StartReply, CompleteUpdate, CompleteReply, CancelUpdate, CancelReply, Continue, Return
    <3>3. QED
      BY <1>3, <3>1, <3>2 DEF Idle, Request
  <2>c. ASSUME NEW h \in Handlers, Fail(h) PROVE FALSE
    BY <1>3, <2>c DEF TypeOK, Fail, Return, Idle
  <2>d. ASSUME Crash PROVE FALSE
    BY <2>d DEF Crash, Idle
  <2>e. ASSUME \/ \E u \in Riders, r \in Rides, answered \in BOOLEAN :
                     CreateRideRequest(u, r, answered)
               \/ \E r \in Rides : Goroutine(r)
               \/ UNCHANGED vars
        PROVE  FALSE
    BY <1>3, <2>e DEF CreateRideRequest, Goroutine, GeoAdd, ZRem, vars
  <2>f. PICK h \in Handlers : Call(h)
    BY <2>b, <2>c, <2>d, <2>e DEF Next
  <2>1. PICK r \in Rides, u \in Riders : CancelRide(k, u, r)
    BY <1>3, <2>f DEF TypeOK, Call, AcceptRide, StartRideWithOTP, StartRide, CompleteRide,
                      CancelRide, Begin
  <2>2. QED
    BY <2>1 DEF TypeOK, CancelRide, Begin
<1>4. QED
  BY <1>2, <1>3

\* In every reachable state UpdateStatus finds the row that CancelRide has read.
LEMMA CancelFoundRowHolds == Spec => []CancelFoundRow
<1>1. Init => CancelFoundRow
  BY DEF Init, CancelFoundRow, Idle
<1>2. QED
  BY <1>1, CancelFoundRowStep, TypeCorrect, PTL DEF Spec

\* Each statement that writes the table is one atomic step of the ledger: the
\* assignment because of the row lock, the others because of their WHERE.
LEMMA LedgerStep ==
    TypeOK /\ CheckedStatusHolds /\ CancelFoundRow /\ [Next]_vars => [Ledger!Next]_ride
<1> SUFFICES ASSUME TypeOK, CheckedStatusHolds, CancelFoundRow, [Next]_vars
             PROVE  [Ledger!Next]_ride
  OBVIOUS
<1>1. ASSUME NEW u \in Riders, NEW r \in Rides, NEW answered \in BOOLEAN,
             CreateRideRequest(u, r, answered)
      PROVE  [Ledger!Next]_ride
  BY <1>1 DEF CreateRideRequest, Ledger!Next, Ledger!Request
<1>0. \A h \in Handlers : req[h] \in Request /\ RequestOK(h)
  BY DEF TypeOK
<1>2. ASSUME NEW h \in Handlers, NEW c \in Codes, AcceptUpdate(h, c)
      PROVE  [Ledger!Next]_ride
  <2>1. req[h].ride \in Rides /\ req[h].id \in Profiles
    BY <1>0, <1>2 DEF AcceptUpdate, RequestOK, Idle
  <2>2. ride[req[h].ride].status = "requested"
    BY <1>2, <2>1, NullAssumption
       DEF AcceptUpdate, CheckedStatusHolds, LockOwner, LockedIsRequested, InTransaction
  <2>3. QED
    BY <1>2, <2>1, <2>2 DEF AcceptUpdate, Ledger!Next, Ledger!Assign
<1>3. ASSUME NEW h \in Handlers, StartUpdate(h) PROVE [Ledger!Next]_ride
  <2>1. req[h].ride \in Rides
    BY <1>0, <1>3 DEF StartUpdate, RequestOK, Idle
  <2>2. QED
    BY <1>3, <2>1 DEF StartUpdate, Startable, Ledger!Next, Ledger!Start
<1>4. ASSUME NEW h \in Handlers, CompleteUpdate(h) PROVE [Ledger!Next]_ride
  <2>1. req[h].ride \in Rides
    BY <1>0, <1>4 DEF CompleteUpdate, RequestOK, Idle
  <2>2. QED
    BY <1>4, <2>1 DEF CompleteUpdate, Ledger!Next, Ledger!Complete
<1>5. ASSUME NEW h \in Handlers, CancelUpdate(h) PROVE [Ledger!Next]_ride
  <2>1. req[h].ride \in Rides
    BY <1>0, <1>5 DEF CancelUpdate, RequestOK, Idle
  <2>2. QED
    BY <1>5, <2>1 DEF CancelUpdate, CancelFoundRow, Ledger!Next, Ledger!Cancel
<1>6. QED
  BY <1>1, <1>2, <1>3, <1>4, <1>5, RideWriters

\* The service, statement by statement and with every failure, implements the
\* ledger of atomic operations.
THEOREM LedgerRefinement == Spec => ImplementsLedger
<1>1. Init => Ledger!Init
  BY DEF Init, Ledger!Init
<1>2. QED
  BY <1>1, LedgerStep, TypeCorrect, LockHolds, CancelFoundRowHolds, PTL DEF Spec, ImplementsLedger, Ledger!Spec

-----------------------------------------------------------------------------
(* What follows from the ledger *)

\* Writing back the status that a row has changes nothing.
LEMMA SameStatus ==
    ASSUME NEW row \in Ledger!Row
    PROVE  [row EXCEPT !.status = row.status] = row
  BY DEF Ledger!Row

\* No request in flight brings a cancelled ride back.
THEOREM CancellationIsFinal == Spec => CancelledIsFinal
<1>1. ASSUME TypeOK, [Ledger!Next]_ride, NEW r \in Rides, ride[r].status = "cancelled"
      PROVE  ride'[r] = ride[r]
  <2>1. CASE UNCHANGED ride
    BY <2>1
  <2>2. ASSUME NEW q \in Rides, Ledger!Cancel(q) PROVE ride'[r] = ride[r]
    <3>1. CASE q # r
      BY <2>2, <3>1 DEF TypeOK, Ledger!Cancel
    <3>2. CASE q = r
      <4>1. ride'[r] = [ride[r] EXCEPT !.status = "cancelled"]
        BY <1>1, <2>2, <3>2 DEF TypeOK, Ledger!Cancel
      <4>2. ride[r] \in Ledger!Row
        BY <1>1 DEF TypeOK
      <4>3. [ride[r] EXCEPT !.status = ride[r].status] = ride[r]
        BY <4>2, SameStatus
      <4>4. ride'[r] = [ride[r] EXCEPT !.status = ride[r].status]
        BY <1>1, <4>1
      <4>5. QED
        BY <4>3, <4>4
    <3>3. QED
      BY <3>1, <3>2
  <2>3. ASSUME NEW q \in Rides,
               \/ \E u \in Riders : Ledger!Request(u, q)
               \/ \E p \in Profiles, c \in Codes : Ledger!Assign(q, p, c)
               \/ Ledger!Start(q)
               \/ Ledger!Complete(q)
        PROVE  ride'[r] = ride[r]
    BY <1>1, <2>3 DEF TypeOK, Ledger!Request, Ledger!Assign, Ledger!Start, Ledger!Complete
  <2>4. QED
    BY <1>1, <2>1, <2>2, <2>3 DEF Ledger!Next
<1>2. TypeOK /\ CheckedStatusHolds /\ CancelFoundRow /\ [Next]_vars
        => [\A r \in Rides : ride[r].status = "cancelled" => ride'[r] = ride[r]]_vars
  BY <1>1, LedgerStep
<1>3. QED
  BY <1>2, TypeCorrect, LockHolds, CancelFoundRowHolds, PTL DEF Spec, CancelledIsFinal

\* A ride that still waits has neither a driver nor an OTP.
WaitingUnassigned ==
    \A r \in Rides : ride[r].status \in {"none", "requested"} =>
        ride[r].driver = NULL /\ ride[r].otp = NULL

\* The driver and the OTP are written together with the status accepted.
LEMMA WaitingUnassignedStep ==
    TypeOK /\ WaitingUnassigned /\ [Ledger!Next]_ride => WaitingUnassigned'
<1> SUFFICES ASSUME TypeOK, WaitingUnassigned, [Ledger!Next]_ride,
                    NEW r \in Rides, ride'[r].status \in {"none", "requested"}
             PROVE  ride'[r].driver = NULL /\ ride'[r].otp = NULL
  BY DEF WaitingUnassigned
<1>1. CASE ride'[r] = ride[r]
  BY <1>1 DEF WaitingUnassigned
<1>2. CASE ride'[r] # ride[r]
  <2>1. \/ \E u \in Riders : Ledger!Request(u, r)
        \/ \E p \in Profiles, c \in Codes : Ledger!Assign(r, p, c)
        \/ Ledger!Start(r)
        \/ Ledger!Complete(r)
        \/ Ledger!Cancel(r)
    BY <1>2 DEF TypeOK, Ledger!Next, Ledger!Request, Ledger!Assign, Ledger!Start,
                Ledger!Complete, Ledger!Cancel
  <2>2. ASSUME Ledger!Start(r) \/ Ledger!Complete(r) \/ Ledger!Cancel(r) PROVE FALSE
    BY <2>2 DEF TypeOK, Ledger!Start, Ledger!Complete, Ledger!Cancel, Ledger!Row
  <2>3. ASSUME NEW p \in Profiles, NEW c \in Codes, Ledger!Assign(r, p, c) PROVE FALSE
    BY <2>3 DEF TypeOK, Ledger!Assign, Ledger!Row
  <2>4. QED
    BY <2>1, <2>2, <2>3 DEF TypeOK, Ledger!Request, Ledger!NoRow
<1>3. QED
  BY <1>1, <1>2

\* In every reachable state a ride that still waits is unassigned.
LEMMA WaitingUnassignedHolds == Spec => []WaitingUnassigned
<1>1. Init => WaitingUnassigned
  BY DEF Init, WaitingUnassigned, Ledger!NoRow
<1>2. TypeOK /\ CheckedStatusHolds /\ CancelFoundRow /\ WaitingUnassigned /\ [Next]_vars
        => WaitingUnassigned'
  BY LedgerStep, WaitingUnassignedStep
<1>3. QED
  BY <1>1, <1>2, TypeCorrect, LockHolds, CancelFoundRowHolds, PTL DEF Spec

\* However many drivers accept a ride at once, it is assigned once, and the
\* OTP its rider was shown stays the one the driver has to enter.
THEOREM AssignmentIsStable == Spec => AssignmentStable
<1>1. ASSUME TypeOK, WaitingUnassigned, [Ledger!Next]_ride,
             NEW r \in Rides, ride[r].driver # NULL
      PROVE  ride'[r].driver = ride[r].driver /\ ride'[r].otp = ride[r].otp
  <2>1. CASE UNCHANGED ride
    BY <2>1
  <2>2. ASSUME NEW q \in Rides, Ledger!Start(q) \/ Ledger!Complete(q) \/ Ledger!Cancel(q)
        PROVE  ride'[r].driver = ride[r].driver /\ ride'[r].otp = ride[r].otp
    <3>1. PICK s \in Ledger!Statuses : ride' = [ride EXCEPT ![q].status = s]
      BY <2>2 DEF Ledger!Start, Ledger!Complete, Ledger!Cancel, Ledger!Statuses
    <3>2. ride' = [ride EXCEPT ![q] = [ride[q] EXCEPT !.status = s]]
      BY <3>1
    <3>3. QED
      BY <3>2 DEF TypeOK, Ledger!Row
  <2>3. ASSUME NEW q \in Rides,
               \/ \E u \in Riders : Ledger!Request(u, q)
               \/ \E p \in Profiles, c \in Codes : Ledger!Assign(q, p, c)
        PROVE  ride'[r].driver = ride[r].driver /\ ride'[r].otp = ride[r].otp
    <3>1. q # r
      BY <1>1, <2>3 DEF WaitingUnassigned, Ledger!Request, Ledger!Assign
    <3>2. CASE \E u \in Riders : Ledger!Request(u, q)
      BY <3>1, <3>2 DEF TypeOK, Ledger!Request
    <3>3. CASE \E p \in Profiles, c \in Codes : Ledger!Assign(q, p, c)
      BY <3>1, <3>3 DEF TypeOK, Ledger!Assign
    <3>4. QED
      BY <2>3, <3>2, <3>3
  <2>4. QED
    BY <1>1, <2>1, <2>2, <2>3 DEF Ledger!Next
<1>2. TypeOK /\ CheckedStatusHolds /\ CancelFoundRow /\ WaitingUnassigned /\ [Next]_vars
        => [\A r \in Rides : ride[r].driver # NULL =>
              /\ ride'[r].driver = ride[r].driver
              /\ ride'[r].otp = ride[r].otp]_vars
  BY <1>1, LedgerStep
<1>3. QED
  BY <1>2, TypeCorrect, LockHolds, CancelFoundRowHolds, WaitingUnassignedHolds, PTL
     DEF Spec, AssignmentStable

-----------------------------------------------------------------------------
(* One active ride per driver *)

\* A ride becomes active for a driver in the UPDATE of an accept only.
LEMMA NewlyActive ==
    ASSUME TypeOK, [Next]_vars, NEW r \in Rides, NEW p \in Profiles,
           r \in Active(p)', r \notin Active(p)
    PROVE  \E h \in Handlers, c \in Codes :
              /\ AcceptUpdate(h, c)
              /\ req[h].ride = r
              /\ req[h].id = p
              /\ Ledger!DriverIndexAllows(p)
              /\ ride' = [ride EXCEPT ![r] =
                    [@ EXCEPT !.status = "accepted", !.driver = p, !.otp = c]]
<1>0. ride[r] \in Ledger!Row /\ ride'[r] # ride[r]
  BY DEF TypeOK, Active
<1>1. ASSUME NEW u \in Riders, NEW q \in Rides, NEW answered \in BOOLEAN,
             CreateRideRequest(u, q, answered)
      PROVE  FALSE
  BY <1>1 DEF TypeOK, CreateRideRequest, Active, Ledger!DriverActive, Ledger!NoRow
<1>2. ASSUME NEW h \in Handlers, StartUpdate(h) \/ CompleteUpdate(h) \/ CancelUpdate(h)
      PROVE  FALSE
  <2>1. PICK s \in {"in_progress", "completed", "cancelled"} :
          ride' = [ride EXCEPT ![req[h].ride] = [ride[req[h].ride] EXCEPT !.status = s]]
    BY <1>0, <1>2 DEF StartUpdate, CompleteUpdate, CancelUpdate
  <2>2. req[h].ride = r
    BY <1>0, <2>1 DEF TypeOK
  <2>3. ride'[r].driver = ride[r].driver /\ ride'[r].status = s
    BY <1>0, <2>1, <2>2 DEF TypeOK, Ledger!Row
  <2>4. s = "in_progress"
    BY <2>3 DEF Active, Ledger!DriverActive
  <2>5. StartUpdate(h)
    BY <1>2, <2>2, <2>3, <2>4, <1>0 DEF CompleteUpdate, CancelUpdate, TypeOK, Ledger!Row
  <2>6. Startable(r)
    BY <1>0, <2>2, <2>5 DEF StartUpdate
  <2>7. QED
    BY <2>3, <2>6 DEF Startable, Active, Ledger!DriverActive
<1>3. PICK h \in Handlers, c \in Codes : AcceptUpdate(h, c)
  BY <1>0, <1>1, <1>2, RideWriters
<1>4. /\ Ledger!DriverIndexAllows(req[h].id)
      /\ ride' = [ride EXCEPT ![req[h].ride] =
              [@ EXCEPT !.status = "accepted", !.driver = req[h].id, !.otp = c]]
  BY <1>0, <1>3 DEF AcceptUpdate
<1>5. req[h].ride = r
  BY <1>0, <1>4 DEF TypeOK
<1>6. req[h].id = p
  BY <1>0, <1>4, <1>5 DEF TypeOK, Active, Ledger!Row
<1>7. QED
  BY <1>3, <1>4, <1>5, <1>6

\* If no ride of p is active when an accept for p writes, p ends up with one.
LEMMA ExclusiveStep ==
    ASSUME TypeOK, DriverExclusive, [Next]_vars,
           \A h \in Handlers, p \in Profiles :
              /\ req[h].step = "accept_update"
              /\ req[h].id = p
              /\ Ledger!DriverIndexAllows(p)
              => Active(p) = {}
    PROVE  DriverExclusive'
<1> SUFFICES ASSUME NEW p \in Profiles, NEW r1 \in Rides, NEW r2 \in Rides,
                    r1 \in Active(p)', r2 \in Active(p)', r1 # r2
             PROVE  FALSE
  BY DEF DriverExclusive
<1>1. CASE r1 \in Active(p) /\ r2 \in Active(p)
  BY <1>1 DEF DriverExclusive
<1>2. ASSUME NEW r \in {r1, r2}, r \notin Active(p) PROVE FALSE
  <2>0. r \in Rides /\ r \in Active(p)'
    OBVIOUS
  <2>1. PICK h \in Handlers, c \in Codes :
          /\ AcceptUpdate(h, c)
          /\ req[h].ride = r
          /\ req[h].id = p
          /\ Ledger!DriverIndexAllows(p)
          /\ ride' = [ride EXCEPT ![r] =
                [@ EXCEPT !.status = "accepted", !.driver = p, !.otp = c]]
    BY <1>2, <2>0, NewlyActive
  <2>2. Active(p) = {}
    BY <2>1 DEF AcceptUpdate
  <2>3. PICK q \in {r1, r2} : q # r
    OBVIOUS
  <2>4. ride'[q] = ride[q]
    BY <2>1, <2>3 DEF TypeOK
  <2>5. QED
    BY <2>2, <2>4 DEF Active
<1>3. QED
  BY <1>1, <1>2

\* No ride is active in the empty table.
LEMMA ExclusiveInit == Init => DriverExclusive
  BY DEF Init, DriverExclusive, Active, Ledger!DriverActive, Ledger!NoRow

\* With the unique index in place no driver has two active rides, however many
\* accepts race.
THEOREM ExclusiveByIndex == UniqueIndexes => (Spec => []DriverExclusive)
<1> SUFFICES ASSUME UniqueIndexes PROVE Spec => []DriverExclusive
  OBVIOUS
<1>1. TypeOK /\ DriverExclusive /\ [Next]_vars => DriverExclusive'
  <2>1. \A p \in Profiles : Ledger!DriverIndexAllows(p) => Active(p) = {}
    BY DEF Ledger!DriverIndexAllows, Ledger!ActiveOf, Active
  <2>2. QED
    BY <2>1, ExclusiveStep
<1>2. QED
  BY ExclusiveInit, TypeCorrect, <1>1, PTL DEF Spec

\* The COUNT of an accept is still right when its UPDATE runs.
CountHolds ==
    \A h \in Handlers : req[h].step = "accept_update" => Active(req[h].id) = {}

\* No other accept of the same driver runs between the COUNT and the UPDATE.
LEMMA CountHoldsStep ==
    ASSUME OneHandlerPerDriver, TypeOK, CountHolds, [Next]_vars
    PROVE  CountHolds'
<1> SUFFICES ASSUME NEW k \in Handlers, req'[k].step = "accept_update",
                    NEW r \in Rides, r \in Active(req[k].id)'
             PROVE  FALSE
  BY DEF CountHolds, Active
<1>1. CASE req'[k] = req[k]
  <2>1. PICK p \in Profiles : req[k].id = p /\ Account[p] \in Serves[k]
    BY <1>1 DEF TypeOK, RequestOK
  <2>2. Active(p) = {}
    BY <1>1, <2>1 DEF CountHolds
  <2>3. r \in Active(p)'
    BY <1>1, <2>1 DEF Active
  <2>4. PICK h \in Handlers, c \in Codes : AcceptUpdate(h, c) /\ req[h].id = p
    BY <2>2, <2>3, NewlyActive
  <2>5. Account[p] \in Serves[h] \cap Serves[k] \cap Drivers
    BY <2>1, <2>4, AccountAssumption DEF TypeOK, RequestOK, AcceptUpdate
  <2>6. h = k
    BY <2>5 DEF OneHandlerPerDriver
  <2>7. QED
    BY <1>1, <2>4, <2>6 DEF TypeOK, AcceptUpdate, Continue, Return, Idle, Request
<1>2. CASE req'[k] # req[k]
  <2>1. AcceptCount(k) /\ UNCHANGED ride
    <3>a. req[k] \in Request
      BY DEF TypeOK
    <3>1. ASSUME NEW h \in Handlers, Proceed(h), ~ AcceptCount(h) PROVE FALSE
      <4>1. \/ req' = [req EXCEPT ![h] = Idle]
            \/ \E step \in Steps \ {"accept_update"} : req' = [req EXCEPT ![h].step = step]
        BY <3>1 DEF Steps, Proceed, AcceptLock, AcceptUpdate, AcceptReply, StartUpdate,
               StartReply, CompleteUpdate, CompleteReply, CancelUpdate, CancelReply,
               Continue, Return
      <4>2. QED
        BY <1>2, <3>a, <4>1 DEF TypeOK, Idle, Request
    <3>2. ASSUME NEW h \in Handlers, Call(h) \/ Fail(h) PROVE FALSE
      BY <1>2, <3>2 DEF TypeOK, Call, AcceptRide, StartRideWithOTP, StartRide, CompleteRide,
                        CancelRide, Begin, Fail, Return, Idle
    <3>3. ASSUME Crash PROVE FALSE
      BY <3>3 DEF Crash, Idle
    <3>4. ASSUME \/ \E u \in Riders, q \in Rides, answered \in BOOLEAN :
                       CreateRideRequest(u, q, answered)
                 \/ \E q \in Rides : Goroutine(q)
                 \/ UNCHANGED vars
          PROVE  FALSE
      BY <1>2, <3>4 DEF CreateRideRequest, Goroutine, GeoAdd, ZRem, vars
    <3>5. PICK h \in Handlers : AcceptCount(h)
      BY <3>1, <3>2, <3>3, <3>4 DEF Next
    <3>6. QED
      BY <1>2, <3>5 DEF TypeOK, AcceptCount, Continue, Return
  <2>2. Active(req[k].id) = {} /\ req'[k].id = req[k].id
    BY <2>1 DEF TypeOK, AcceptCount, Continue, Return, Idle, Request
  <2>3. QED
    BY <2>1, <2>2 DEF Active
<1>3. QED
  BY <1>1, <1>2

\* Without the index, the check of AcceptRide is enough exactly when the
\* accepts of a driver never overlap: each is then alone with its COUNT.
THEOREM ExclusiveBySerialAccepts == OneHandlerPerDriver => (Spec => []DriverExclusive)
<1> SUFFICES ASSUME OneHandlerPerDriver PROVE Spec => []DriverExclusive
  OBVIOUS
<1>1. Init => CountHolds
  BY DEF Init, CountHolds, Idle
<1>2. TypeOK /\ CountHolds /\ [Next]_vars => CountHolds'
  BY CountHoldsStep
<1>3. TypeOK /\ CountHolds /\ DriverExclusive /\ [Next]_vars => DriverExclusive'
  <2>1. CountHolds => \A h \in Handlers, p \in Profiles :
          req[h].step = "accept_update" /\ req[h].id = p => Active(p) = {}
    BY DEF CountHolds
  <2>2. QED
    BY <2>1, ExclusiveStep
<1>4. QED
  BY ExclusiveInit, TypeCorrect, <1>1, <1>2, <1>3, PTL DEF Spec

-----------------------------------------------------------------------------
(* What users are told *)

\* A handler about to broadcast an event has committed it.
ReplyIsTrue ==
    \A h \in Handlers :
        /\ req[h].step = "accept_reply" => HasHappened("ride_accepted", req[h].ride)
        /\ req[h].step = "start_reply" => HasHappened("ride_started", req[h].ride)
        /\ req[h].step = "complete_reply" => HasHappened("ride_completed", req[h].ride)
        /\ req[h].step = "cancel_reply" => HasHappened("ride_cancelled", req[h].ride)

\* What has happened has happened.
LEMMA HappenedStays ==
    ASSUME TypeOK, WaitingUnassigned, [Ledger!Next]_ride,
           NEW event \in Events, NEW r \in Rides, HasHappened(event, r)
    PROVE  HasHappened(event, r)'
<1>0. ride[r] \in Ledger!Row
  BY DEF TypeOK
<1>1. ASSUME NEW q \in Rides, NEW s \in Ledger!Statuses, ride' = [ride EXCEPT ![q].status = s],
             \/ s = "in_progress" /\ ride[q].status \in {"accepted", "driver_arrived"}
             \/ s = "completed" /\ ride[q].status = "in_progress"
             \/ s = "cancelled"
      PROVE  HasHappened(event, r)'
  <2>1. ride' = [ride EXCEPT ![q] = [ride[q] EXCEPT !.status = s]]
    BY <1>1
  <2>2. ride'[r].driver = ride[r].driver
    BY <1>0, <2>1 DEF TypeOK, Ledger!Row
  <2>3. ride'[r].status = ride[r].status \/ (q = r /\ ride'[r].status = s)
    BY <1>0, <2>1 DEF TypeOK, Ledger!Row
  <2>4. QED
    BY <1>1, <2>2, <2>3 DEF HasHappened
<1>2. ASSUME NEW q \in Rides, NEW u \in Riders, Ledger!Request(u, q)
      PROVE  HasHappened(event, r)'
  <2>1. q # r
    BY <1>2 DEF HasHappened, WaitingUnassigned, Ledger!Request
  <2>2. QED
    BY <1>2, <2>1 DEF HasHappened, TypeOK, Ledger!Request
<1>3. ASSUME NEW q \in Rides, NEW p \in Profiles, NEW c \in Codes, Ledger!Assign(q, p, c)
      PROVE  HasHappened(event, r)'
  <2>1. q # r
    BY <1>3 DEF HasHappened, WaitingUnassigned, Ledger!Assign
  <2>2. QED
    BY <1>3, <2>1 DEF HasHappened, TypeOK, Ledger!Assign
<1>4. ASSUME NEW q \in Rides, Ledger!Start(q) \/ Ledger!Complete(q) \/ Ledger!Cancel(q)
      PROVE  HasHappened(event, r)'
  BY <1>1, <1>4 DEF Ledger!Start, Ledger!Complete, Ledger!Cancel, Ledger!Statuses
<1>5. CASE UNCHANGED ride
  BY <1>5 DEF HasHappened
<1>6. QED
  BY <1>2, <1>3, <1>4, <1>5 DEF Ledger!Next

\* A handler gets to its reply in the statement that commits.
LEMMA ReplyEntered ==
    ASSUME TypeOK, [Next]_vars, NEW k \in Handlers, req'[k] # req[k],
           req'[k].step \in {"accept_reply", "start_reply", "complete_reply", "cancel_reply"}
    PROVE  \/ \E c \in Codes : AcceptUpdate(k, c)
           \/ StartUpdate(k) \/ CompleteUpdate(k) \/ CancelUpdate(k)
<1>0. req[k] \in Request
  BY DEF TypeOK
<1>1. ASSUME NEW h \in Handlers,
             \/ AcceptLock(h) \/ AcceptCount(h) \/ AcceptReply(h) \/ StartReply(h)
             \/ CompleteReply(h) \/ \E found \in BOOLEAN : CancelReply(h, found)
      PROVE  FALSE
  <2>1. \/ req' = [req EXCEPT ![h] = Idle]
        \/ \E step \in {"accept_count", "accept_update"} : req' = [req EXCEPT ![h].step = step]
    BY <1>1 DEF AcceptLock, AcceptCount, AcceptReply, StartReply, CompleteReply, CancelReply,
                Continue, Return
  <2>2. QED
    BY <1>0, <2>1 DEF TypeOK, Idle, Request
<1>2. ASSUME NEW h \in Handlers, Call(h) \/ Fail(h) PROVE FALSE
  BY <1>2 DEF TypeOK, Call, AcceptRide, StartRideWithOTP, StartRide, CompleteRide, CancelRide,
              Begin, Fail, Return, Idle
<1>3. ASSUME \/ \E u \in Riders, r \in Rides, answered \in BOOLEAN :
                   CreateRideRequest(u, r, answered)
             \/ \E r \in Rides : Goroutine(r)
             \/ UNCHANGED vars
      PROVE  FALSE
  BY <1>3 DEF CreateRideRequest, Goroutine, GeoAdd, ZRem, vars
<1>4. ASSUME Crash PROVE FALSE
  BY <1>4 DEF Crash, Idle
<1>5. PICK h \in Handlers :
        \/ \E c \in Codes : AcceptUpdate(h, c)
        \/ StartUpdate(h) \/ CompleteUpdate(h) \/ CancelUpdate(h)
  BY <1>1, <1>2, <1>3, <1>4 DEF Next, Proceed
<1>6. h = k
  BY <1>5 DEF TypeOK, AcceptUpdate, StartUpdate, CompleteUpdate, CancelUpdate, Continue, Return
<1>7. QED
  BY <1>5, <1>6

\* A handler comes to its reply by committing, and what it committed cannot
\* be unsaid before it replies.
LEMMA ReplyIsTrueStep ==
    ASSUME TypeOK, WaitingUnassigned, ReplyIsTrue, [Next]_vars, [Ledger!Next]_ride
    PROVE  ReplyIsTrue'
<1> DEFINE Event == [accept_reply   |-> "ride_accepted", start_reply  |-> "ride_started",
                     complete_reply |-> "ride_completed", cancel_reply |-> "ride_cancelled"]
           Replies == {"accept_reply", "start_reply", "complete_reply", "cancel_reply"}
<1> SUFFICES ASSUME NEW k \in Handlers, req'[k].step \in Replies
             PROVE  HasHappened(Event[req[k].step], req[k].ride)'
  BY DEF ReplyIsTrue
<1>0. req[k] \in Request /\ RequestOK(k)
  BY DEF TypeOK
<1>1. CASE req'[k] = req[k]
  <2>1. req[k].ride \in Rides /\ Event[req[k].step] \in Events
    BY <1>0, <1>1 DEF RequestOK, Idle, Events
  <2>2. HasHappened(Event[req[k].step], req[k].ride)
    BY <1>1 DEF ReplyIsTrue
  <2>3. HasHappened(Event[req[k].step], req[k].ride)'
    BY <1>1, <2>1, <2>2, HappenedStays DEF HasHappened
  <2>4. QED
    BY <2>3
<1>2. CASE req'[k] # req[k]
  <2>0. req'[k].step # "idle" /\ req'[k] # Idle
    BY DEF Idle
  <2>1. ASSUME NEW c \in Codes, AcceptUpdate(k, c)
        PROVE  HasHappened(Event[req[k].step], req[k].ride)'
    <3>1. req[k].ride \in Rides /\ req[k].id \in Profiles
      BY <1>0, <2>1 DEF AcceptUpdate, RequestOK, Idle
    <3>2. /\ ride' = [ride EXCEPT ![req[k].ride] =
                  [@ EXCEPT !.status = "accepted", !.driver = req[k].id, !.otp = c]]
          /\ req' = [req EXCEPT ![k].step = "accept_reply"]
      BY <1>0, <2>0, <2>1 DEF AcceptUpdate, Continue, Return, TypeOK
    <3>3. req'[k].step = "accept_reply" /\ req'[k].ride = req[k].ride
      BY <1>0, <3>2 DEF TypeOK, Request
    <3>4. ride'[req[k].ride].driver = req[k].id
      BY <3>1, <3>2 DEF TypeOK, Ledger!Row
    <3>5. QED
      BY <3>1, <3>3, <3>4, NullAssumption DEF HasHappened
  <2>2. ASSUME NEW s \in {"in_progress", "completed", "cancelled"},
               ride' = [ride EXCEPT ![req[k].ride].status = s], req[k].ride \in Rides,
               req' = [req EXCEPT ![k].step =
                  CASE s = "in_progress" -> "start_reply"
                    [] s = "completed" -> "complete_reply"
                    [] s = "cancelled" -> "cancel_reply"]
        PROVE  HasHappened(Event[req[k].step], req[k].ride)'
    <3>1. req'[k].ride = req[k].ride
      BY <1>0, <2>2 DEF TypeOK, Request
    <3>2. ride'[req[k].ride].status = s
      BY <2>2 DEF TypeOK, Ledger!Row
    <3>3. CASE s = "in_progress"
      BY <1>0, <2>2, <3>1, <3>2, <3>3 DEF TypeOK, Request, HasHappened
    <3>4. CASE s = "completed"
      BY <1>0, <2>2, <3>1, <3>2, <3>4 DEF TypeOK, Request, HasHappened
    <3>5. CASE s = "cancelled"
      BY <1>0, <2>2, <3>1, <3>2, <3>5 DEF TypeOK, Request, HasHappened
    <3>6. QED
      BY <2>2, <3>3, <3>4, <3>5
  <2>3. CASE StartUpdate(k) \/ CompleteUpdate(k) \/ CancelUpdate(k)
    <3>1. req[k].ride \in Rides
      BY <1>0, <2>3 DEF StartUpdate, CompleteUpdate, CancelUpdate, RequestOK, Idle
    <3>2. CASE StartUpdate(k)
      BY <2>0, <2>2, <3>1, <3>2 DEF StartUpdate, Continue, Return, TypeOK
    <3>3. CASE CompleteUpdate(k)
      BY <2>0, <2>2, <3>1, <3>3 DEF CompleteUpdate, Continue, Return, TypeOK
    <3>4. CASE CancelUpdate(k)
      BY <2>2, <3>1, <3>4 DEF CancelUpdate, Continue
    <3>5. QED
      BY <2>3, <3>2, <3>3, <3>4
  <2>4. QED
    BY <1>2, <2>1, <2>3, ReplyEntered
<1>3. QED
  BY <1>1, <1>2

\* Every handler that is about to reply has a true thing to tell.
LEMMA ReplyIsTrueHolds == Spec => []ReplyIsTrue
<1>1. Init => ReplyIsTrue
  BY DEF Init, ReplyIsTrue, Idle
<1>2. TypeOK /\ CheckedStatusHolds /\ CancelFoundRow /\ WaitingUnassigned /\ ReplyIsTrue
        /\ [Next]_vars => ReplyIsTrue'
  BY LedgerStep, ReplyIsTrueStep
<1>3. QED
  BY <1>1, <1>2, TypeCorrect, LockHolds, CancelFoundRowHolds, WaitingUnassignedHolds, PTL DEF Spec

\* The handlers that broadcast or start a ZREM.
LEMMA Repliers ==
    ASSUME TypeOK, [Next]_vars
    PROVE  \/ sent' = sent /\ \A r \in Rides : removing'[r] > 0 => removing[r] > 0
           \/ \E h \in Handlers : AcceptReply(h) \/ StartReply(h) \/ CompleteReply(h)
           \/ \E h \in Handlers, found \in BOOLEAN : CancelReply(h, found)
<1> DEFINE Quiet == sent' = sent /\ \A r \in Rides : removing'[r] > 0 => removing[r] > 0
<1>1. ASSUME \/ \E u \in Riders, r \in Rides, answered \in BOOLEAN :
                   CreateRideRequest(u, r, answered)
             \/ \E h \in Handlers : Call(h) \/ Fail(h)
             \/ UNCHANGED vars
      PROVE  Quiet
  BY <1>1 DEF CreateRideRequest, Call, AcceptRide, StartRideWithOTP, StartRide, CompleteRide,
              CancelRide, Fail, vars
<1>2. ASSUME NEW h \in Handlers,
             \/ AcceptLock(h) \/ AcceptCount(h) \/ (\E c \in Codes : AcceptUpdate(h, c))
             \/ StartUpdate(h) \/ CompleteUpdate(h) \/ CancelUpdate(h)
      PROVE  Quiet
  BY <1>2 DEF AcceptLock, AcceptCount, AcceptUpdate, StartUpdate, CompleteUpdate, CancelUpdate
<1>3. ASSUME Crash \/ \E r \in Rides : Goroutine(r) PROVE Quiet
  BY <1>3 DEF TypeOK, Crash, Goroutine, GeoAdd, ZRem
<1>4. QED
  BY <1>1, <1>2, <1>3 DEF Next, Proceed

\* A step that broadcasts tells what has happened, the others unsay nothing.
LEMMA ToldStep ==
    ASSUME TypeOK, WaitingUnassigned, ReplyIsTrue, ToldAfterCommit,
           [Next]_vars, [Ledger!Next]_ride
    PROVE  ToldAfterCommit'
<1> SUFFICES ASSUME NEW event \in Events, NEW r \in Rides, <<event, r>> \in sent'
             PROVE  HasHappened(event, r)'
  BY DEF ToldAfterCommit
<1>1. CASE <<event, r>> \in sent
  BY <1>1, HappenedStays DEF ToldAfterCommit
<1>2. CASE <<event, r>> \notin sent
  <2>1. PICK h \in Handlers :
          \/ AcceptReply(h) \/ StartReply(h) \/ CompleteReply(h)
          \/ \E found \in BOOLEAN : CancelReply(h, found)
    BY <1>2, Repliers
  <2>2. HasHappened(event, r)
    BY <1>2, <2>1 DEF AcceptReply, StartReply, CompleteReply, CancelReply, ReplyIsTrue
  <2>3. QED
    BY <2>2, HappenedStays
<1>3. QED
  BY <1>1, <1>2

\* No user is told of anything that was not committed, or that can be undone.
THEOREM NothingToldTooEarly == Spec => []ToldAfterCommit
<1>1. Init => ToldAfterCommit
  BY DEF Init, ToldAfterCommit
<1>2. TypeOK /\ CheckedStatusHolds /\ CancelFoundRow /\ WaitingUnassigned /\ ReplyIsTrue
        /\ ToldAfterCommit /\ [Next]_vars => ToldAfterCommit'
  BY LedgerStep, ToldStep
<1>3. QED
  BY <1>1, <1>2, TypeCorrect, LockHolds, CancelFoundRowHolds, WaitingUnassignedHolds,
     ReplyIsTrueHolds, PTL DEF Spec

-----------------------------------------------------------------------------
(* The index of waiting rides *)

\* A ZREM is started for a ride that no longer waits.
RemovalJustified ==
    \A r \in Rides : removing[r] > 0 => ride[r].status \notin {"none", "requested"}

\* A ZREM is started after the accept or the cancellation is committed only.
LEMMA RemovalJustifiedStep ==
    ASSUME TypeOK, WaitingUnassigned, ReplyIsTrue, RemovalJustified,
           [Next]_vars, [Ledger!Next]_ride
    PROVE  RemovalJustified'
<1> SUFFICES ASSUME NEW r \in Rides, removing'[r] > 0
             PROVE  ride'[r].status \notin {"none", "requested"}
  BY DEF RemovalJustified
<1>1. ride[r].status \notin {"none", "requested"}
  <2>1. CASE removing[r] > 0
    BY <2>1 DEF RemovalJustified
  <2>2. CASE ~ (removing[r] > 0)
    <3>1. PICK h \in Handlers :
            \/ AcceptReply(h) \/ StartReply(h) \/ CompleteReply(h)
            \/ \E found \in BOOLEAN : CancelReply(h, found)
      BY <2>2, Repliers
    <3>2. /\ req[h].ride = r
          /\ HasHappened("ride_accepted", r) \/ HasHappened("ride_cancelled", r)
      BY <2>2, <3>1 DEF TypeOK, AcceptReply, StartReply, CompleteReply, CancelReply, ReplyIsTrue
    <3>3. QED
      BY <3>2 DEF HasHappened, WaitingUnassigned
  <2>3. QED
    BY <2>1, <2>2
<1>2. CASE UNCHANGED ride
  BY <1>1, <1>2
<1>3. ASSUME NEW q \in Rides, Ledger!Start(q) \/ Ledger!Complete(q) \/ Ledger!Cancel(q)
      PROVE  ride'[r].status \notin {"none", "requested"}
  BY <1>1, <1>3 DEF TypeOK, Ledger!Row, Ledger!Start, Ledger!Complete, Ledger!Cancel
<1>4. ASSUME NEW q \in Rides,
             \/ \E u \in Riders : Ledger!Request(u, q)
             \/ \E p \in Profiles, c \in Codes : Ledger!Assign(q, p, c)
      PROVE  ride'[r].status \notin {"none", "requested"}
  <2>1. q # r
    BY <1>1, <1>4 DEF Ledger!Request, Ledger!Assign
  <2>2. ride'[r] = ride[r]
    BY <1>4, <2>1 DEF TypeOK, Ledger!Request, Ledger!Assign
  <2>3. QED
    BY <1>1, <2>2
<1>5. QED
  BY <1>2, <1>3, <1>4 DEF Ledger!Next

\* A ride enters the index before anything takes it out, and is taken out when
\* it no longer waits.
LEMMA IndexedStep ==
    ASSUME Faults = {}, TypeOK, RemovalJustified, WaitingRideIndexed, [Next]_vars
    PROVE  WaitingRideIndexed'
<1> SUFFICES ASSUME NEW r \in Rides, ride'[r].status = "requested"
             PROVE  r \in geo' \cup adding'
  BY DEF WaitingRideIndexed
<1>1. CASE \E u \in Riders, q \in Rides, answered \in BOOLEAN : CreateRideRequest(u, q, answered)
  BY <1>1 DEF TypeOK, CreateRideRequest, WaitingRideIndexed
<1>2. ASSUME ~ \E u \in Riders, q \in Rides, answered \in BOOLEAN :
                  CreateRideRequest(u, q, answered)
      PROVE  r \in geo' \cup adding'
  <2>1. ride[r].status = "requested"
    <3>1. CASE UNCHANGED ride
      BY <3>1
    <3>2. ASSUME NEW h \in Handlers, NEW c \in Codes, AcceptUpdate(h, c), ride' # ride
          PROVE  ride[r].status = "requested"
      <4>1. ride' = [ride EXCEPT ![req[h].ride] =
                       [@ EXCEPT !.status = "accepted", !.driver = req[h].id, !.otp = c]]
        BY <3>2 DEF AcceptUpdate
      <4>2. QED
        BY <4>1 DEF TypeOK, Ledger!Row
    <3>3. ASSUME NEW h \in Handlers, StartUpdate(h) \/ CompleteUpdate(h) \/ CancelUpdate(h)
          PROVE  ride[r].status = "requested"
      BY <3>3 DEF TypeOK, StartUpdate, CompleteUpdate, CancelUpdate, Ledger!Row
    <3>4. QED
      BY <1>2, <3>1, <3>2, <3>3, RideWriters
  <2>2. r \in geo \cup adding /\ ~ (removing[r] > 0)
    BY <2>1 DEF WaitingRideIndexed, RemovalJustified
  <2>3. ASSUME NEW q \in Rides, Goroutine(q) PROVE r \in geo' \cup adding'
    BY <2>2, <2>3 DEF Goroutine, GeoAdd, ZRem
  <2>4. ASSUME NEW h \in Handlers, Call(h) \/ Proceed(h) PROVE UNCHANGED <<geo, adding>>
    BY <2>4 DEF Call, AcceptRide, StartRideWithOTP, StartRide, CompleteRide, CancelRide,
           Proceed, AcceptLock, AcceptCount, AcceptUpdate, AcceptReply, StartUpdate, StartReply,
           CompleteUpdate, CompleteReply, CancelUpdate, CancelReply
  <2>5. QED
    BY <1>2, <2>2, <2>3, <2>4 DEF Next, Fail, Crash, vars
<1>3. QED
  BY <1>1, <1>2

\* When nothing fails, a ride that waits for a driver never drops out of the
\* index: whoever starts its ZREM has already made it stop waiting.
THEOREM WaitingStaysIndexed == Faults = {} => (Spec => []WaitingRideIndexed)
<1> SUFFICES ASSUME Faults = {} PROVE Spec => []WaitingRideIndexed
  OBVIOUS
<1>1. Init => RemovalJustified /\ WaitingRideIndexed
  BY DEF Init, RemovalJustified, WaitingRideIndexed, Ledger!NoRow
<1>2. TypeOK /\ CheckedStatusHolds /\ CancelFoundRow /\ WaitingUnassigned /\ ReplyIsTrue
        /\ RemovalJustified /\ [Next]_vars => RemovalJustified'
  BY LedgerStep, RemovalJustifiedStep
<1>3. TypeOK /\ RemovalJustified /\ WaitingRideIndexed /\ [Next]_vars => WaitingRideIndexed'
  BY IndexedStep
<1>4. QED
  BY <1>1, <1>2, <1>3, TypeCorrect, LockHolds, CancelFoundRowHolds, WaitingUnassignedHolds,
     ReplyIsTrueHolds, PTL DEF Spec

-----------------------------------------------------------------------------
(* What the liveness properties rest on.  That a request returns and that a *)
(* rider is told follows, given fairness, from what is proved here: nobody  *)
(* waits in a circle, every statement brings a request closer to its end,   *)
(* and what is still to be told has a handler that is about to tell it.     *)

\* The statements that wait for a row lock.
Waits == {"accept_lock", "start_update", "complete_update", "cancel_update"}

\* A handler that waits for a row holds none: no two requests wait for each
\* other, on however many rides, and PostgreSQL has no deadlock to break.
WaitersHoldNothing == \A h \in Handlers : req[h].step \in Waits => \A r \in Rides : lock[r] # h

\* Every row lock is given up without waiting for another one.
THEOREM NoCircularWait == Spec => []WaitersHoldNothing
<1>1. CheckedStatusHolds => WaitersHoldNothing
  BY DEF CheckedStatusHolds, LockOwner, InTransaction, WaitersHoldNothing, Waits
<1>2. QED
  BY <1>1, LockHolds, PTL

\* How far a request is.
Rank == [accept_lock     |-> 1, accept_count   |-> 2, accept_update |-> 3, accept_reply |-> 4,
         start_update    |-> 1, start_reply    |-> 2,
         complete_update |-> 1, complete_reply |-> 2,
         cancel_update   |-> 1, cancel_reply   |-> 2]

\* A step of a request answers it or brings it closer to its answer, and it
\* stays the same request: no statement is ever retried.
RequestsAdvance ==
    [][\A h \in Handlers : req[h] # Idle /\ req'[h] \notin {req[h], Idle} =>
          /\ Rank[req'[h].step] > Rank[req[h].step]
          /\ req'[h].ride = req[h].ride /\ req'[h].id = req[h].id]_vars

\* The statements of one handler leave the requests of the others alone.
LEMMA Statements ==
    ASSUME TypeOK, NEW h \in Handlers, Proceed(h), NEW k \in Handlers
    PROVE  \/ req'[k] \in {req[k], Idle}
           \/ \E step \in Steps : /\ req'[k] = [req[k] EXCEPT !.step = step]
                                  /\ Rank[step] > Rank[req[k].step]
<1> DEFINE Goal == \/ req'[k] \in {req[k], Idle}
                   \/ \E step \in Steps : /\ req'[k] = [req[k] EXCEPT !.step = step]
                                          /\ Rank[step] > Rank[req[k].step]
<1>1. ASSUME Return(h) PROVE Goal
  BY <1>1 DEF Return, TypeOK
<1>2. ASSUME NEW step \in Steps, Continue(h, step), Rank[step] > Rank[req[h].step]
      PROVE  Goal
  BY <1>2 DEF Continue, TypeOK
<1>3. ASSUME \/ AcceptReply(h) \/ StartReply(h) \/ CompleteReply(h)
             \/ \E found \in BOOLEAN : CancelReply(h, found)
      PROVE  Goal
  BY <1>1, <1>3 DEF AcceptReply, StartReply, CompleteReply, CancelReply
<1>4. ASSUME AcceptLock(h) PROVE Goal
  <2>1. Return(h) \/ (Continue(h, "accept_count") /\ req[h].step = "accept_lock")
    BY <1>4 DEF AcceptLock
  <2>2. QED
    BY <1>1, <1>2, <2>1 DEF Steps, Rank
<1>5. ASSUME AcceptCount(h) PROVE Goal
  <2>1. Return(h) \/ (Continue(h, "accept_update") /\ req[h].step = "accept_count")
    BY <1>5 DEF AcceptCount
  <2>2. QED
    BY <1>1, <1>2, <2>1 DEF Steps, Rank
<1>6. ASSUME NEW c \in Codes, AcceptUpdate(h, c) PROVE Goal
  <2>1. Return(h) \/ (Continue(h, "accept_reply") /\ req[h].step = "accept_update")
    BY <1>6 DEF AcceptUpdate
  <2>2. QED
    BY <1>1, <1>2, <2>1 DEF Steps, Rank
<1>7. ASSUME StartUpdate(h) PROVE Goal
  <2>1. Return(h) \/ (Continue(h, "start_reply") /\ req[h].step = "start_update")
    BY <1>7 DEF StartUpdate
  <2>2. QED
    BY <1>1, <1>2, <2>1 DEF Steps, Rank
<1>8. ASSUME CompleteUpdate(h) PROVE Goal
  <2>1. Return(h) \/ (Continue(h, "complete_reply") /\ req[h].step = "complete_update")
    BY <1>8 DEF CompleteUpdate
  <2>2. QED
    BY <1>1, <1>2, <2>1 DEF Steps, Rank
<1>9. ASSUME CancelUpdate(h) PROVE Goal
  <2>1. Continue(h, "cancel_reply") /\ req[h].step = "cancel_update"
    BY <1>9 DEF CancelUpdate
  <2>2. QED
    BY <1>2, <2>1 DEF Steps, Rank
<1>10. QED
  BY <1>3, <1>4, <1>5, <1>6, <1>7, <1>8, <1>9 DEF Proceed

\* A request takes at most four statements and is then over.
THEOREM EveryStatementAdvances == Spec => RequestsAdvance
<1>1. ASSUME TypeOK, [Next]_vars, NEW k \in Handlers, req[k] # Idle, req'[k] \notin {req[k], Idle}
      PROVE  /\ Rank[req'[k].step] > Rank[req[k].step]
             /\ req'[k].ride = req[k].ride /\ req'[k].id = req[k].id
  <2>0. req[k] \in Request
    BY <1>1 DEF TypeOK
  <2>1. PICK h \in Handlers : Proceed(h)
    <3>1. ASSUME NEW h \in Handlers, Call(h) PROVE FALSE
      BY <1>1, <3>1 DEF TypeOK, Call, AcceptRide, StartRideWithOTP, StartRide, CompleteRide, CancelRide, Begin
    <3>2. ASSUME NEW h \in Handlers, Fail(h) PROVE FALSE
      BY <1>1, <3>2 DEF TypeOK, Fail, Return
    <3>3. ~Crash
      BY <1>1 DEF Crash
    <3>4. ASSUME \/ \E u \in Riders, r \in Rides, answered \in BOOLEAN : CreateRideRequest(u, r, answered)
                 \/ \E r \in Rides : Goroutine(r)
                 \/ UNCHANGED vars
          PROVE  FALSE
      BY <1>1, <3>4 DEF CreateRideRequest, Goroutine, GeoAdd, ZRem, vars
    <3>5. QED
      BY <1>1, <3>1, <3>2, <3>3, <3>4 DEF Next
  <2>2. PICK step \in Steps : req'[k] = [req[k] EXCEPT !.step = step] /\ Rank[step] > Rank[req[k].step]
    BY <1>1, <2>1, Statements
  <2>3. QED
    BY <2>0, <2>2 DEF Request
<1>2. TypeOK /\ [Next]_vars =>
        \A h \in Handlers : req[h] # Idle /\ req'[h] \notin {req[h], Idle} =>
          /\ Rank[req'[h].step] > Rank[req[h].step]
          /\ req'[h].ride = req[h].ride /\ req'[h].id = req[h].id
  BY <1>1
<1>3. QED
  BY <1>2, TypeCorrect, PTL DEF Spec, RequestsAdvance

\* The event was told, or a handler is about to tell it.
Due(event, step, r) ==
    <<event, r>> \in sent \/ \E h \in Handlers : req[h].step = step /\ req[h].ride = r

\* The rider was told of every stage the ride has reached, or is about to be.
NothingLeftUntold ==
    \A r \in Rides :
        /\ ride[r].driver # NULL => Due("ride_accepted", "accept_reply", r)
        /\ ride[r].status \in {"in_progress", "completed"} => Due("ride_started", "start_reply", r)
        /\ ride[r].status = "completed" => Due("ride_completed", "complete_reply", r)

Steady == "db" \notin Faults /\ "crash" \notin Faults

\* A handler that is about to tell something tells it.
LEMMA DueStays ==
    ASSUME Steady, TypeOK, [Next]_vars, NEW r \in Rides, NEW event, NEW step,
           <<event, step>> \in {<<"ride_accepted", "accept_reply">>, <<"ride_started", "start_reply">>,
                                <<"ride_completed", "complete_reply">>},
           Due(event, step, r)
    PROVE  Due(event, step, r)'
<1>1. sent \subseteq sent'
  <2>1. ASSUME NEW h \in Handlers,
               \/ AcceptReply(h) \/ StartReply(h) \/ CompleteReply(h)
               \/ \E found \in BOOLEAN : CancelReply(h, found)
        PROVE  sent \subseteq sent'
    BY <2>1 DEF AcceptReply, StartReply, CompleteReply, CancelReply
  <2>2. QED
    BY <2>1, Repliers
<1>2. ASSUME NEW k \in Handlers, req[k].step = step, req[k].ride = r
      PROVE  req'[k] = req[k] \/ <<event, r>> \in sent'
  <2>0. req[k].step # "idle" /\ req[k] # Idle
    BY <1>2 DEF Idle
  <2>1. ASSUME NEW h \in Handlers, Proceed(h), h # k PROVE req'[k] = req[k]
    BY <2>1 DEF TypeOK, Proceed, AcceptLock, AcceptCount, AcceptUpdate, AcceptReply, StartUpdate, StartReply,
                CompleteUpdate, CompleteReply, CancelUpdate, CancelReply, Continue, Return
  <2>2. ASSUME Proceed(k) PROVE <<event, r>> \in sent'
    BY <1>2, <2>2 DEF Proceed, AcceptLock, AcceptCount, AcceptUpdate, AcceptReply, StartUpdate, StartReply,
                      CompleteUpdate, CompleteReply, CancelUpdate, CancelReply
  <2>3. ASSUME NEW h \in Handlers, Call(h) PROVE req'[k] = req[k]
    BY <2>0, <2>3 DEF TypeOK, Call, AcceptRide, StartRideWithOTP, StartRide, CompleteRide, CancelRide, Begin
  <2>4. ASSUME \/ \E u \in Riders, q \in Rides, answered \in BOOLEAN : CreateRideRequest(u, q, answered)
               \/ \E q \in Rides : Goroutine(q)
               \/ UNCHANGED vars
        PROVE  req'[k] = req[k]
    BY <2>4 DEF CreateRideRequest, Goroutine, GeoAdd, ZRem, vars
  <2>5. ~Crash /\ \A h \in Handlers : ~Fail(h)
    BY DEF Steady, Crash, Fail
  <2>6. QED
    BY <2>1, <2>2, <2>3, <2>4, <2>5 DEF Next
<1>3. QED
  BY <1>1, <1>2 DEF Due

\* The statement that reaches a stage leaves its handler about to tell it.
LEMMA UntoldStep ==
    ASSUME Steady, TypeOK, NothingLeftUntold, [Next]_vars
    PROVE  NothingLeftUntold'
<1> DEFINE Row(r) ==
        /\ ride'[r].driver # NULL => Due("ride_accepted", "accept_reply", r)'
        /\ ride'[r].status \in {"in_progress", "completed"} => Due("ride_started", "start_reply", r)'
        /\ ride'[r].status = "completed" => Due("ride_completed", "complete_reply", r)'
<1> SUFFICES ASSUME NEW r \in Rides PROVE Row(r)
  BY DEF NothingLeftUntold, Due
<1>0. ride[r] \in Ledger!Row
  BY DEF TypeOK
<1>1. /\ ride[r].driver # NULL => Due("ride_accepted", "accept_reply", r)'
      /\ ride[r].status \in {"in_progress", "completed"} => Due("ride_started", "start_reply", r)'
      /\ ride[r].status = "completed" => Due("ride_completed", "complete_reply", r)'
  BY DueStays DEF NothingLeftUntold
<1>2. CASE ride'[r] = ride[r]
  BY <1>1, <1>2
<1>3. ASSUME NEW h \in Handlers, NEW step \in Steps, Continue(h, step), req[h].ride = r
      PROVE  req'[h].step = step /\ req'[h].ride = r
  BY <1>3 DEF Continue, TypeOK, Request
<1>4. ASSUME ride'[r] # ride[r], NEW u \in Riders, NEW q \in Rides, NEW answered \in BOOLEAN,
             CreateRideRequest(u, q, answered)
      PROVE  Row(r)
  <2>1. q = r
    BY <1>4 DEF CreateRideRequest, TypeOK
  <2>2. ride'[r].driver = NULL /\ ride'[r].status = "requested"
    BY <1>4, <2>1 DEF CreateRideRequest, TypeOK, Ledger!NoRow
  <2>3. QED
    BY <2>2
<1>5. ASSUME ride'[r] # ride[r], NEW h \in Handlers, NEW c \in Codes, AcceptUpdate(h, c)
      PROVE  Row(r)
  <2>1. req[h].ride = r /\ Continue(h, "accept_reply")
    BY <1>5 DEF AcceptUpdate, TypeOK
  <2>2. ride'[r].status = "accepted"
    BY <1>0, <1>5, <2>1 DEF AcceptUpdate, TypeOK, Ledger!Row
  <2>3. Due("ride_accepted", "accept_reply", r)'
    BY <1>3, <2>1 DEF Due, Steps
  <2>4. QED
    BY <2>2, <2>3
<1>6. ASSUME ride'[r] # ride[r], NEW h \in Handlers, StartUpdate(h)
      PROVE  Row(r)
  <2>1. req[h].ride = r /\ Continue(h, "start_reply")
    BY <1>6 DEF StartUpdate, TypeOK
  <2>2. ride'[r].status = "in_progress" /\ ride'[r].driver = ride[r].driver
    BY <1>0, <1>6, <2>1 DEF StartUpdate, TypeOK, Ledger!Row
  <2>3. Due("ride_started", "start_reply", r)'
    BY <1>3, <2>1 DEF Due, Steps
  <2>4. QED
    BY <1>1, <2>2, <2>3
<1>7. ASSUME ride'[r] # ride[r], NEW h \in Handlers, CompleteUpdate(h)
      PROVE  Row(r)
  <2>1. req[h].ride = r /\ Continue(h, "complete_reply") /\ ride[r].status = "in_progress"
    BY <1>7 DEF CompleteUpdate, TypeOK
  <2>2. ride'[r].status = "completed" /\ ride'[r].driver = ride[r].driver
    BY <1>0, <1>7, <2>1 DEF CompleteUpdate, TypeOK, Ledger!Row
  <2>3. Due("ride_completed", "complete_reply", r)'
    BY <1>3, <2>1 DEF Due, Steps
  <2>4. QED
    BY <1>1, <2>1, <2>2, <2>3
<1>8. ASSUME ride'[r] # ride[r], NEW h \in Handlers, CancelUpdate(h)
      PROVE  Row(r)
  <2>1. req[h].ride = r
    BY <1>8 DEF CancelUpdate, TypeOK
  <2>2. ride'[r].status = "cancelled" /\ ride'[r].driver = ride[r].driver
    BY <1>0, <1>8, <2>1 DEF CancelUpdate, TypeOK, Ledger!Row
  <2>3. QED
    BY <1>1, <2>2
<1>9. QED
  BY <1>2, <1>4, <1>5, <1>6, <1>7, <1>8, RideWriters

\* As long as statements do not fail and the process does not stop, no stage of
\* a ride is committed and then forgotten, whatever the requests on it do to
\* each other and whatever Redis does.
THEOREM EveryStageTold == Steady => (Spec => []NothingLeftUntold)
<1> SUFFICES ASSUME Steady PROVE Spec => []NothingLeftUntold
  OBVIOUS
<1>1. Init => NothingLeftUntold
  BY DEF Init, NothingLeftUntold, Ledger!NoRow
<1>2. TypeOK /\ NothingLeftUntold /\ [Next]_vars => NothingLeftUntold'
  BY UntoldStep
<1>3. QED
  BY <1>1, <1>2, TypeCorrect, PTL DEF Spec

-----------------------------------------------------------------------------
(* The two driver ids *)

\* Every drivers row carries the id of its account.
IdsAgree == \A p \in Profiles : Account[p] = p

\* A ride that occupies a driver has one.
OccupiedHasDriver == \A r \in Rides : ride[r].status \in Ledger!DriverActive => ride[r].driver \in Profiles

\* An accept writes status and driver together, and no later statement takes
\* the driver away or makes a ride without one active.
LEMMA OccupiedStep == TypeOK /\ OccupiedHasDriver /\ [Next]_vars => OccupiedHasDriver'
<1> SUFFICES ASSUME TypeOK, OccupiedHasDriver, [Next]_vars, NEW r \in Rides,
                    ride'[r].status \in Ledger!DriverActive
             PROVE  ride'[r].driver \in Profiles
  BY DEF OccupiedHasDriver
<1>0. ride[r] \in Ledger!Row
  BY DEF TypeOK
<1>1. CASE ride'[r] = ride[r]
  BY <1>1 DEF OccupiedHasDriver
<1>2. ASSUME NEW u \in Riders, NEW q \in Rides, NEW answered \in BOOLEAN, ride'[r] # ride[r],
             CreateRideRequest(u, q, answered)
      PROVE  FALSE
  BY <1>2 DEF CreateRideRequest, TypeOK, Ledger!NoRow, Ledger!DriverActive
<1>3. ASSUME NEW h \in Handlers, NEW c \in Codes, AcceptUpdate(h, c), ride'[r] # ride[r]
      PROVE  ride'[r].driver \in Profiles
  <2>1. req[h].id \in Profiles /\ req[h].ride = r
    BY <1>3 DEF AcceptUpdate, TypeOK, RequestOK
  <2>2. QED
    BY <1>0, <1>3, <2>1 DEF AcceptUpdate, TypeOK, Ledger!Row
<1>4. ASSUME NEW h \in Handlers, StartUpdate(h), ride'[r] # ride[r]
      PROVE  ride'[r].driver \in Profiles
  <2>1. ride'[r].driver = ride[r].driver /\ ride[r].status \in Ledger!DriverActive
    BY <1>0, <1>4 DEF StartUpdate, Startable, TypeOK, Ledger!Row, Ledger!DriverActive
  <2>2. QED
    BY <2>1 DEF OccupiedHasDriver
<1>5. ASSUME NEW h \in Handlers, CompleteUpdate(h) \/ CancelUpdate(h), ride'[r] # ride[r]
      PROVE  FALSE
  BY <1>0, <1>5 DEF CompleteUpdate, CancelUpdate, TypeOK, Ledger!Row, Ledger!DriverActive
<1>6. QED
  BY <1>1, <1>2, <1>3, <1>4, <1>5, RideWriters

\* The mix-up of users.id and drivers.id is all that keeps an assigned driver
\* from starting a ride (RideFreshIds): where the two ids agree, the driver of
\* an accepted ride is never turned away (ride.go:323).
THEOREM SharedIdsMayStart == IdsAgree => (Spec => []AssignedDriverMayStart)
<1> SUFFICES ASSUME IdsAgree PROVE Spec => []AssignedDriverMayStart
  OBVIOUS
<1>1. Init => OccupiedHasDriver
  BY DEF Init, OccupiedHasDriver, Ledger!NoRow, Ledger!DriverActive
<1>2. OccupiedHasDriver => AssignedDriverMayStart
  BY DEF IdsAgree, OccupiedHasDriver, AssignedDriverMayStart, Startable, Assigned, Ledger!DriverActive
<1>3. QED
  BY <1>1, <1>2, OccupiedStep, TypeCorrect, PTL DEF Spec

\* A start or a completion works with the user id of its caller.
CallerIsUser ==
    \A h \in Handlers : req[h].step \in {"start_update", "complete_update"} => req[h].id \in Drivers

\* No ride gets beyond its acceptance.
NoRideStarts == \A r \in Rides : ride[r].status \notin {"driver_arrived", "in_progress", "completed"}

\* StartRide and CompleteRide take the id from the caller, no other statement
\* changes it.
LEMMA CallerIsUserStep == TypeOK /\ CallerIsUser /\ [Next]_vars => CallerIsUser'
<1> SUFFICES ASSUME TypeOK, CallerIsUser, [Next]_vars, NEW k \in Handlers,
                    req'[k].step \in {"start_update", "complete_update"}
             PROVE  req'[k].id \in Drivers
  BY DEF CallerIsUser
<1>0. req[k] \in Request /\ req'[k] # Idle
  BY DEF TypeOK, Idle
<1>1. CASE req'[k] = req[k]
  BY <1>1 DEF CallerIsUser
<1>2. ASSUME NEW h \in Handlers, Proceed(h), req'[k] # req[k]
      PROVE  FALSE
  <2>1. PICK step \in Steps : req'[k] = [req[k] EXCEPT !.step = step] /\ Rank[step] > Rank[req[k].step]
    BY <1>0, <1>2, Statements
  <2>2. step \in {"start_update", "complete_update"} /\ Rank[step] = 1
    BY <1>0, <2>1 DEF Request, Rank
  <2>3. req[k].step \in DOMAIN Rank => Rank[req[k].step] \in {1, 2, 3, 4}
    BY DEF Rank
  <2>4. req[k].step # "idle"
    BY <1>0, <1>2, <2>1 DEF Proceed, AcceptLock, AcceptCount, AcceptUpdate, AcceptReply, StartUpdate, StartReply,
          CompleteUpdate, CompleteReply, CancelUpdate, CancelReply, Continue, Return, TypeOK, RequestOK, Idle, Request
  <2>5. QED
    BY <1>0, <2>1, <2>2, <2>3, <2>4 DEF Request, Steps, Rank
<1>3. ASSUME NEW h \in Handlers, Call(h), req'[k] # req[k]
      PROVE  req'[k].id \in Drivers
  BY <1>3 DEF TypeOK, Call, AcceptRide, StartRideWithOTP, StartRide, CompleteRide, CancelRide, Begin
<1>4. ASSUME NEW h \in Handlers, Fail(h) PROVE req'[k] = req[k]
  BY <1>0, <1>4 DEF TypeOK, Fail, Return
<1>5. ~Crash
  BY <1>0 DEF Crash
<1>6. ASSUME \/ \E u \in Riders, r \in Rides, answered \in BOOLEAN : CreateRideRequest(u, r, answered)
             \/ \E r \in Rides : Goroutine(r)
             \/ UNCHANGED vars
      PROVE  req'[k] = req[k]
  BY <1>6 DEF CreateRideRequest, Goroutine, GeoAdd, ZRem, vars
<1>7. QED
  BY <1>1, <1>2, <1>3, <1>4, <1>5, <1>6 DEF Next

\* The UPDATE of a start compares that id with the drivers id of the row.
LEMMA NoRideStartsStep ==
    ASSUME Drivers \cap Profiles = {}, TypeOK, CallerIsUser, NoRideStarts, [Next]_vars
    PROVE  NoRideStarts'
<1> SUFFICES ASSUME NEW r \in Rides, ride'[r] # ride[r]
             PROVE  ride'[r].status \notin {"driver_arrived", "in_progress", "completed"}
  BY DEF NoRideStarts
<1>0. ride[r] \in Ledger!Row
  BY DEF TypeOK
<1>1. ASSUME NEW u \in Riders, NEW q \in Rides, NEW answered \in BOOLEAN, CreateRideRequest(u, q, answered)
      PROVE  ride'[r].status = "requested"
  BY <1>1 DEF CreateRideRequest, TypeOK, Ledger!NoRow
<1>2. ASSUME NEW h \in Handlers, NEW c \in Codes, AcceptUpdate(h, c)
      PROVE  ride'[r].status = "accepted"
  <2>1. /\ req[h].ride = r
        /\ ride' = [ride EXCEPT ![r] = [@ EXCEPT !.status = "accepted", !.driver = req[h].id, !.otp = c]]
    BY <1>2 DEF AcceptUpdate, TypeOK
  <2>2. QED
    BY <1>0, <2>1 DEF TypeOK, Ledger!Row
<1>3. ASSUME NEW h \in Handlers, StartUpdate(h)
      PROVE  FALSE
  <2>1. req[h].ride = r /\ ride[r].driver = req[h].id /\ req[h].id \in Drivers
    BY <1>3 DEF StartUpdate, Assigned, TypeOK, CallerIsUser
  <2>2. QED
    BY <1>0, <2>1, NullAssumption DEF Ledger!Row
<1>4. ASSUME NEW h \in Handlers, CompleteUpdate(h)
      PROVE  FALSE
  BY <1>4 DEF CompleteUpdate, TypeOK, NoRideStarts
<1>5. ASSUME NEW h \in Handlers, CancelUpdate(h)
      PROVE  ride'[r].status = "cancelled"
  BY <1>0, <1>5 DEF CancelUpdate, TypeOK, Ledger!Row
<1>6. QED
  BY <1>1, <1>2, <1>3, <1>4, <1>5, RideWriters

\* The other side: with ids as DriverService.CreateProfile generates them, no
\* user id being a drivers id, no ride is ever started or completed.
THEOREM FreshIdsNeverStart == Drivers \cap Profiles = {} => (Spec => []NoRideStarts)
<1> SUFFICES ASSUME Drivers \cap Profiles = {} PROVE Spec => []NoRideStarts
  OBVIOUS
<1>1. Init => CallerIsUser /\ NoRideStarts
  BY DEF Init, CallerIsUser, NoRideStarts, Idle, Ledger!NoRow
<1>2. TypeOK /\ CallerIsUser /\ NoRideStarts /\ [Next]_vars => NoRideStarts'
  BY NoRideStartsStep
<1>3. QED
  BY <1>1, <1>2, CallerIsUserStep, TypeCorrect, PTL DEF Spec
=============================================================================

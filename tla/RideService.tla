----------------------------- MODULE RideService -----------------------------
(***************************************************************************)
(* The ride operations of service/ride.go: CreateRideRequest, AcceptRide,  *)
(* StartRideWithOTP, StartRide, CompleteRide and CancelRide, run by any    *)
(* number of concurrent handlers (an HTTP request, or the read pump of a   *)
(* WebSocket connection) over one PostgreSQL database and one Redis.       *)
(*                                                                         *)
(* A handler is split where it talks to the database: every SQL statement  *)
(* is a step, so two handlers interleave between statements exactly as two *)
(* goroutines do.  A statement that writes or locks a row waits while      *)
(* another transaction holds that row's lock; a plain SELECT never waits   *)
(* (READ COMMITTED).  The UPDATE and the COMMIT of AcceptRide are one step: *)
(* the row stays locked between them and nobody reads uncommitted data.    *)
(*                                                                         *)
(* What a request finds wrong before it has changed anything (a ride that  *)
(* is not there, a caller who does not own it, a wrong OTP) only produces  *)
(* an error response and leaves the state alone: it is no step here.       *)
(***************************************************************************)
EXTENDS Naturals, FiniteSets

CONSTANTS
    Riders,         \* users.id of the accounts with role rider
    Drivers,        \* users.id of the accounts with role driver
    Profiles,       \* drivers.id, the primary keys of the drivers table
    Account,        \* drivers.user_id, by drivers.id
    Rides,          \* rides.id
    Codes,          \* ride verification codes
    Handlers,       \* the goroutines that run requests
    Serves,         \* the users whose requests each handler runs
    UniqueIndexes,  \* TRUE iff unique_active_driver and unique_active_user exist
    Faults,         \* the failures considered, see FaultsAssumption
    NULL

\* drivers.user_id is NOT NULL REFERENCES users(id) but not unique: an account
\* may own no row, one row, or several.
ASSUME AccountAssumption == Account \in [Profiles -> Drivers]

\* An HTTP handler serves whoever calls; a read pump serves its own user.
ASSUME ServesAssumption == Serves \in [Handlers -> SUBSET (Riders \cup Drivers)]

\* "db": any statement may fail, and the server may have executed one whose
\* answer is lost.  "redis": a cache write may fail.  "crash": the process may
\* stop and start again.
ASSUME FaultsAssumption ==
    /\ UniqueIndexes \in BOOLEAN
    /\ Faults \subseteq {"db", "redis", "crash"}

ASSUME NullAssumption ==
    NULL \notin Riders \cup Drivers \cup Profiles \cup Rides \cup Codes \cup Handlers

VARIABLES
    ride,       \* the committed rows of the rides table
    lock,       \* the transaction (its handler) that holds each row's lock
    req,        \* where each handler is in the request it runs
    adding,     \* rides whose GEOADD goroutine has not run yet
    removing,   \* how many ZREM goroutines of each ride have not run yet
    geo,        \* the members of the Redis set rides:requested
    sent        \* the broadcasts made so far: <<type, ride>>

vars == <<ride, lock, req, adding, removing, geo, sent>>

-----------------------------------------------------------------------------
(* The rides table *)

Ledger == INSTANCE RideLedger

Active(p) == {r \in Rides : ride[r].driver = p /\ ride[r].status \in Ledger!DriverActive}

\* Each event goes to one user that its ride determines: the driver's account
\* for ride_cancelled, the rider for the others.
Events == {"ride_accepted", "ride_started", "ride_completed", "ride_cancelled"}

(* Requests *)

Steps == {"idle", "accept_lock", "accept_count", "accept_update", "accept_reply",
          "start_update", "start_reply", "complete_update", "complete_reply",
          "cancel_update", "cancel_reply"}

\* id is the driver id the request works with: the drivers row of an accept,
\* the caller's user id of a start or a complete, and the driver_id that the
\* first SELECT of a cancel has read.
Request == [step : Steps,
            ride : Rides \cup {NULL},
            id   : Drivers \cup Profiles \cup {NULL}]

Idle == [step |-> "idle", ride |-> NULL, id |-> NULL]

Begin(h, step, r, id) ==
    /\ req[h] = Idle
    /\ req' = [req EXCEPT ![h] = [step |-> step, ride |-> r, id |-> id]]

Continue(h, step) == req' = [req EXCEPT ![h].step = step]

Return(h) == req' = [req EXCEPT ![h] = Idle]

\* The deferred Rollback, and a Commit, give up the row locks of h.
Release(h) == lock' = [r \in Rides |-> IF lock[r] = h THEN NULL ELSE lock[r]]

-----------------------------------------------------------------------------
(* CreateRideRequest: one INSERT, then the GEOADD goroutine.  When the      *)
(* answer to the INSERT is lost the row exists and nothing else is done.    *)
(* The goroutine that announces the ride to drivers reads and writes none   *)
(* of this module's state.                                                  *)

CreateRideRequest(u, r, answered) ==
    /\ ride[r].status = "none"
    /\ Ledger!RiderIndexAllows(u)
    /\ answered \/ "db" \in Faults
    /\ ride' = [ride EXCEPT ![r] = [Ledger!NoRow EXCEPT !.status = "requested", !.owner = u]]
    /\ adding' = IF answered THEN adding \cup {r} ELSE adding
    /\ UNCHANGED <<lock, req, removing, geo, sent>>

-----------------------------------------------------------------------------
(* AcceptRide *)

\* GetByUserID returns some drivers row of the caller; BEGIN.
AcceptRide(h, d, p, r) ==
    /\ d \in Serves[h]
    /\ Account[p] = d
    /\ Begin(h, "accept_lock", r, p)
    /\ UNCHANGED <<ride, lock, adding, removing, geo, sent>>

\* Mutant: the SELECT has lost its FOR UPDATE.
AcceptLockPlainSelect(h) ==
    LET r == req[h].ride IN
    /\ req[h].step = "accept_lock"
    /\ IF ride[r].status = "requested" THEN Continue(h, "accept_count") ELSE Return(h)
    /\ UNCHANGED <<ride, lock, adding, removing, geo, sent>>

\* Mutant: the ZREM goroutine is started before the ride is won.
AcceptLockUnindexes(h) ==
    LET r == req[h].ride IN
    /\ req[h].step = "accept_lock"
    /\ lock[r] = NULL
    /\ IF ride[r].status = "requested"
       THEN /\ lock' = [lock EXCEPT ![r] = h]
            /\ Continue(h, "accept_count")
            /\ removing' = [removing EXCEPT ![r] = @ + 1]
       ELSE UNCHANGED <<lock, removing>> /\ Return(h)
    /\ UNCHANGED <<ride, adding, geo, sent>>

\* SELECT status ... FOR UPDATE, and the check of the status it read.
AcceptLock(h) ==
    LET r == req[h].ride IN
    /\ req[h].step = "accept_lock"
    /\ lock[r] = NULL
    /\ IF ride[r].status = "requested"
       THEN lock' = [lock EXCEPT ![r] = h] /\ Continue(h, "accept_count")
       ELSE UNCHANGED lock /\ Return(h)
    /\ UNCHANGED <<ride, adding, removing, geo, sent>>

\* Mutant: the status list of the COUNT lacks in_progress.
AcceptCountForgetsStarted(h) ==
    /\ req[h].step = "accept_count"
    /\ IF \A r \in Active(req[h].id) : ride[r].status = "in_progress"
       THEN UNCHANGED lock /\ Continue(h, "accept_update")
       ELSE Release(h) /\ Return(h)
    /\ UNCHANGED <<ride, adding, removing, geo, sent>>

\* Mutant: no deferred Rollback.
AcceptCountKeepsLock(h) ==
    /\ req[h].step = "accept_count"
    /\ IF Active(req[h].id) = {} THEN Continue(h, "accept_update") ELSE Return(h)
    /\ UNCHANGED <<ride, lock, adding, removing, geo, sent>>

\* Mutant: the rider is told before the UPDATE and the COMMIT.
AcceptCountTells(h) ==
    /\ req[h].step = "accept_count"
    /\ IF Active(req[h].id) = {}
       THEN /\ UNCHANGED lock
            /\ Continue(h, "accept_update")
            /\ sent' = sent \cup {<<"ride_accepted", req[h].ride>>}
       ELSE UNCHANGED sent /\ Release(h) /\ Return(h)
    /\ UNCHANGED <<ride, adding, removing, geo>>

\* SELECT COUNT(1) of the driver's active rides.
AcceptCount(h) ==
    /\ req[h].step = "accept_count"
    /\ IF Active(req[h].id) = {}
       THEN UNCHANGED lock /\ Continue(h, "accept_update")
       ELSE Release(h) /\ Return(h)
    /\ UNCHANGED <<ride, adding, removing, geo, sent>>

\* UPDATE with a fresh OTP, then COMMIT; unique_active_driver may refuse it.
AcceptUpdate(h, c) ==
    LET r == req[h].ride
        p == req[h].id IN
    /\ req[h].step = "accept_update"
    /\ IF Ledger!DriverIndexAllows(p)
       THEN /\ ride' = [ride EXCEPT ![r] = [@ EXCEPT !.status = "accepted", !.driver = p, !.otp = c]]
            /\ Continue(h, "accept_reply")
       ELSE UNCHANGED ride /\ Return(h)
    /\ Release(h)
    /\ UNCHANGED <<adding, removing, geo, sent>>

\* Mutant: the broadcast is missing.
AcceptReplySilent(h) ==
    /\ req[h].step = "accept_reply"
    /\ removing' = [removing EXCEPT ![req[h].ride] = @ + 1]
    /\ Return(h)
    /\ UNCHANGED <<ride, lock, adding, geo, sent>>

\* GetByID, the ZREM goroutine and the broadcast to the rider.
AcceptReply(h) ==
    LET r == req[h].ride IN
    /\ req[h].step = "accept_reply"
    /\ removing' = [removing EXCEPT ![r] = @ + 1]
    /\ sent' = sent \cup {<<"ride_accepted", r>>}
    /\ Return(h)
    /\ UNCHANGED <<ride, lock, adding, geo>>

-----------------------------------------------------------------------------
(* StartRideWithOTP (HTTP) and StartRide (WebSocket, or its second half) *)

\* The driver id that both compare with rides.driver_id is the caller's user id.
Assigned(d, r) == ride[r].driver = d

Startable(r) == ride[r].status \in {"accepted", "driver_arrived"}

StartRideWithOTP(h, d, r, code) ==
    /\ d \in Serves[h]
    /\ ride[r].status # "none"
    /\ Assigned(d, r)
    /\ ride[r].otp = code
    /\ Startable(r)
    /\ Begin(h, "start_update", r, d)
    /\ UNCHANGED <<ride, lock, adding, removing, geo, sent>>

StartRide(h, d, r) ==
    /\ d \in Serves[h]
    /\ Begin(h, "start_update", r, d)
    /\ UNCHANGED <<ride, lock, adding, removing, geo, sent>>

\* Mutant: the WHERE has lost its status list.
StartUpdateAnyStatus(h) ==
    LET r == req[h].ride IN
    /\ req[h].step = "start_update"
    /\ lock[r] = NULL
    /\ IF Assigned(req[h].id, r)
       THEN /\ ride' = [ride EXCEPT ![r].status = "in_progress"]
            /\ Continue(h, "start_reply")
       ELSE UNCHANGED ride /\ Return(h)
    /\ UNCHANGED <<lock, adding, removing, geo, sent>>

\* UPDATE ... WHERE id AND driver_id AND status IN (accepted, driver_arrived).
StartUpdate(h) ==
    LET r == req[h].ride IN
    /\ req[h].step = "start_update"
    /\ lock[r] = NULL
    /\ IF Assigned(req[h].id, r) /\ Startable(r)
       THEN /\ ride' = [ride EXCEPT ![r].status = "in_progress"]
            /\ Continue(h, "start_reply")
       ELSE UNCHANGED ride /\ Return(h)
    /\ UNCHANGED <<lock, adding, removing, geo, sent>>

StartReply(h) ==
    /\ req[h].step = "start_reply"
    /\ sent' = sent \cup {<<"ride_started", req[h].ride>>}
    /\ Return(h)
    /\ UNCHANGED <<ride, lock, adding, removing, geo>>

-----------------------------------------------------------------------------
(* CompleteRide *)

CompleteRide(h, d, r) ==
    /\ d \in Serves[h]
    /\ Begin(h, "complete_update", r, d)
    /\ UNCHANGED <<ride, lock, adding, removing, geo, sent>>

\* Mutant: an accepted ride completes without having been started.
CompleteUpdateUnstarted(h) ==
    LET r == req[h].ride IN
    /\ req[h].step = "complete_update"
    /\ lock[r] = NULL
    /\ IF Assigned(req[h].id, r) /\ ride[r].status \in Ledger!DriverActive
       THEN /\ ride' = [ride EXCEPT ![r].status = "completed"]
            /\ Continue(h, "complete_reply")
       ELSE UNCHANGED ride /\ Return(h)
    /\ UNCHANGED <<lock, adding, removing, geo, sent>>

\* UPDATE ... WHERE id AND driver_id AND status = in_progress.
CompleteUpdate(h) ==
    LET r == req[h].ride IN
    /\ req[h].step = "complete_update"
    /\ lock[r] = NULL
    /\ IF Assigned(req[h].id, r) /\ ride[r].status = "in_progress"
       THEN /\ ride' = [ride EXCEPT ![r].status = "completed"]
            /\ Continue(h, "complete_reply")
       ELSE UNCHANGED ride /\ Return(h)
    /\ UNCHANGED <<lock, adding, removing, geo, sent>>

CompleteReply(h) ==
    /\ req[h].step = "complete_reply"
    /\ sent' = sent \cup {<<"ride_completed", req[h].ride>>}
    /\ Return(h)
    /\ UNCHANGED <<ride, lock, adding, removing, geo>>

-----------------------------------------------------------------------------
(* CancelRide *)

\* GetByID and the checks of the owner and of the status it read.
CancelRide(h, u, r) ==
    /\ u \in Serves[h]
    /\ ride[r].status # "none"
    /\ ride[r].owner = u
    /\ ride[r].status \notin {"completed", "cancelled"}
    /\ Begin(h, "cancel_update", r, ride[r].driver)
    /\ UNCHANGED <<ride, lock, adding, removing, geo, sent>>

\* Mutant: the write does not wait for the row lock.
CancelUpdateUnlocked(h) ==
    LET r == req[h].ride IN
    /\ req[h].step = "cancel_update"
    /\ ride' = [ride EXCEPT ![r].status = "cancelled"]
    /\ Continue(h, "cancel_reply")
    /\ UNCHANGED <<lock, adding, removing, geo, sent>>

\* UpdateStatus: UPDATE ... WHERE id, whatever the status is by now.
CancelUpdate(h) ==
    LET r == req[h].ride IN
    /\ req[h].step = "cancel_update"
    /\ lock[r] = NULL
    /\ ride' = [ride EXCEPT ![r].status = "cancelled"]
    /\ Continue(h, "cancel_reply")
    /\ UNCHANGED <<lock, adding, removing, geo, sent>>

\* The ZREM goroutine, and the broadcast to the driver of the first SELECT;
\* the lookup of that driver's account may fail, silently.
CancelReply(h, found) ==
    LET r == req[h].ride IN
    /\ req[h].step = "cancel_reply"
    /\ found \/ "db" \in Faults
    /\ removing' = [removing EXCEPT ![r] = @ + 1]
    /\ sent' = IF req[h].id # NULL /\ found
               THEN sent \cup {<<"ride_cancelled", r>>} ELSE sent
    /\ Return(h)
    /\ UNCHANGED <<ride, lock, adding, geo>>

-----------------------------------------------------------------------------
(* Failures *)

\* The next statement fails: the handler returns an error, and the deferred
\* Rollback undoes the transaction.  After an UPDATE the same step stands for
\* a statement that was executed and whose answer was lost.
Fail(h) ==
    /\ "db" \in Faults
    /\ req[h] # Idle
    /\ Return(h)
    /\ Release(h)
    /\ UNCHANGED <<ride, adding, removing, geo, sent>>

\* The process stops: handlers and goroutines are gone, PostgreSQL rolls the
\* open transactions back, the table and the Redis set survive.
Crash ==
    /\ "crash" \in Faults
    /\ lock' = [r \in Rides |-> NULL]
    /\ req' = [h \in Handlers |-> Idle]
    /\ adding' = {}
    /\ removing' = [r \in Rides |-> 0]
    /\ UNCHANGED <<ride, geo, sent>>

-----------------------------------------------------------------------------
(* Goroutines.  A Redis error is logged and the work is not retried. *)

GeoAdd(r, ok) ==
    /\ r \in adding
    /\ ok \/ "redis" \in Faults
    /\ adding' = adding \ {r}
    /\ geo' = IF ok THEN geo \cup {r} ELSE geo
    /\ UNCHANGED <<ride, lock, req, removing, sent>>

\* Mutant: a ZREM runs that nobody started.
ZRemUnasked(r, ok) ==
    /\ removing' = [removing EXCEPT ![r] = @ - 1]
    /\ geo' = IF ok THEN geo \ {r} ELSE geo
    /\ UNCHANGED <<ride, lock, req, adding, sent>>

ZRem(r, ok) ==
    /\ removing[r] > 0
    /\ ok \/ "redis" \in Faults
    /\ removing' = [removing EXCEPT ![r] = @ - 1]
    /\ geo' = IF ok THEN geo \ {r} ELSE geo
    /\ UNCHANGED <<ride, lock, req, adding, sent>>

-----------------------------------------------------------------------------
Init ==
    /\ ride = [r \in Rides |-> Ledger!NoRow]
    /\ lock = [r \in Rides |-> NULL]
    /\ req = [h \in Handlers |-> Idle]
    /\ adding = {}
    /\ removing = [r \in Rides |-> 0]
    /\ geo = {}
    /\ sent = {}

\* A user sends a request.
Call(h) == \E r \in Rides :
    \/ \E p \in Profiles : AcceptRide(h, Account[p], p, r)
    \/ \E d \in Drivers, c \in Codes : StartRideWithOTP(h, d, r, c)
    \/ \E d \in Drivers : StartRide(h, d, r)
    \/ \E d \in Drivers : CompleteRide(h, d, r)
    \/ \E u \in Riders : CancelRide(h, u, r)

\* The handler runs its next statement.
Proceed(h) ==
    \/ AcceptLock(h)
    \/ AcceptCount(h)
    \/ \E c \in Codes : AcceptUpdate(h, c)
    \/ AcceptReply(h)
    \/ StartUpdate(h)
    \/ StartReply(h)
    \/ CompleteUpdate(h)
    \/ CompleteReply(h)
    \/ CancelUpdate(h)
    \/ \E found \in BOOLEAN : CancelReply(h, found)

Goroutine(r) == \E ok \in BOOLEAN : GeoAdd(r, ok) \/ ZRem(r, ok)

Next ==
    \/ \E u \in Riders, r \in Rides, answered \in BOOLEAN : CreateRideRequest(u, r, answered)
    \/ \E h \in Handlers : Call(h) \/ Proceed(h) \/ Fail(h)
    \/ Crash
    \/ \E r \in Rides : Goroutine(r)

Spec == Init /\ [][Next]_vars

\* A handler that runs gets its next statement executed: PostgreSQL queues the
\* waiters of a row lock, so one that waits while the lock is released over
\* and over is served in the end.  Goroutines are scheduled.
Fairness ==
    /\ \A h \in Handlers : SF_vars(Proceed(h))
    /\ \A r \in Rides :
        /\ WF_vars(\E ok \in BOOLEAN : GeoAdd(r, ok))
        /\ WF_vars(\E ok \in BOOLEAN : ZRem(r, ok))

FairSpec == Spec /\ Fairness
-----------------------------------------------------------------------------
(***************************************************************************)
(* Properties                                                              *)
(***************************************************************************)

\* What a request at each step is about.
RequestOK(h) ==
    /\ req[h] = Idle \/ req[h].ride \in Rides
    /\ req[h].step = "idle" => req[h] = Idle
    /\ req[h].step \in {"accept_lock", "accept_count", "accept_update", "accept_reply"} =>
          req[h].id \in Profiles /\ Account[req[h].id] \in Serves[h]

\* Type invariant.
TypeOK ==
    /\ ride \in [Rides -> Ledger!Row]
    /\ lock \in [Rides -> Handlers \cup {NULL}]
    /\ req \in [Handlers -> Request] /\ \A h \in Handlers : RequestOK(h)
    /\ adding \subseteq Rides
    /\ removing \in [Rides -> Nat]
    /\ geo \subseteq Rides
    /\ sent \subseteq Events \X Rides

\* The steps of AcceptRide between its SELECT ... FOR UPDATE and its COMMIT.
InTransaction == {"accept_count", "accept_update"}

\* A row is locked by the handler whose transaction is open on it.
LockOwner ==
    \A r \in Rides, h \in Handlers :
        lock[r] = h <=> req[h].ride = r /\ req[h].step \in InTransaction

LockedIsRequested == \A r \in Rides : lock[r] # NULL => ride[r].status = "requested"

\* The status that AcceptRide has checked is still true when it acts on it:
\* from the SELECT ... FOR UPDATE to the end of the transaction the row is
\* locked by this handler alone, and no cancellation, start or rival accept
\* gets in between.
CheckedStatusHolds == LockOwner /\ LockedIsRequested

\* Requests already on their way when a ride is cancelled (an accept, a start,
\* a complete, a second cancel) cannot bring it back.
CancelledIsFinal ==
    [][\A r \in Rides : ride[r].status = "cancelled" => ride'[r] = ride[r]]_vars

\* Once a ride is assigned, its driver and the OTP its rider was shown never
\* change, however many drivers accept it at once.
AssignmentStable ==
    [][\A r \in Rides : ride[r].driver # NULL =>
          /\ ride'[r].driver = ride[r].driver
          /\ ride'[r].otp = ride[r].otp]_vars

\* The table says, and can no longer unsay, what the event tells.
HasHappened(event, r) ==
    \/ event = "ride_accepted" /\ ride[r].driver # NULL
    \/ event = "ride_started" /\ ride[r].status \in {"in_progress", "completed", "cancelled"}
    \/ event = "ride_completed" /\ ride[r].status \in {"completed", "cancelled"}
    \/ event = "ride_cancelled" /\ ride[r].status = "cancelled"

\* Whatever a user is told about a ride has been committed before: no
\* broadcast of a state that a rollback, a failed statement or a rival request
\* could still undo.
ToldAfterCommit ==
    \A event \in Events, r \in Rides : <<event, r>> \in sent => HasHappened(event, r)

\* Every operation, split into statements and run against all the others, has
\* the effect of one atomic step of the ledger or none.
ImplementsLedger == Ledger!Spec

\* AcceptRide: "Ensure Driver not already in active ride".
DriverExclusive ==
    \A r1, r2 \in Rides : \A p \in Profiles :
        r1 \in Active(p) /\ r2 \in Active(p) => r1 = r2

\* Every driver acts through one handler, the read pump of its only connection.
OneHandlerPerDriver ==
    \A h1, h2 \in Handlers : Serves[h1] \cap Serves[h2] \cap Drivers # {} => h1 = h2

\* While Redis and the process stay up, a ride that waits for a driver is in
\* the index that drivers search, or its GEOADD is still to run: no ZREM of an
\* accept that was rolled back, or of another ride, takes it out.
WaitingRideIndexed ==
    \A r \in Rides : ride[r].status = "requested" => r \in geo \cup adding

\* StartRideWithOTP: only a driver the ride is not assigned to is turned away
\* as "unauthorized - ride not assigned to this driver".
AssignedDriverMayStart ==
    \A r \in Rides : Startable(r) => Assigned(Account[ride[r].driver], r)

\* Every request is answered: no handler waits forever for a row lock.
RequestsReturn == \A h \in Handlers : req[h] # Idle ~> req[h] = Idle

\* A rider whose ride is completed is told of every stage in the end.
RiderIsTold ==
    \A r \in Rides : ride[r].status = "completed" ~>
        {"ride_accepted", "ride_started", "ride_completed"} \X {r} \subseteq sent
=============================================================================

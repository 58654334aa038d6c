# Rapid-Ride: TLA+ models, checks and proofs

Rapid-Ride is a ride-hailing service: a Go backend (echo, pgx, go-redis,
gorilla/websocket, asynq) over one PostgreSQL database and one Redis, and a
React frontend. This directory models the parts of it whose correctness depends
on the order in which things happen. TLC checks the models on small instances;
TLAPS proves the central properties for every value of the constants.

## 1. The system

| part | source | state it keeps | operations | what is hard |
|---|---|---|---|---|
| ride service | `service/ride.go`, `repository/ride.go` | the `rides` table, the Redis set `rides:requested` | CreateRideRequest, AcceptRide, StartRideWithOTP, StartRide, CompleteRide, CancelRide, RateRide, GetActiveRide, GetNearbyRides | requests interleave between SQL statements; cache writes and announcements run in goroutines that nobody waits for |
| schema | `database/*.sql` | tables, checks, unique indexes | migrations | two unique indexes stand in the *drop* part of `004_payments.sql` |
| realtime hub | `realtime/*.go` | clients, per-user client lists, send buffers | register, unregister, BroadcastToUser, read and write pumps | a sender works on a list it read under a lock it has given up; channels are closed under it |
| presence | `service/location.go` | `drivers:geo`, `driver:online:*` with a 30 s TTL | UpdateDriverLocation, SetDriverAvailability, searches | two Redis commands per operation, a TTL on one of the two keys |
| dispatch | `service/ride.go:136`, `repository/ride.go:304` | none of its own | announce a new ride, find nearby rides | two caches and a table that disagree |
| payments | `service/payment.go` | the `payments` table, `rides.payment_status` | create, verify, cash, UPI | read, decide and write in separate statements over two tables |
| accounts | `service/auth.go`, `service/driver.go` | `users`, `drivers`, `otp:<email>` | signup, login, SendOTP, VerifyOTP, CreateProfile | check-then-act on Redis and on tables; e-mail through a retrying queue |
| ratings | `service/ride.go:552,657` | `rides.rating`, `drivers.rating` | RateRide, updateDriverRating | one goroutine per rating recomputes an average |
| rider app | `frontend/src/pages/UserHome.jsx` | the panel, a copy of a ride, the form, a timer | book, cancel, rate, a poll every 4 s | no request is ever cancelled: answers arrive late and overtake each other |
| driver app | `pages/DriverDashboard.jsx`, `components/OTPVerification.jsx` | the panel, a copy of a ride, the rides on offer | accept, arrive, OTP, complete, collect, a poll every 5 s | the same, and a poll that keeps the panel of the first render |
| session pages | `App.jsx`, `api.js`, `context/UserContext.jsx`, login and signup pages | token in `localStorage`, HttpOnly cookie, path | login, signup, logout, the 401 interceptor | two copies of one credential; answers to requests of an earlier session |
| WebSocket client | `context/WebSocketContext.jsx` | one socket reference, one timer | connect, reconnect, cleanup | errors, closes, timers and page loads that coincide |
| places and routes | `LocationSearchInput.jsx`, `utils/routeService.js`, `UserHome.jsx` | pickup, dropoff, search box, line, price | search, choose, drag, route requests | a debounce, searches and route requests that nobody cancels |

Users talk to the ride service in two ways: HTTP requests, which run
concurrently, and WebSocket messages, which the read pump of a connection
(`realtime/client.go:55`) runs one after the other. The ride service writes the
table, updates the Redis index from goroutines and pushes events to users
through the hub; the hub calls back into the ride and location services. The
apps learn of their ride by polling the HTTP API; of the events the driver app
listens to new rides only, and the rider app to none.

What makes each part correct, and the places where that is at risk, are listed
in `PROJECT.json` under `hazards`.

## 2. Modules

| module | role |
|---|---|
| `RideLedger` | what the ride service promises: the rides table with every operation one atomic step |
| `RideService` | the operations as the code runs them: one step per SQL statement, row locks, goroutines, failures, crashes |
| `RideServiceProofs` | theorems about `RideService`, for all constants |
| `MCRideService` | instances of `RideService` for TLC |
| `Hub` | the realtime hub and the pumps of every connection: registration, broadcasts, send buffers, frames |
| `HubProofs` | theorems about `Hub`, for all constants |
| `MCHub` | instances of `Hub` for TLC |
| `Payments` | the four operations on payments, over the tables `payments` and `rides` |
| `PaymentsProofs` | theorems about `Payments`, for all constants |
| `MCPayments` | instances of `Payments` for TLC |
| `RideView` | what a screen that follows a ride promises, over `RideLedger`; with its proofs |
| `UserHome` | the rider's page over the rides table |
| `DriverDashboard` | the driver's page over the rides table |
| `Session`, `WebSocketContext` | who is logged in and on which page; the browser's socket |
| `Client` | the two composed, as `App.jsx` does |
| `LocationSearchInput`, `RouteService` | a search box; the decoding of a route and its markers |
| `Places` | the two composed with the place fields of the rider's page |
| `UserHomeProofs`, `DriverDashboardProofs`, `ClientProofs`, `PlacesProofs` | theorems about these, for all constants |
| `MCUserHome`, `MCDriverDashboard`, `MCClient`, `MCPlaces` | instances of these for TLC |

### RideService

| variable | in the code |
|---|---|
| `ride` | the committed rows of `rides`: status, user_id, driver_id, otp; status `"none"` is the absence of the row |
| `lock` | the transaction that holds the row lock taken by `SELECT ... FOR UPDATE` |
| `req` | per handler, the statement it runs next, the ride, and the driver id it works with |
| `adding`, `removing` | GEOADD and ZREM goroutines that have been started and have not run |
| `geo` | the members of `rides:requested` |
| `sent` | the broadcasts that were made |

A *handler* is a goroutine that runs requests one at a time: an HTTP request, or
a read pump. `Serves` says whose requests it runs: an HTTP handler anybody's, a
read pump its own user's. Every SQL statement is an action. `AcceptRide` is
lookup and BEGIN (`AcceptRide`), `SELECT ... FOR UPDATE` (`AcceptLock`), the
COUNT (`AcceptCount`), UPDATE and COMMIT (`AcceptUpdate`), and GetByID, ZREM
goroutine and broadcast (`AcceptReply`). UPDATE and COMMIT are one action
because nothing observable lies between them: the row is locked from
`AcceptLock` on and uncommitted data is invisible. A start, a complete and a
cancellation have an UPDATE and a reply, and those that read the ride first
(`StartRideWithOTP`, `CancelRide`) do so in the step that begins the request.
Statements that write a row wait for its lock, plain SELECTs do not, and the
conditions of an UPDATE are evaluated when it gets the row: that is READ
COMMITTED, PostgreSQL's default level, which `BeginTx` with empty options uses.

A request that is refused before it has changed anything is no step.

`Fail` is an error of the next statement, or, at the step after a write, the
loss of its answer; the deferred Rollback gives the lock back. `Crash` stops the
process: the database rolls open transactions back, the goroutines are gone.
`GeoAdd` and `ZRem` may fail, and are not retried. Each of the three kinds of
failure is switched by `Faults`.

Two facts about the data are constants, because the code does not fix them:

- `UniqueIndexes`: whether `unique_active_driver` and `unique_active_user`
  exist. They stand below the "drop" separator of `004_payments.sql`, so the
  migration does not create them; running the whole file with psql, or the
  down migration, does.
- `Account`: `drivers.user_id` by `drivers.id`, an arbitrary function, since the
  column is neither unique nor tied to the id.

### RideLedger

The same table with `Request`, `Assign`, `Start`, `Complete` and `Cancel` as
atomic steps and no handlers, locks, caches or notifications. `Cancel` is
allowed in every status, because the code checks the status in one statement and
writes in another: a weaker promise than one would like, and the strongest the
code keeps.

### Hub

| variable | in the code |
|---|---|
| `clients`, `arrays`, `size` | `Hub.Clients`; per user, the backing arrays its slice in `Hub.UserClients` has had, and the length of the slice |
| `conn` | a connection as its read pump sees it: new, open, broken (the loop has ended), gone (unregistered) |
| `closed`, `queue` | `Client.send`: closed or not, and what is buffered |
| `writer`, `frame`, `page` | the write pump, the messages it has taken, the messages it has written |
| `cast` | the local variables of a `BroadcastToUser`: user, slice header, next slot |
| `up` | the process has not died of a panic |
| `told` | history: whom a broadcast set out to reach, whom it has offered its message |

A Go slice is a view of an array. `BroadcastToUser` copies the header under the
read lock and walks the array after giving the lock up, while `Run` changes the
array in place: `append` uses the room behind the last element, or moves to an
array of twice the capacity, and the `append` that removes a client shifts the
later ones down. That is why the arrays, and not just the lists of clients, are
state: with lists a broadcast would always see what it read. The growth by
doubling is what the Go runtime does for slices of this size; a slice of at most
256 pointers never meets the runtime's slower growth.

`Run`'s critical sections are steps of their own because it is one goroutine
under the write lock. A send is one step per client, since `Run` gets between
two of them. Sending to a full buffer drops the message. Sending to a closed
channel is `Panic`: echo's `Recover` ends an HTTP request that panics
(`Recovered`), but nothing recovers in a read pump or in a `go func()`, and the
process dies. A write pump takes a message (`Take`) and writes it together with
what is queued by then (`Write`). `After` says which call the same goroutine
makes before a call, as a read pump does that accepts a ride and then starts it.

### Payments

| variable | in the code |
|---|---|
| `payment` | the rows of `payments`: ride, user, method, status, and `proof` for the gateway's payment id and signature |
| `paid` | `rides.payment_id`; `payment_status` is `completed` iff there is one, since one statement writes both |
| `req` | per request, the statement it runs next and what its UPDATE of the payment is going to write |
| `captured`, `confirmed` | history: the payments some UPDATE has captured, and those whose rider was told that they went through |

A request is its SELECT with the decision taken on it (`VerifyPayment`,
`ProcessCashPayment`, `ProcessUPIPayment`), the UPDATE of the payment (`Update`)
and the UPDATE of the ride (`Settle`), each a transaction of its own.
`repository.Update` writes status, payment id and signature together, so a
request writes back what it has read in the columns it does not mean to change;
that is why a request carries `proof`. `Calls` says which requests clients
make, `SecretSet` whether signatures are checked at all. A signature is a member
of `{"valid", "invalid"}`; two verifications with a valid one write the same.
`CreatePaymentOrder` is one step: its SELECT reads an owner that never changes.
A ride's row lock, which `AcceptRide` holds for three statements, only delays
`Settle` and is left out.

The module starts where the handlers hand over to the service. As the program
is built none of them gets that far: `handler/payment.go:45`, `:78`, `:112` and
`:148` call echo's `c.Validate`, and nothing registers a validator
(`router/router.go:20`), so that each of the four requests ends in an error
before its first statement. The model allows more than the program does; what it
shows is what holds as soon as a validator is set. The pages ignore the error
(`UserHome.jsx:226`, `:249-253`, `DriverDashboard.jsx:226-230`), so their own
steps are the same either way.

### UserHome and DriverDashboard

| `UserHome` | `DriverDashboard` | in the code |
|---|---|---|
| `ride` | `ride` | the committed rows of `rides`, moved by `RideLedger`'s actions |
| `step` | `driverStep` | the panel that is shown |
| `activeRide` | `currentRide` | the copy of a row the panel is about |
| `pickup`, `dropoff`, `vehicle`, `timer` | `rides`, `showOTP`, `submitting` | the rest of what the panels depend on |
| `loading` | `loading`, `processing` | the flags that disable buttons |
| `calls` | `calls` | slot -> a request in flight, its state and the row it has read or written |
| `mishaps` | `mishaps` | how many of the bounded mishaps have happened |

A request is sent (`HandleRequestRide`, `Poll`, ...), served by the backend at
one moment (`Serve`), and its answer applied at another (`Apply`); in between
everything else may happen, also to other requests. That is how answers
overtake each other. The continuation after an `await` is a request of its own:
`approach`, `order` and `cash` are what the code awaits before it goes on. The
guard of a user's action is that its panel is shown and its button enabled. A
request of a page that has been reloaded is an *orphan*: it is served, and its
answer goes nowhere. On the table a served request is one step of the ledger:
that `RideService` keeps to the ledger is what `ImplementsLedger` shows.

Two details of the code shape the models. The poll of `DriverDashboard` belongs
to an effect with an empty dependency list, so that its comparisons see the
`driverStep` of the first render (line 87): every answer sets the panel again.
The poll of `UserHome` compares with the `routeCoordinates` of its first render,
so that a found ride always replaces the places of the form.

`RideView` is the abstract specification of both: a table that moves as the
ledger says, and beside it a copy of a row that may be replaced by any row the
ride has had. Its theorem `ScreenIsNeverAhead` is what that is worth: never a
stage the ride has not reached, never a driver or an OTP other than its own.

A *mishap* is what the pages make no promise about: a lost request or answer, a
reload, the 300 ms timer of `UserHome` firing when a ride is already on the
screen, and on the driver's page the profile form, whose Save button shares the
flag that disables the Accept buttons. All of them are actions and bounded; a
property that holds only without them says so (`mishaps = 0`). The rider who reloads
while a booking is in flight, for instance, can book a second ride.

`CompletedReported` is a switch for the fourth finding: whether GET
/rides/active may answer with a completed ride, as the page expects, or not, as
the query does it. `RiderScreen` sets it, so that the panel behind it is
exercised; the theorems hold for both values.

### Session, WebSocketContext and Client

| variable | in the code |
|---|---|
| `token`, `cookie` | `localStorage.token`; the cookie that login sets beside it and nobody deletes |
| `owner`, `expired` | the accounts of the tokens that were issued, and which are older than 24 hours |
| `page`, `mounted` | the path; whether the React tree exists |
| `nav` | the 100 ms timers of `UserLogin` that are running |
| `calls` | slot -> a request in flight and the credential it was sent with |
| `conns`, `socketRef` | the sockets that are not closed, with their credential; the provider's reference |
| `isConnected`, `timers` | what the pages are told; reconnect timers that are running |

Everything that happens in a browser is of one of three kinds, and `Client`
composes the two modules accordingly: it happens within a document (`Stays`, the
socket is left alone), it loads a document (`Loads`, all that ran is gone and the
provider starts anew), or it crashes the tree: `/user/signup` throws in its
render, because `UserSignup.jsx` uses `useContext` without importing it, and
React unmounts everything, which runs the provider's cleanup (`Crash`). A
request carries the header if there is a token and else the cookie; a socket's
handshake carries the cookie only.

A login or a signup is answered in two steps. The headers of the answer set the
cookie (`LoginServed`), and the page stores the token when the `await` of the
body resolves (`TokenStored`, `UserLogin.jsx:18-23`). In the milliseconds between
them a timer, another answer, a second login or a page load may come, and the last
one loses the token while the cookie stays.

A mishap of the browser is a page load that cuts a request or a timer off, a
browser restart, a token that expires, a failed request, or a connection that
breaks or that the server ends. A page load while nothing is under way is none.

`PrivatePages` are the two that show nothing without an account. The home page is
not one of them, although its search for drivers nearby is refused without one.

### Places, LocationSearchInput and RouteService

| variable | in the code |
|---|---|
| `pickup`, `dropoff`, `dropoffAddress`, `isMapSelecting`, `timer` | the place fields of `UserHome.jsx` and its 300 ms timer |
| `routes` | the route requests in flight, oldest first |
| `routeCoordinates`, `routeWaypoints`, `distanceOf` | the line, the markers, and the places whose distance the price is computed from |
| `positionFor` | who waits for the browser's position: the page, once it is mounted, and the pickup's box (the dropoff's has `locating`) |
| `debounce`, `searches`, `suggestions`, `isOpen`, `locating` | the search box: its timer, its searches in flight, the text its list was found for, whether the list is open, whether the position is asked for |

Every change of a place starts a route request, in the same step, since the
effect follows the change. An answer shows a line, sets the markers and the
distance in one step. `RouteService` has the decoder as the code computes it, one
state per character read, with `>>`, `&`, `<<` and `~` on integers written as
`\div`, `%`, `*` and `-n - 1`, next to the encoding of the service (external),
so that every road goes through both. Coordinates are those of the earth, in the
1e-5 degrees of the encoding. The browser answers a request for the position when
it likes, in any panel, and what was chosen, dragged or restored meanwhile is
replaced.

Here a mishap is an answer that overtakes another, no route, a text that is too
short while an earlier search is under way (it empties the list at once, and
that search's answer fills it again), and what comes between the two within the
300 ms after a choice: typing on, a ride, a reset. No choice is a mishap, whether a
list, a timer or a search is there or not; neither is a position, whenever it
comes, nor moving the map. A choice stops neither timer nor search, and Current
Location does not even empty the list (`LocationSearchInput.jsx:70-82`), so a
list that was found for an earlier text does open under a chosen address. That is
how the code is, and no property calls it right.

## 3. Runs

| run | question | instance | expected |
|---|---|---|---|
| `RideSafety` | do concurrent requests on a ride implement the ledger, whatever fails? | 1 rider, 2 drivers, 1 ride, 2 codes, 3 HTTP handlers, all faults | pass |
| `RideLiveness` | is every request answered and every stage announced? | 1 rider, 1 driver, 2 rides, one read pump each, no faults | pass |
| `RideDoubleBooking` | can a driver hold two active rides? | 2 rides, 2 HTTP handlers | violated |
| `RideFreshIds` | can the assigned driver start the ride? | drivers rows with ids of their own | violated |
| `HubDelivery` | whom does a broadcast reach, in which order, and does everything end? | 3 connections of a user, one may break, 2 serial broadcasts, buffer of 1 | pass |
| `HubPanic` | can a send meet a closed channel? | 1 connection, 1 broadcast | violated |
| `PaymentSafety` | what do the two tables, and what riders are told, say of each other? | 2 riders with a ride each, 2 payments, 2 requests, all faults | pass |
| `RiderScreen` | does the rider's page follow the rides table? | 2 rides, 2 requests in flight, 1 mishap | pass |
| `RiderCompletion` | is the rider of a completed ride asked to rate and pay? | 1 ride, 2 requests in flight, no mishap | violated |
| `DriverScreen` | does the driver's page follow the rides table? | 2 rides, another driver, 2 requests in flight, 1 mishap | pass |
| `ClientSession` | who is logged in, what does a 401 do, is there one socket? | 2 tokens, 2 requests in flight, 1 mishap, room for 2 sockets | pass |
| `RoutePreview` | is what is previewed what will be booked? | 2 places, 3 texts, 2 route requests and 1 search in flight, 1 mishap | pass |

What the properties of the ride service say:

- `TypeOK`: the type invariant; an accept works with a drivers row of a user its
  handler serves.
- `CheckedStatusHolds`: from the `SELECT ... FOR UPDATE` to the end of the
  transaction the ride is still `requested` and locked by this handler.
- `ToldAfterCommit`: what a user has been told is committed and cannot be undone.
- `CancelledIsFinal`, `AssignmentStable`: no request in flight changes a
  cancelled ride; the driver and OTP of a ride are assigned once.
- `ImplementsLedger`: `RideService` implements `RideLedger`.
- `DriverExclusive`: a driver has at most one active ride. It holds with read
  pumps only (`RideLiveness`) and fails with concurrent HTTP requests
  (`RideDoubleBooking`).
- `WaitingRideIndexed`: a ride that waits is in the index or about to be added.
- `RequestsReturn`, `RiderIsTold`: liveness; no handler waits for a lock for
  ever, and the rider of a completed ride hears of all three stages.

And those of the hub:

- `TypeOK`: among the types, a broadcast never leaves the array it walks, and no
  buffer overflows.
- `MapsAgree`: the slices hold exactly the registered clients, each once, and
  the closed channels are those of unregistered clients: no channel is closed
  twice.
- `CalmBroadcastIsExact`: registrations do not disturb a broadcast; as long as
  none of the user's clients unregisters, it offers its message to the clients
  that were registered when it was called, each once. With an unregistration it
  may skip one, serve one twice or panic, and nothing is claimed.
- `SerialOrder`: two broadcasts of one goroutine come out of a connection in
  their order, even when arrays shift under them.
- `ConnectionEnds`, `BufferedIsWritten`: liveness; a broken connection is
  unregistered and its pumps end, and what got into the buffer of a lasting
  connection is written.

And those of the payments:

- `TypeOK`: the types, and that a payment is made by the rider of its ride.
- `PaidWasCaptured`: a paid ride names a payment of its own that was captured,
  at whatever statement a request failed or the process died.
- `CapturedIsProven`: rewriting columns with values read earlier never leaves an
  online payment captured without the signature that was checked. It holds
  because the one request that captures with an old value is only allowed for
  cash.
- `ConfirmedIsPaid`: a rider who was told of success has a ride paid by a
  captured payment.

Of the rider's page and the driver's page:

- `TypeOK`: the types; a request that names a ride names one of the table, and
  an answer that brings a row brings one.
- `ScreenMatchesRide` (rider): a panel about a ride is shown only with a ride in
  the stage it is about. `PanelHasRide` (driver): the page is idle exactly when
  it is about no ride, otherwise the ride is this driver's, and the panels up to
  the pickup go with a copy of a ride that has not begun. It does not say that a
  page which has seen the start stays past the pickup: every poll sets copy and
  panel, and an older one sets both back (`DriverDashboard.jsx:85-89`). That this
  does not stay so is `ScreenCatchesUp`. Both hold with every mishap.
- `OneRideAtATime`: without mishaps the rider never has two rides waiting.
- `KeptWhileOpen`: without mishaps a page forgets a ride only when it is over.
- `ImplementsView`: both pages implement `RideView`.
- `ScreenCatchesUp`: liveness; the newest open ride is shown as it is again and
  again, after any mishap and any order of answers. The table comes to rest in
  the end, so a ride that stays open is shown.

Of the browser:

- `TypeOK`: the cookie is the last token that was issued, or gone.
- `OneChain`: one socket or one reconnect timer, never both and never two.
- `OpensAsMe`: a socket is only opened while somebody is logged in, as that
  account or as one whose login has been answered since, although cookie and
  timer outlive a logout. The later account is possible because of the time
  between the headers of a login and the storing of its token.
- `ValidTokenKept`: a good token is lost only to a logout, to a failure, or to the
  401 of a request that went out with another credential.
- `SentToLogin`: liveness; of the pages that cannot work without a credential the
  driver's is left, and the rider's if there is a token and it is bad. Without a
  token the rider's page asks nothing (`UserHome.jsx:134`), so that who has lost
  it there, to a `loadUser` that failed, may stay.
- `Reconnects`: liveness; a closed socket comes back while token and cookie are good.

Of the places:

- `PreviewIsTrue`: with no route request open, the line, the price and the dropoff's
  address on the preview are those of the pickup and the dropoff that will be
  booked. The pickup's address is no part of it: typing in the pickup's box
  changes the text and not the place.
- `SuggestionsMatchText`: under a typed text, when no search is due or under way,
  the list is the one that was found for that text, or empty, whatever was
  chosen, located, restored or searched for before. Nothing is said of the list
  under a chosen address (section 2). That a typed text is told from a chosen one
  is the assumption `TypedAssumption`: nobody types the whole address of a place,
  as the search writes it.

Four statements of the repository's comments and docs do not hold; each is a
`violation` run and a finding in `PROJECT.json`:

1. "Ensure Driver not already in active ride" (`ride.go:249`): two accepts of
   one driver on two rides lock two different rows, both count zero, both commit.
2. "unauthorized - ride not assigned to this driver" (`ride.go:324`): accepting
   stores `drivers.id`, starting compares with `users.id`, so the assigned
   driver is refused.
3. "Proper mutex usage" (`README.md:213`): `BroadcastToUser` gives the lock up
   before it sends (`hub.go:121`), so `Run` closes channels under it.
4. "Cash payment processing on ride completion" (`PAYMENT_INTEGRATION.md:117`):
   the page waits for a completed ride from a query that returns none
   (`repository/ride.go:219`), so the panel that rates and pays never comes.

Other disagreements are listed as hazards, without a run: a cancellation decides
on a row that it has read in an earlier statement, so a ride that is completed
in between ends as cancelled and a driver assigned in between is not told
(`ride.go:499`, `ride.go:515`); a refused verification makes a captured payment
failed and a UPI initiation makes it pending (`payment.go:131`; the theorem
`FinalWithoutRewrites` is its counterpart); what `router.go:96` calls "Public
location search" is behind `RequireAuth`, so that the home page's own search
(`Home.jsx:21-42`) gets a 401 and the interceptor (`api.js:29-43`) takes every
visitor without an account to the login page. The model of the session has that
redirect, and no property calls it wanted.

The models also show behaviour that nothing in the repository claims otherwise:
a driver's page keeps a ride that is over elsewhere, because no active ride is
an error that the poll ignores; after a login there is no socket before the next
page load; the markers of a road with three to six points all lie on its first
point (`routeService.js:115`), which `PreviewIsTrue` excepts; the distance of the
last ride outlives `resetFlow` and prices the next preview until its route
arrives, and the Book button does not wait for it.

**Data of the instances.** Because of the second finding no ride gets past
`accepted` when the rows of `drivers` were made by `CreateProfile`. The other
runs therefore use `SharedIds`, rows whose id is the user's id, the only data on
which starting and completing do anything, so that all of the code is
exercised. The theorems hold for every `Account`, the one of `CreateProfile`
included.

**Bounds.** One ride, with two drivers, a rider and three handlers, is enough
for every conflict on a row: at most one handler holds the lock, one waits, and
a third interferes. Two OTPs distinguish an overwritten assignment. Two rides are needed
for the conflicts between rows (`DriverExclusive`) and for a ZREM that hits the
wrong ride. Nothing is counted, except goroutines of a ride, and those are
bounded by the handlers that can reach the reply. `RideSafety` uses symmetry
over handlers and over codes, and states no liveness; `RideLiveness` uses none.

In the hub, three connections of one user give an array that grows twice (to one,
two and four slots, so one append finds room and two do not) and a removal that
shifts two clients; different users share nothing but the process. A buffer of
one, instead of 256, is full after one message, and two messages are what
order and coalescing need. Connections and messages run out, and a panic ends
the process, so the system may stop: deadlock is not checked in these runs.

Of the payments, two requests are needed for one to write over what the other has
written, and two payments for a ride that is paid twice; two riders, with a ride
each, tell a foreign payment from one's own. Symmetry is over payments and over
handlers. No liveness is stated: no request ever waits for another, and after a
failed statement nothing but the rider's own retry settles a ride.

Of the pages, two requests in flight are what overtaking needs, one of them
being, in most counterexamples to weaker statements, a poll. Two rides are
needed for an answer about a ride that is over to meet the next one. One driver
account is enough for the rider, two drivers for a ride that somebody else takes.
The two models have also been run once with three rides, with three slots and
with two mishaps.

In the browser, two tokens are a login after a logout, or of the other role; two
requests are an old one and the one of the page; room for two sockets is room for
a chain that should not be there. The run has also been made once with two
mishaps, and its safety properties with three tokens, for a login between two
others.

Of the places, two have four ways between them; the roads of the instance have
eight, four and two points, with differences of either sign that take up to four
characters. With one search in flight the next one waits for its answer; the run
has also been made once with two searches and one route request, where searches
run beside each other, and the theorem `ListOfTheText` is for any number of
both. Nobody need do anything, ids and tokens run out and a crashed document
stands still, so deadlock is not checked in these runs.

**Fairness.** `SF` on each handler's next statement: a handler that waits for a
row lock is enabled only while the lock is free, and PostgreSQL serves the
waiters of a row lock from a queue, so one that keeps becoming enabled is
served. Calls are not fair, users need not do anything. `WF` on the goroutines:
the Go scheduler runs them. The liveness run has no faults: with them a lost
answer excuses a missing notification. In the hub, `WF` on unregistration (`Run`
never waits for anything inside a case, so it receives what is sent to it) and on
the write pump (every write has a deadline of ten seconds). Connections,
broadcasts and failures are not fair.

In the pages, `SF` on the poll, because its interval never stops while the page
is mounted, whatever takes the slots of the model in between; `WF` on the
service of each request and on its continuation, because the browser runs the
continuation of every settled promise. In the browser, the same for the
intervals of a page and for answers, and `WF` on timers, on the answer to a
handshake and on the report of a close. `FetchActive`, the rider's poll, is fair
while there is a token, since it asks with a token only; `FetchNearby`, the other
requests of that page, depend on its panel and are not fair. No user's action is
fair, and no mishap.

## 4. Proofs

`RideServiceProofs` assumes only the named assumptions of `RideService`.

- `TypeCorrect`: by induction over the steps.
- `LockHolds`: `CheckedStatusHolds` is inductive together with the types.
  `LockOwner` alone would not give `LockedIsRequested`: the point is that each
  of the four statements that write a row has `lock[r] = NULL` or owns the lock.
- `LedgerRefinement`: `RideWriters` names the statements that write the table,
  `LedgerStep` maps each of them to a ledger step. The assignment needs
  `CheckedStatusHolds` (its UPDATE has no condition on the status), the
  cancellation needs `CancelFoundRow`, the others their own WHERE.
- `CancellationIsFinal` follows from the ledger; `AssignmentIsStable` from the
  ledger and the invariant `WaitingUnassigned` (a ride that waits has neither
  driver nor OTP).
- `ExclusiveByIndex`: with the indexes, `DriverExclusive` always holds.
  `ExclusiveBySerialAccepts`: without them it holds if no two handlers serve the
  same driver; the inductive invariant adds `CountHolds`, that the COUNT of an
  accept is still right at its UPDATE. The two together say what the finding
  needs: concurrent accepts of one driver, and no index.
- `NothingToldTooEarly`: with `ReplyIsTrue`, that every handler about to reply
  has a true thing to tell.
- `WaitingStaysIndexed`: without faults, with `RemovalJustified`, that a ZREM is
  only ever started for a ride that no longer waits.
- `SharedIdsMayStart` and `FreshIdsNeverStart`: the finding of `RideFreshIds`
  from both sides. Where every drivers row has the id of its account, the driver
  of an accepted ride is never turned away; where no user id is a drivers id, no
  ride ever gets past `accepted`. The first needs `OccupiedHasDriver` (an active
  ride has a driver), the second that the id of a start or a completion is the
  caller's users id.
- What `RequestsReturn` and `RiderIsTold` rest on. `NoCircularWait`: a handler
  that waits for a row lock holds none. `EveryStatementAdvances`: every step of
  a request has a higher rank, so that a request is at most a handful of
  statements. `EveryStageTold`: while no statement fails and the process runs
  on, a driver, a start and a completion in the table have been told to the
  rider or have a handler about to tell them. Fairness and the step from there
  to "eventually" are TLC's.

`HubProofs` assumes only the named assumptions of `Hub`.

- `HubInvariant`: the inductive invariant `HInv`. To `TypeOK` and `MapsAgree` it
  adds `Calls`, that every slot a broadcast still has to visit is in its array
  and holds a client, and `Calms`, that the array of a calm broadcast still
  holds the clients it was called for, and that its slice is no longer than the
  user's if it is in the user's newest array: that is why an `append` in place
  writes behind it. `AppendedSlots` and `RemovedSlots` say what the two appends do.
- `TypeCorrect`, `MapsAlwaysAgree`, `CalmBroadcasts` follow from it. A calm
  broadcast never meets a closed channel because its clients are registered.
- `SerialBroadcasts`: with `InTurn` (a call is made when the one before it has
  returned) and `Streamed` (what a connection has been given comes from calls
  that were made). A step of a connection keeps a part of its stream
  (`StreamStep`), and a message is only added while its call has not returned, so
  none that must follow it can be there before it.

- What `BufferedIsWritten` and `ConnectionEnds` rest on. `BufferedIsKept`: the
  stream of a connection that lasts (written, in the frame, in the buffer) only
  grows, by one message at its end. `ClosedPumpsEnd`: a closed channel stays
  closed, and every step of its pump lowers `Left`, twice the messages buffered
  and those of the open frame, and one for the end.

TLC has checked `HInv` and its extension `OInv` on the instance of `HubDelivery`.

`PaymentsProofs` assumes only the named assumptions of `Payments`.

- `PaymentInvariant`: the inductive invariant `PInv` adds to the four properties
  that a request works on a row that exists, settles only what it has captured,
  and captures an online payment only with a proof in hand (`RequestsSound`).
  The last is what makes the rewriting of columns harmless: the value a request
  carries was right when it was read, and the row's method never changes.
- `TypeCorrect`, `PaidMeansCaptured`, `CapturedMeansProven` and
  `ConfirmedMeansPaid` follow.
- `FinalWithoutRewrites`: the counterpart of the hazard at `payment.go:131`. If clients
  neither initiate UPI payments nor send refused signatures, the status captured
  is final, so those two are the only ways to lose it.
- `CapturedPaysUnlessFailed`: without failures a captured payment has paid its
  ride or a request is about to make it (`CapturedIsSettled`). Money taken for
  a ride that stays unpaid is thus always the trace of a failure between the
  two UPDATEs; nothing in the code repairs it but another request for the
  same payment.

The proofs about the pages use the lemmas of `RideView`: `TableKept` (the ledger
keeps its rows sound: a ride has a driver exactly from its assignment on),
`FreshCopyLags` and `LagsKept` (no operation leaves a copy ahead of the table).

- `UserHomeProofs`. `Inv`: the table is sound, panel and copy fit, and every
  copy, on the screen or in an answer, lags and has a status with a panel: that
  makes an answer of any age safe to apply. `ScreenMatchesRide` and
  `ImplementsView` follow. `QInv`, for the undisturbed page, says where a second
  ride could come from: one booking at a time, none while a ride waits
  (`BookingsApart`), because a ride that waits is on the screen or its booking is
  about to be answered (`WaitingShown`), and a cancellation that went through
  ended the only one (`CancelsApart`). `NeverTwoBookings` and `OpenRideKept`
  follow from it.
- `DriverDashboardProofs`. `Inv` likewise, every copy being of a ride of this
  driver, with `PayingOK`: one completion at a time, with a ride on the screen.
  `CalmInv` adds that the driver has one active ride at most and, without a
  mishap, that one accept is sent at a time and none while a ride is under way
  (`AcceptsApart`), that the driver's ride is on the screen or its accept about
  to be answered (`MineShown`), and that a completion which went through was of
  the only ride (`CompletedApart`).
- `PollsShowTheRide`, in both: while the table rests and nothing fails, a poll
  under way stays under way until its answer brings the screen up to date; no
  other answer and no tap cancels or spoils it. `ScreenCatchesUp` rests on it.
- `CompletionNeverShown`: the finding of `RiderCompletion`, for every instance.
  With `CompletedReported = FALSE` no answer is about a completed ride
  (`NoneFinished`), so the panel that rates and pays is never shown, and no
  rating and no cash payment ever leaves the rider's page.
- `ClientProofs`. `Inv` is `SessionOK` (tokens are issued in order, the cookie is
  the last of them or gone, what an answer brings was issued) and `SocketOK`, whose
  `Chain` says that a live socket is the one `socketRef` points at and that no
  timer runs beside it. The closing of a socket by `connect` or the cleanup is
  then always that of the one there is.
- What `Reconnects` and `SentToLogin` rest on. `SocketChain`: in a page with a
  token the chain of socket and timer does not break, and one that has ended is
  only begun again by a page load. `BadRequestEndsOnLogin`: a page without a
  good credential asks with a bad one, no later login makes that request good,
  and short of a mishap it is answered by a move to a login page.
- `PlacesProofs`. `Inv`: a box that is off the page has nothing started; without
  a mishap, under a typed text, the timer, the last search or the list is of that
  text, whichever of them is the latest, since answers then come in order and the
  last one is that of the last search (`TextsAgree`); the last route request is
  for the places of the form, or their route is drawn; the panel only changes to
  the preview with both places chosen.
  `RoadsDecoded` says that the decoder gives back every road the service may
  write, whatever its length. The library's induction theorems are out of reach,
  but those over well-founded relations are not: a set of numbers without a
  least missing one is `Nat` (`StrongInduction`, `Induction`), and a function
  that is defined over its predecessor exists (`Recursion`). From these come
  what the recursive functions compute (`ChunksDef`, `DecoderDef`, `EncodeDef`),
  that a number is read from its characters wherever they stand (`NumberRead`,
  by induction on the number), that it adds itself to its sum (`SignedZigZag`,
  `PointAdds`), and the round trip by induction on the points (`RoundTrip`).
  The script's integers have 32 bits: on the way no number exceeds that of the
  longest step on earth, and 27 bits hold it (`RoadBounded`).

TLC has checked each of these invariants on the instance of its run. The eight
proof modules assume only the named assumptions of their models: bounds are
natural numbers, `NULL`, `None` and `NoConn` are none of the values they stand
beside, the two drivers are two, the search and the roads have the right types,
and a road lies on the earth.

All invariants, action properties and refinements of the passing runs are thus
proved for every value of the constants.
Liveness is model-checked only, being out of the prover's reach: `RequestsReturn`, `RiderIsTold`, `ConnectionEnds`,
`BufferedIsWritten`, `ScreenCatchesUp`, `SentToLogin` and `Reconnects`. The
theorems named above as what they rest on are their safety halves, for every
value of the constants: that what is due is not lost, and that each step
towards it is one of finitely many. They use no fairness. TLC agreed with each
of them on the instance of the component's run before it was proved.

## 5. Not modelled

Row contents other than status, rider, driver and OTP; times; the wording of
answers; the HTTP layer, configuration, logging and error mapping; the map
proxy. In the ride service: `driver_arrived` is never written by the code and
appears only in conditions; `AssignDriver` is never called. In the hub: the case
of `Run` that serves the `Broadcast` channel, since nothing sends on it; pings;
and the boundaries of frames, which matter to a client that parses a frame as one
JSON value. In the payments: amounts,
lookups, and the order id, which is stored and never read (it is `order_` for
every online order, since it is formatted before the payment has an id, `payment.go:98`). In the rider app:
the profile and nearby-driver requests, which only decorate, the way to the
pickup that is drawn while a driver comes, and the text in the pickup's own
search box: its choice is modelled, and that the text may name another place
than the GPS coordinates that are booked is left out. In the driver app: the
position watcher, the availability switch, the profile's fields and the routes.
In the browser: the listeners of the socket's messages and `sendMessage`, which
keep no state; the form of `UserSignup`, which is never shown because the page
throws. Of the routes: `haversineDistance`, which is floating-point arithmetic, and the map
(`FuturisticMap`), which draws what it is given. `Map`, `PaymentSelector` and
`RideCard` are imported by no page.

## 6. Plan

In this order, each with its module, its instance, its run and its theorems:

1. **Hub and rides**: a composition of the two modules in which the hub's
   broadcasts are those of the ride service: the order in which a rider receives
   the events of a ride whose stages run in different goroutines.
2. **Presence and dispatch**: online key with expiry, positions, announcement of
   a new ride, search over `rides:requested` with its limit of 20 and its
   fallback. The stale entry that a GEOADD after a ZREM leaves behind.
3. **Accounts**: one-time passwords with expiry and the retrying e-mail queue;
   CreateProfile, whose possible results are today's constant `Account`.
4. **Ratings**: the race of the averages.

Theorems worth having: type correctness of each; for one-time passwords, that a password is accepted only if it was sent.

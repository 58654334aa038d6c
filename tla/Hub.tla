---------------------------------- MODULE Hub ----------------------------------
(***************************************************************************)
(* The realtime hub: Hub.Run, Hub.BroadcastToUser, and the two pumps of    *)
(* every WebSocket connection (realtime/hub.go, client.go, handler.go).    *)
(*                                                                         *)
(* UserClients maps a user to a Go slice.  A slice is a view of a backing  *)
(* array, and Run changes the array in place: append writes behind the     *)
(* last element while there is room, and the append that removes a client  *)
(* moves the later ones down.  BroadcastToUser reads the slice header      *)
(* under the lock and the array without it, so arrays are modelled as what *)
(* they are.  Run's critical sections exclude each other and the reading   *)
(* of a header, and are one step each.                                     *)
(*                                                                         *)
(* Nothing ever sends on the hub's own Broadcast channel: that case of Run *)
(* never happens.  The read pump is here as far as it ends a connection;   *)
(* the requests that it runs are in RideService.                           *)
(***************************************************************************)
EXTENDS Naturals, Sequences

CONSTANTS
    Users,
    Conns,      \* the connections that are ever made, one Client each
    UserOf,     \* Client.userID
    Leaving,    \* the connections that may end
    Messages,   \* calls of BroadcastToUser
    After,      \* the call that the same goroutine makes before, or NULL
    Recovered,  \* those of HTTP handlers, which make one call: a panic ends the request only
    Buffer,     \* the capacity of Client.send, 256 in the code
    NULL

ASSUME UserOfAssumption == UserOf \in [Conns -> Users]
ASSUME LeavingAssumption == Leaving \subseteq Conns
ASSUME MessagesAssumption ==
    /\ After \in [Messages -> Messages \cup {NULL}]
    /\ Recovered \subseteq Messages
    /\ \A m \in Messages : After[m] \notin Recovered
ASSUME BufferAssumption == Buffer \in Nat \ {0}
ASSUME NullAssumption == NULL \notin Users \cup Conns \cup Messages

VARIABLES
    up,         \* the process has not died of a panic
    clients,    \* Hub.Clients
    arrays,     \* the backing arrays that each user's slice has had, newest last
    size,       \* the length of each user's slice
    conn,       \* each connection, as its read pump sees it
    closed,     \* the send channels that are closed
    queue,      \* what is buffered in each send channel
    writer,     \* each write pump: "off", "on", "done"
    frame,      \* the messages a write pump has taken and not yet written
    page,       \* the messages written to each connection, frame boundaries left out
    cast,       \* how far each BroadcastToUser has come
    told        \* history: whom each BroadcastToUser has offered its message

hub == <<clients, arrays, size>>
pumps == <<conn, closed, queue, writer, frame, page>>
vars == <<up, hub, pumps, cast, told>>

-----------------------------------------------------------------------------
(* Slices *)

Newest(u) == IF arrays[u] = <<>> THEN <<>> ELSE arrays[u][Len(arrays[u])]

UserClients(u) == [i \in 1 .. size[u] |-> Newest(u)[i]]

\* Mutant: a new client goes in front of the others, which move up in place.
AppendedInFront(u, c) ==
    LET a == Newest(u)
        n == size[u] IN
    IF n < Len(a)
    THEN [arrays[u] EXCEPT ![Len(arrays[u])] =
            [i \in 1 .. Len(a) |-> IF i = 1 THEN c ELSE IF i <= n + 1 THEN a[i - 1] ELSE a[i]]]
    ELSE Append(arrays[u],
                [i \in 1 .. (IF n = 0 THEN 1 ELSE 2 * n) |->
                    IF i = 1 THEN c ELSE IF i <= n + 1 THEN a[i - 1] ELSE NULL])

\* append(s, c): in place while there is room, else in a new array of twice
\* the capacity.
Appended(u, c) ==
    LET a == Newest(u)
        n == size[u] IN
    IF n < Len(a)
    THEN [arrays[u] EXCEPT ![Len(arrays[u])] = [a EXCEPT ![n + 1] = c]]
    ELSE Append(arrays[u],
                [i \in 1 .. (IF n = 0 THEN 1 ELSE 2 * n) |->
                    IF i <= n THEN a[i] ELSE IF i = n + 1 THEN c ELSE NULL])

\* append(s[:i], s[i+1:]...): the clients behind c move down one slot, and the
\* last one also stays where it was.
Removed(u, c) ==
    LET a == Newest(u)
        i == CHOOSE k \in 1 .. size[u] : a[k] = c IN
    [arrays[u] EXCEPT ![Len(arrays[u])] =
        [k \in 1 .. Len(a) |-> IF i <= k /\ k < size[u] THEN a[k + 1] ELSE a[k]]]

-----------------------------------------------------------------------------
(* Hub.Run *)

\* Handler sends the new client on Register and starts the two pumps.
Register(c) ==
    LET u == UserOf[c] IN
    /\ up
    /\ conn[c] = "new"
    /\ clients' = clients \cup {c}
    /\ arrays' = [arrays EXCEPT ![u] = Appended(u, c)]
    /\ size' = [size EXCEPT ![u] = @ + 1]
    /\ conn' = [conn EXCEPT ![c] = "open"]
    /\ writer' = [writer EXCEPT ![c] = "on"]
    /\ UNCHANGED <<up, closed, queue, frame, page, cast, told>>

\* Mutant: the result of the append is thrown away.
UnregisterKeepsLength(c) ==
    LET u == UserOf[c] IN
    /\ up
    /\ conn[c] = "broken"
    /\ clients' = clients \ {c}
    /\ closed' = IF c \in clients THEN closed \cup {c} ELSE closed
    /\ arrays' = [arrays EXCEPT ![u] = Removed(u, c)]
    /\ conn' = [conn EXCEPT ![c] = "gone"]
    /\ told' = [m \in Messages |->
                  IF cast[m].user = u THEN [told[m] EXCEPT !.calm = FALSE] ELSE told[m]]
    /\ UNCHANGED <<up, size, queue, writer, frame, page, cast>>

\* Mutant: the send channel is not closed.
UnregisterLeavesOpen(c) ==
    LET u == UserOf[c] IN
    /\ up
    /\ conn[c] = "broken"
    /\ clients' = clients \ {c}
    /\ arrays' = [arrays EXCEPT ![u] = Removed(u, c)]
    /\ size' = [size EXCEPT ![u] = @ - 1]
    /\ conn' = [conn EXCEPT ![c] = "gone"]
    /\ told' = [m \in Messages |->
                  IF cast[m].user = u THEN [told[m] EXCEPT !.calm = FALSE] ELSE told[m]]
    /\ UNCHANGED <<up, closed, queue, writer, frame, page, cast>>

\* The read pump has left its loop and sends its client on Unregister.
Unregister(c) ==
    LET u == UserOf[c] IN
    /\ up
    /\ conn[c] = "broken"
    /\ clients' = clients \ {c}
    /\ closed' = IF c \in clients THEN closed \cup {c} ELSE closed
    /\ arrays' = [arrays EXCEPT ![u] = Removed(u, c)]
    /\ size' = [size EXCEPT ![u] = @ - 1]
    /\ conn' = [conn EXCEPT ![c] = "gone"]
    /\ told' = [m \in Messages |->
                  IF cast[m].user = u THEN [told[m] EXCEPT !.calm = FALSE] ELSE told[m]]
    /\ UNCHANGED <<up, queue, writer, frame, page, cast>>

-----------------------------------------------------------------------------
(* Hub.BroadcastToUser.  next is the slot it offers its message to next: 0   *)
(* before the call, beyond size when it has returned.                       *)

NotCalled == [user |-> NULL, array |-> 0, size |-> 0, next |-> 0]

\* The user's clients when the call was made, those offered the message so far,
\* and whether none of them has been unregistered since.
Untold == [before |-> <<>>, offered |-> <<>>, calm |-> FALSE]

Sending(m) == cast[m].next \in 1 .. cast[m].size

Returned(m) == cast[m].next > cast[m].size

Slot(m) == arrays[cast[m].user][cast[m].array][cast[m].next]

BroadcastToUser(m, u) ==
    /\ up
    /\ cast[m] = NotCalled
    /\ After[m] # NULL => Returned(After[m])
    /\ cast' = [cast EXCEPT ![m] = [user |-> u, array |-> Len(arrays[u]),
                                    size |-> size[u], next |-> 1]]
    /\ told' = [told EXCEPT ![m].before = UserClients(u), ![m].calm = TRUE]
    /\ UNCHANGED <<up, hub, pumps>>

\* Mutant: the message is queued although the buffer is full.
OfferUnbounded(m) ==
    LET c == Slot(m) IN
    /\ up
    /\ Sending(m)
    /\ c \notin closed
    /\ queue' = [queue EXCEPT ![c] = Append(@, m)]
    /\ cast' = [cast EXCEPT ![m].next = @ + 1]
    /\ told' = [told EXCEPT ![m].offered = Append(@, c)]
    /\ UNCHANGED <<up, hub, conn, closed, writer, frame, page>>

\* select { case client.send <- bytes: default: }
Offer(m) ==
    LET c == Slot(m) IN
    /\ up
    /\ Sending(m)
    /\ c \notin closed
    /\ queue' = IF Len(queue[c]) < Buffer
                THEN [queue EXCEPT ![c] = Append(@, m)] ELSE queue
    /\ cast' = [cast EXCEPT ![m].next = @ + 1]
    /\ told' = [told EXCEPT ![m].offered = Append(@, c)]
    /\ UNCHANGED <<up, hub, conn, closed, writer, frame, page>>

\* The send on a closed channel panics.  echo's Recover ends an HTTP request;
\* nothing recovers in a read pump or in a goroutine, and the process dies.
Panic(m) ==
    /\ up
    /\ Sending(m)
    /\ Slot(m) \in closed
    /\ up' = (m \in Recovered)
    /\ cast' = [cast EXCEPT ![m].next = cast[m].size + 1]
    /\ UNCHANGED <<hub, pumps, told>>

-----------------------------------------------------------------------------
(* The pumps *)

\* ReadMessage fails: the peer is gone or silent for too long.
ReadFails(c) ==
    /\ up
    /\ c \in Leaving
    /\ conn[c] = "open"
    /\ conn' = [conn EXCEPT ![c] = "broken"]
    /\ UNCHANGED <<up, hub, closed, queue, writer, frame, page, cast, told>>

\* message, ok := <-c.send
Take(c) ==
    /\ up
    /\ writer[c] = "on"
    /\ frame[c] = <<>>
    /\ queue[c] # <<>>
    /\ frame' = [frame EXCEPT ![c] = <<Head(queue[c])>>]
    /\ queue' = [queue EXCEPT ![c] = Tail(@)]
    /\ UNCHANGED <<up, hub, conn, closed, writer, page, cast, told>>

\* Mutant: the queued messages come before the one taken first.
WriteRestFirst(c) ==
    /\ up
    /\ writer[c] = "on"
    /\ frame[c] # <<>>
    /\ page' = IF conn[c] = "open"
               THEN [page EXCEPT ![c] = @ \o queue[c] \o frame[c]] ELSE page
    /\ frame' = [frame EXCEPT ![c] = <<>>]
    /\ queue' = [queue EXCEPT ![c] = <<>>]
    /\ UNCHANGED <<up, hub, conn, closed, writer, cast, told>>

\* Mutant: the queued messages are taken and not written.
WriteFirstOnly(c) ==
    /\ up
    /\ writer[c] = "on"
    /\ frame[c] # <<>>
    /\ page' = IF conn[c] = "open"
               THEN [page EXCEPT ![c] = @ \o frame[c]] ELSE page
    /\ frame' = [frame EXCEPT ![c] = <<>>]
    /\ queue' = [queue EXCEPT ![c] = <<>>]
    /\ UNCHANGED <<up, hub, conn, closed, writer, cast, told>>

\* What is queued by now goes into the same frame.  A connection that is
\* ending may still take the frame, but nobody reads it.
Write(c) ==
    /\ up
    /\ writer[c] = "on"
    /\ frame[c] # <<>>
    /\ page' = IF conn[c] = "open"
               THEN [page EXCEPT ![c] = @ \o frame[c] \o queue[c]] ELSE page
    /\ frame' = [frame EXCEPT ![c] = <<>>]
    /\ queue' = [queue EXCEPT ![c] = <<>>]
    /\ UNCHANGED <<up, hub, conn, closed, writer, cast, told>>

\* A write, or a ping, fails: the pump closes the connection and ends.
WriteFails(c) ==
    /\ up
    /\ writer[c] = "on"
    /\ conn[c] = "open" => c \in Leaving
    /\ conn' = IF conn[c] = "open" THEN [conn EXCEPT ![c] = "broken"] ELSE conn
    /\ frame' = [frame EXCEPT ![c] = <<>>]
    /\ writer' = [writer EXCEPT ![c] = "done"]
    /\ UNCHANGED <<up, hub, closed, queue, page, cast, told>>

\* The channel is closed and empty.
SeeClosed(c) ==
    /\ up
    /\ writer[c] = "on"
    /\ frame[c] = <<>>
    /\ queue[c] = <<>>
    /\ c \in closed
    /\ writer' = [writer EXCEPT ![c] = "done"]
    /\ UNCHANGED <<up, hub, conn, closed, queue, frame, page, cast, told>>

-----------------------------------------------------------------------------
Init ==
    /\ up = TRUE
    /\ clients = {}
    /\ arrays = [u \in Users |-> <<>>]
    /\ size = [u \in Users |-> 0]
    /\ conn = [c \in Conns |-> "new"]
    /\ closed = {}
    /\ queue = [c \in Conns |-> <<>>]
    /\ writer = [c \in Conns |-> "off"]
    /\ frame = [c \in Conns |-> <<>>]
    /\ page = [c \in Conns |-> <<>>]
    /\ cast = [m \in Messages |-> NotCalled]
    /\ told = [m \in Messages |-> Untold]

\* Run, the read pump and the write pump of a connection.
Connection(c) ==
    \/ Register(c)
    \/ ReadFails(c)
    \/ Unregister(c)
    \/ Take(c)
    \/ Write(c)
    \/ WriteFails(c)
    \/ SeeClosed(c)

\* The goroutine that makes the call.
Sender(m) ==
    \/ \E u \in Users : BroadcastToUser(m, u)
    \/ Offer(m)
    \/ Panic(m)

Next ==
    \/ \E c \in Conns : Connection(c)
    \/ \E m \in Messages : Sender(m)

Spec == Init /\ [][Next]_vars

\* Run receives what is sent to it, and a write pump goes on, in bounded time:
\* no critical section waits for anything, and every write has a deadline.
Fairness == \A c \in Conns :
    /\ WF_vars(Unregister(c))
    /\ WF_vars(Take(c) \/ Write(c) \/ SeeClosed(c))

FairSpec == Spec /\ Fairness

-----------------------------------------------------------------------------
(***************************************************************************)
(* Properties                                                              *)
(***************************************************************************)

Elements(s) == {s[i] : i \in DOMAIN s}

Call == [user  : Users \cup {NULL},
         array : Nat,
         size  : Nat,
         next  : Nat]

\* Type invariant: in particular a broadcast, however stale its slice header,
\* stays inside an array that the user's slice has or has had.
TypeOK ==
    /\ up \in BOOLEAN
    /\ clients \subseteq Conns
    /\ arrays \in [Users -> Seq(Seq(Conns \cup {NULL}))]
    /\ size \in [Users -> Nat] /\ \A u \in Users : size[u] <= Len(Newest(u))
    /\ conn \in [Conns -> {"new", "open", "broken", "gone"}]
    /\ closed \subseteq Conns
    /\ queue \in [Conns -> Seq(Messages)] /\ \A c \in Conns : Len(queue[c]) <= Buffer
    /\ writer \in [Conns -> {"off", "on", "done"}]
    /\ frame \in [Conns -> Seq(Messages)]
    /\ page \in [Conns -> Seq(Messages)]
    /\ cast \in [Messages -> Call] /\ \A m \in Messages : Sending(m) => Slot(m) \in Conns
    /\ told \in [Messages -> [before : Seq(Conns), offered : Seq(Conns), calm : BOOLEAN]]

\* Whatever the order of registrations and unregistrations, the two maps of the
\* hub and the send channels agree: a user's slice holds the user's registered
\* clients, each once, and the closed channels are those of the clients that
\* were unregistered, so that Run never closes a channel twice.
MapsAgree ==
    /\ clients = {c \in Conns : conn[c] \in {"open", "broken"}}
    /\ closed = {c \in Conns : conn[c] = "gone"}
    /\ \A u \in Users :
        /\ Elements(UserClients(u)) = {c \in clients : UserOf[c] = u}
        /\ \A i, j \in 1 .. size[u] : UserClients(u)[i] = UserClients(u)[j] => i = j

\* BroadcastToUser walks an array that Run changes.  Registrations do not harm
\* it: as long as no client of the user is unregistered, it offers its message
\* to exactly the clients that were registered when it was called, each once,
\* and never meets a closed channel.
CalmBroadcastIsExact ==
    \A m \in Messages : told[m].calm =>
        /\ told[m].offered = SubSeq(told[m].before, 1, cast[m].next - 1)
        /\ Sending(m) => Slot(m) \notin closed

\* What a connection has been given, the oldest first.
Stream(c) == page[c] \o frame[c] \o queue[c]

Ordered(s) == \A i, j \in 1 .. Len(s) : i < j => s[j] # After[s[i]]

\* Two broadcasts that one goroutine makes one after the other (a ride that a
\* driver's read pump accepts and then starts) come out of a connection in
\* that order, if they come out at all, whatever has been dropped, skipped or
\* sent twice in between.
SerialOrder == \A c \in Conns : Ordered(Stream(c))

\* No goroutine is left behind: when a connection breaks, in either pump, its
\* client is unregistered and both pumps end.
ConnectionEnds ==
    \A c \in Conns : conn[c] = "broken" ~> (conn[c] = "gone" /\ writer[c] = "done") \/ ~up

\* A message that got into the buffer of a connection that lasts is written,
\* in the frame of another one if need be.
BufferedIsWritten ==
    \A c \in Conns \ Leaving, m \in Messages :
        m \in Elements(frame[c] \o queue[c]) ~> m \in Elements(page[c]) \/ ~up

\* README, "Proper mutex usage": no broadcast sends on a channel that Run has
\* closed meanwhile.
NoSendOnClosed == \A m \in Messages : Sending(m) => Slot(m) \notin closed
=============================================================================

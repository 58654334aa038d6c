-------------------------- MODULE WebSocketContext --------------------------
(***************************************************************************)
(* The browser's WebSocket (src/frontend/src/context/WebSocketContext.jsx):*)
(* one provider, whose connect runs on mount and again three seconds after *)
(* every close, as long as there is a token.  The handshake carries the    *)
(* cookie, whatever the token is.                                          *)
(*                                                                         *)
(* A socket that is closed is to the code as no socket: closing it again   *)
(* or sending on it does nothing.  The token and the cookie are parameters *)
(* of the operators, they belong to Session.                               *)
(***************************************************************************)
EXTENDS Integers, FiniteSets

CONSTANTS
    Conns,      \* bound: sockets that are not closed yet
    NoConn      \* no socket

VARIABLES
    conns,          \* socket -> its readyState and credential, or NoConn
    socketRef,      \* the socket of the last connect, or NoConn
    isConnected,    \* what the provider tells the pages
    timers          \* reconnect timers that are running

socket == <<conns, socketRef, isConnected, timers>>

Conn(Creds) == [state : {"connecting", "open", "closing"}, cred : Creds]

\* There is room for the first socket, and NoConn is none.
ASSUME ConnAssumption == Conns # {} /\ NoConn \notin Conns

Live == {c \in Conns : conns[c] # NoConn}
Fresh == CHOOSE c \in Conns \ Live : TRUE

-----------------------------------------------------------------------------
\* conns after close() of the socket that socketRef points at.
RefClosed ==
    [c \in Conns |-> IF c = socketRef /\ conns[c] # NoConn
                     THEN [conns[c] EXCEPT !.state = "closing"] ELSE conns[c]]

\* Mutant: it connects whether there is a token or not.
ConnectAlways(hasToken, cookie) ==
    /\ Conns # Live
    /\ LET c == Fresh IN
        /\ conns' = [RefClosed EXCEPT ![c] = [state |-> "connecting", cred |-> cookie]]
        /\ socketRef' = c

Connect(hasToken, cookie) ==
    IF ~hasToken THEN UNCHANGED <<conns, socketRef>>
    ELSE /\ Conns # Live
         /\ LET c == Fresh IN
             /\ conns' = [RefClosed EXCEPT ![c] = [state |-> "connecting", cred |-> cookie]]
             /\ socketRef' = c

\* The provider of a new document; without a tree its effect does not run.
Start(hasToken, cookie, tree) ==
    /\ LET c == CHOOSE d \in Conns : TRUE
           connects == tree /\ hasToken IN
       /\ conns' = [d \in Conns |-> IF d = c /\ connects
                                    THEN [state |-> "connecting", cred |-> cookie] ELSE NoConn]
       /\ socketRef' = IF connects THEN c ELSE NoConn
    /\ isConnected' = FALSE
    /\ timers' = 0

\* The effect's cleanup closes the socket and clears the timer; onclose runs
\* after it, and sets another.
Cleanup ==
    /\ conns' = RefClosed
    /\ timers' = IF timers > 0 THEN timers - 1 ELSE 0
    /\ UNCHANGED <<socketRef, isConnected>>

OnOpen(c) ==
    /\ conns[c] # NoConn /\ conns[c].state = "connecting"
    /\ conns' = [conns EXCEPT ![c].state = "open"]
    /\ isConnected' = TRUE
    /\ UNCHANGED <<socketRef, timers>>

\* Mutant: an error sets a timer of its own.
OnErrorReconnects(c) ==
    /\ conns[c] # NoConn /\ conns[c].state # "closing"
    /\ conns' = [conns EXCEPT ![c].state = "closing"]
    /\ timers' = timers + 1
    /\ UNCHANGED <<socketRef, isConnected>>

\* A refused handshake or a broken connection.
OnError(c) ==
    /\ conns[c] # NoConn /\ conns[c].state # "closing"
    /\ conns' = [conns EXCEPT ![c].state = "closing"]
    /\ UNCHANGED <<socketRef, isConnected, timers>>

\* Mutant: a socket that is closed is not opened again.
OnCloseGivesUp(c) ==
    /\ conns[c] # NoConn
    /\ conns' = [conns EXCEPT ![c] = NoConn]
    /\ socketRef' = IF socketRef = c THEN NoConn ELSE socketRef
    /\ isConnected' = FALSE
    /\ UNCHANGED timers

OnClose(c) ==
    /\ conns[c] # NoConn
    /\ conns' = [conns EXCEPT ![c] = NoConn]
    /\ socketRef' = IF socketRef = c THEN NoConn ELSE socketRef
    /\ isConnected' = FALSE
    /\ timers' = timers + 1

TimerFires(hasToken, cookie) ==
    /\ timers > 0
    /\ timers' = timers - 1
    /\ Connect(hasToken, cookie)
    /\ UNCHANGED isConnected

-----------------------------------------------------------------------------
SocketInit ==
    /\ conns = [c \in Conns |-> NoConn]
    /\ socketRef = NoConn
    /\ isConnected = FALSE
    /\ timers = 0

SocketTypeOK(Creds) ==
    /\ conns \in [Conns -> Conn(Creds) \cup {NoConn}]
    /\ socketRef \in Conns \cup {NoConn}
    /\ isConnected \in BOOLEAN
    /\ timers \in Nat

\* One socket that is not closed, or one timer, never both and never two:
\* every close starts one timer and every timer opens one socket, and no
\* other connect runs beside them (WebSocketContext.jsx:41-51, 70-76).
\* isConnected is not left on when the socket has gone.
OneChain ==
    /\ Cardinality(Live) + timers <= 1
    /\ isConnected => socketRef # NoConn /\ conns[socketRef] # NoConn
                      /\ conns[socketRef].state # "connecting"
=============================================================================

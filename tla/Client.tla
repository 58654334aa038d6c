------------------------------- MODULE Client -------------------------------
(***************************************************************************)
(* The browser: the session and its WebSocket, side by side in App.jsx.    *)
(* A page load starts both anew, a crash of the tree runs the socket's     *)
(* cleanup, and everything else moves one of the two.                      *)
(***************************************************************************)
EXTENDS Session, WebSocketContext

vars == <<session, socket>>

Creds == Tokens \cup {NULL}

ASSUME NoConnAssumption == NoConn \notin Conn(Creds)

-----------------------------------------------------------------------------
NewDocument == Loads /\ Start(token' # NULL, cookie', mounted')

Crash == FollowLinkToUserSignup /\ Cleanup

Step == Stays /\ UNCHANGED socket

\* GET /auth/ws behind RequireAuth: a bad cookie is refused.
Accepted(c) ==
    /\ conns[c] # NoConn /\ Valid(conns[c].cred)
    /\ OnOpen(c)
    /\ UNCHANGED session

Refused(c) ==
    /\ conns[c] # NoConn /\ conns[c].state = "connecting" /\ ~Valid(conns[c].cred)
    /\ OnError(c)
    /\ UNCHANGED session

Breaks(c) ==
    /\ Mishap
    /\ OnError(c)
    /\ UNCHANGED <<token, cookie, owner, expired, page, mounted, nav, calls>>

\* After close(), or when the server ends the connection.
Closes(c) ==
    /\ conns[c] # NoConn
    /\ \/ conns[c].state = "closing" /\ UNCHANGED session
       \/ /\ conns[c].state = "open" /\ Mishap
          /\ UNCHANGED <<token, cookie, owner, expired, page, mounted, nav, calls>>
    /\ OnClose(c)

Reconnect == TimerFires(token # NULL, cookie) /\ UNCHANGED session

Init == SessionInit /\ SocketInit

Next ==
    \/ Step \/ NewDocument \/ Crash \/ Reconnect
    \/ \E c \in Conns : Accepted(c) \/ Refused(c) \/ Breaks(c) \/ Closes(c)

Spec == Init /\ [][Next]_vars

\* A page's interval never stops while the page is there: it sends a request
\* whenever there is room for one, and the browser delivers every answer.
\* Timers fire, handshakes are answered, a closed socket is reported.
AnswerOf(s) == \/ AnswerStays(s) /\ UNCHANGED socket
               \/ AnswerLoads(s) /\ Start(token' # NULL, cookie', mounted')
Fairness ==
    /\ SF_vars((FetchDrivers \/ FetchActive \/ FetchDashboard) /\ UNCHANGED socket)
    /\ \A s \in Slots : WF_vars(AnswerOf(s))
    /\ WF_vars(Reconnect)
    /\ \A c \in Conns : WF_vars(Accepted(c)) /\ WF_vars(Refused(c))
                        /\ WF_vars(conns[c] # NoConn /\ conns[c].state = "closing" /\ Closes(c))

FairSpec == Spec /\ Fairness
-----------------------------------------------------------------------------
\* Every variable keeps to its domain, and the cookie is the last token that
\* was issued, or gone: a request that leaves the header out never falls back
\* on an account of before the last login.
TypeOK ==
    /\ SessionTypeOK
    /\ SocketTypeOK(Creds)
    /\ token # NULL => owner[token] # NULL
    /\ cookie # NULL => \A t \in Tokens : owner[t] # NULL <=> t <= cookie

\* A socket is only opened while somebody is logged in, as that account or as
\* one that has logged in since: after a logout the cookie stays, and so does
\* the reconnect timer, but no socket is opened with them
\* (WebSocketContext.jsx:12-13, UserHome.jsx:274).  The later account is that
\* of a login whose cookie has come and whose answer this document has yet to
\* read, or lost to a page load, or read before that of an earlier login
\* (UserLogin.jsx:18-23).
OpensAsMe ==
    [][\A c \in Conns : conns[c] = NoConn /\ conns'[c] # NoConn =>
           token' # NULL /\ (conns'[c].cred = NULL \/ conns'[c].cred >= token')]_vars

\* A token that is good is lost to a logout, to a failed loadUser, or to the
\* 401 of a request that went out with another credential: the late answer
\* to a request of before the login (api.js:31, UserContext.jsx:20).
ValidTokenKept ==
    [][Valid(token) /\ token' = NULL =>
           \/ HandleLogout
           \/ mishaps' > mishaps
           \/ \E s \in Slots : calls[s] # NULL /\ calls'[s] = NULL /\ calls[s].cred # token]_vars

\* Nobody is left without a good credential on a page that needs one: the 401
\* of its own requests moves them on, whatever else is in flight (api.js:29-45).
\* The driver's page asks whether or not there is a token; the rider's asks
\* nothing once the token is gone (UserHome.jsx:134-135), so that who loses it
\* there, to a loadUser that fails, may stay.
SentToLogin ==
    (mounted /\ page \in PrivatePages /\ ~Valid(Credential(token))
             /\ (page = "/user/home" => token # NULL))
        ~> (page \notin PrivatePages \/ Valid(Credential(token))
            \/ (page = "/user/home" /\ token = NULL))

\* A closed socket comes back: while there is a token, and the cookie of that
\* token is good, a timer or a handshake of a living tree ends in a connection
\* (WebSocketContext.jsx:41-46).  A socket that found no token never does.
Reconnects ==
    (timers > 0 \/ Live # {}) ~> (isConnected \/ token = NULL \/ ~Valid(cookie) \/ ~mounted)
=============================================================================

---------------------------- MODULE ClientProofs ----------------------------
(***************************************************************************)
(* Theorems about Client, for any number of tokens, requests, sockets and  *)
(* mishaps: there is one socket or one timer, it is opened as the account  *)
(* that is logged in, and a good token is not lost to its own requests.    *)
(***************************************************************************)
EXTENDS Client, FiniteSetTheorems, WellFoundedInduction, TLAPS

-----------------------------------------------------------------------------
TokensOK ==
    /\ token \in Tokens \cup {NULL} /\ cookie \in Tokens \cup {NULL}
    /\ owner \in [Tokens -> Roles \cup {NULL}]
    /\ expired \subseteq Tokens
    /\ token # NULL => owner[token] # NULL
    /\ cookie # NULL => \A t \in Tokens : owner[t] # NULL <=> t <= cookie

\* Tokens are issued in order.
IssuedInOrder == \E n \in 0..MaxTokens : \A t \in Tokens : owner[t] # NULL <=> t <= n

DocumentOK == page \in Pages /\ mounted \in BOOLEAN /\ nav \in Nat /\ mishaps \in 0..MaxMishaps

CallsOK == calls \in [Slots -> Call \cup {NULL}]

\* What an answer brings was issued.
AnswersOK == \A s \in Slots : calls[s] # NULL /\ calls[s].issued # NULL => owner[calls[s].issued] # NULL

SessionOK == TokensOK /\ IssuedInOrder /\ DocumentOK /\ CallsOK /\ AnswersOK

\* The socket that lives is the one socketRef points at, and no timer runs
\* beside it.
Chain ==
    /\ timers <= 1
    /\ \A c \in Live : c = socketRef /\ timers = 0
    /\ isConnected => socketRef \in Live /\ conns[socketRef].state # "connecting"

SocketOK == SocketTypeOK(Creds) /\ Chain

\* The inductive invariant.
Inv == SessionOK /\ SocketOK

-----------------------------------------------------------------------------
(* The session *)

\* A broken or closed connection is no more to the session than a mishap.
SessionRests ==
    /\ UNCHANGED <<token, cookie, owner, expired, page, mounted, nav, calls>>
    /\ mishaps' = mishaps \/ Mishap

SessionMoves == Stays \/ Loads \/ FollowLinkToUserSignup \/ SessionRests

LEMMA LeftOK ==
    ASSUME CallsOK
    PROVE  /\ Left \in [Slots -> Call \cup {NULL}]
           /\ \A s \in Slots : Left[s] # NULL => calls[s] # NULL /\ Left[s].issued = calls[s].issued
<1>1. ASSUME NEW s \in Slots, calls[s] # NULL
      PROVE  /\ [calls[s] EXCEPT !.here = FALSE] \in Call
             /\ [calls[s] EXCEPT !.here = FALSE].issued = calls[s].issued
  <2>1. calls[s] \in Call
    BY <1>1 DEF CallsOK
  <2>2. QED
    BY <2>1 DEF Call
<1>2. QED
  BY <1>1 DEF Left

\* Answers stay as they are, or go.
LEMMA AnswersKept ==
    ASSUME SessionOK, \A t \in Tokens : owner[t] # NULL => owner'[t] # NULL,
           \A s \in Slots : calls'[s] # NULL =>
               calls'[s].issued = NULL \/ (calls[s] # NULL /\ calls'[s].issued = calls[s].issued)
    PROVE  AnswersOK'
<1> SUFFICES ASSUME NEW s \in Slots, calls'[s] # NULL, calls'[s].issued # NULL
             PROVE  owner'[calls'[s].issued] # NULL
  BY DEF AnswersOK
<1>1. calls[s] # NULL /\ calls'[s].issued = calls[s].issued
  OBVIOUS
<1>2. calls[s] \in Call
  BY <1>1 DEF SessionOK, CallsOK
<1>3. calls[s].issued \in Tokens /\ owner[calls[s].issued] # NULL
  BY <1>1, <1>2 DEF SessionOK, AnswersOK, Call
<1>4. QED
  BY <1>1, <1>3

LEMMA SendKeeps ==
    ASSUME SessionOK, NEW op \in Ops, NEW here \in BOOLEAN, Send(op, here), UNCHANGED owner
    PROVE  CallsOK' /\ AnswersOK'
<1>1. PICK d : d = [op |-> op, cred |-> Credential(token), here |-> here, issued |-> NULL]
  OBVIOUS
<1>2. d \in Call /\ d.issued = NULL
  BY <1>1 DEF Call, Credential, SessionOK, TokensOK
<1>3. calls' = [calls EXCEPT ![FirstFree] = d]
  BY <1>1 DEF Send
<1>4. CallsOK'
  BY <1>2, <1>3 DEF SessionOK, CallsOK
<1>5. \A s \in Slots : calls'[s] = d \/ calls'[s] = calls[s]
  BY <1>3 DEF SessionOK, CallsOK
<1>6. QED
  BY <1>2, <1>4, <1>5, AnswersKept

LEMMA LoadKeeps ==
    ASSUME SessionOK, NEW p \in Pages, NEW tok \in Tokens \cup {NULL}, Load(p, tok),
           UNCHANGED <<owner>>
    PROVE  /\ CallsOK' /\ AnswersOK' /\ IssuedInOrder'
           /\ page' \in Pages /\ mounted' \in BOOLEAN /\ nav' \in Nat
<1>1. PICK d : d = [op |-> "me", cred |-> tok, here |-> FALSE, issued |-> NULL]
  OBVIOUS
<1>2. d \in Call /\ d.issued = NULL
  BY <1>1 DEF Call, Ops, Authenticated
<1>3. calls' = [s \in Slots |-> IF s = 1 /\ mounted' /\ tok # NULL THEN d ELSE NULL]
  BY <1>1 DEF Load
<1>4. CallsOK'
  BY <1>2, <1>3 DEF CallsOK
<1>5. AnswersOK'
  BY <1>2, <1>3 DEF AnswersOK
<1>6. IssuedInOrder'
  BY DEF SessionOK, IssuedInOrder
<1>7. QED
  BY <1>4, <1>5, <1>6 DEF Load

LEMMA MishapCounted ==
    ASSUME SessionOK, mishaps' = mishaps \/ Mishap
    PROVE  mishaps' \in 0..MaxMishaps
BY BoundAssumption DEF SessionOK, DocumentOK, Mishap

LEMMA LoadsKeep ==
    ASSUME SessionOK, Loads
    PROVE  SessionOK'
<1> USE DEF SessionOK
<1>1. CASE RestartBrowser \/ \E p \in Pages : Visit(p)
  <2>1. PICK p \in Pages : Load(p, token)
    BY <1>1 DEF RestartBrowser, Visit, DocumentOK
  <2>2. /\ UNCHANGED <<token, owner, expired>> /\ cookie' \in {cookie, NULL}
        /\ mishaps' = mishaps \/ Mishap
    BY <1>1 DEF RestartBrowser, Visit
  <2>3. TokensOK'
    BY <2>2 DEF TokensOK
  <2>4. mishaps' \in 0..MaxMishaps
    BY <2>2, MishapCounted
  <2>5. CallsOK' /\ AnswersOK' /\ IssuedInOrder' /\ page' \in Pages /\ mounted' \in BOOLEAN /\ nav' \in Nat
    BY <2>1, <2>2, LoadKeeps DEF TokensOK
  <2>6. QED
    BY <2>3, <2>4, <2>5 DEF DocumentOK
<1>2. ASSUME NEW s \in Slots, UnauthorizedLeaves(s) PROVE SessionOK'
  <2>1. PICK p \in Pages : Load(p, NULL)
    BY <1>2 DEF UnauthorizedLeaves, Pages
  <2>2. token' = NULL /\ UNCHANGED <<cookie, owner, expired, mishaps>>
    BY <1>2 DEF UnauthorizedLeaves, Unauthorized
  <2>3. TokensOK' /\ mishaps' \in 0..MaxMishaps
    BY <2>2 DEF TokensOK, DocumentOK
  <2>4. CallsOK' /\ AnswersOK' /\ IssuedInOrder' /\ page' \in Pages /\ mounted' \in BOOLEAN /\ nav' \in Nat
    BY <2>1, <2>2, LoadKeeps
  <2>5. QED
    BY <2>3, <2>4 DEF DocumentOK
<1>3. QED
  BY <1>1, <1>2 DEF Loads, AnswerLoads

\* The steps of the user and of the timers, within a document.
UserSteps ==
    \/ \E p \in Pages : FollowLink(p)
    \/ HandleLogout \/ NavTimerFires
    \/ UserLogin \/ CaptainLogin \/ CaptainSignup \/ CaptainDetails
    \/ FetchDrivers \/ FetchActive \/ FetchNearby \/ FetchDashboard
    \/ \E t \in Tokens : Expire(t)
    \/ FollowLinkToUserSignup

LEMMA UserStepsKeep ==
    ASSUME SessionOK, UserSteps
    PROVE  SessionOK'
<1> USE DEF SessionOK
<1>1. UNCHANGED <<owner, cookie>> /\ token' \in {token, NULL} /\ expired' \subseteq Tokens
  BY DEF TokensOK, UserSteps, FollowLink, HandleLogout, NavTimerFires, UserLogin, CaptainLogin,
     CaptainSignup, CaptainDetails, FetchDrivers, FetchActive, FetchNearby, FetchDashboard, Expire,
     FollowLinkToUserSignup, Submit, Poll
<1>2. CallsOK' /\ AnswersOK'
  <2>1. CASE UNCHANGED calls
    BY <1>1, <2>1 DEF CallsOK, AnswersOK
  <2>2. CASE calls' = Left
    BY <1>1, <2>2, LeftOK, AnswersKept DEF CallsOK
  <2>3. CASE \E op \in Ops, here \in BOOLEAN : Send(op, here)
    BY <1>1, <2>3, SendKeeps
  <2>4. QED
    BY <2>1, <2>2, <2>3 DEF UserSteps, Navigate, Ops, Logins, Authenticated, FollowLink, HandleLogout, NavTimerFires, UserLogin, CaptainLogin,
       CaptainSignup, CaptainDetails, FetchDrivers, FetchActive, FetchNearby, FetchDashboard, Expire,
       FollowLinkToUserSignup, Submit, Poll
<1>3. TokensOK' /\ IssuedInOrder'
  BY <1>1 DEF TokensOK, IssuedInOrder
<1>4. nav' \in Nat
  <2>1. nav' = nav \/ (nav > 0 /\ nav' = nav - 1)
    BY DEF UserSteps, FollowLink, HandleLogout, NavTimerFires, UserLogin, CaptainLogin,
       CaptainSignup, CaptainDetails, FetchDrivers, FetchActive, FetchNearby, FetchDashboard, Expire,
       FollowLinkToUserSignup, Submit, Poll
  <2>2. QED
    BY <2>1 DEF DocumentOK
<1>5. page' \in Pages /\ mounted' \in BOOLEAN
  BY DEF DocumentOK, Pages, UserSteps, FollowLink, HandleLogout, NavTimerFires, UserLogin,
     CaptainLogin, CaptainSignup, CaptainDetails, FetchDrivers, FetchActive, FetchNearby, FetchDashboard,
     Expire, FollowLinkToUserSignup, Navigate, Submit, Poll
<1>6. mishaps' \in 0..MaxMishaps
  <2>1. mishaps' = mishaps \/ Mishap
    BY DEF UserSteps, FollowLink, HandleLogout, NavTimerFires, UserLogin,
       CaptainLogin, CaptainSignup, CaptainDetails, FetchDrivers, FetchActive, FetchNearby, FetchDashboard,
       Expire, FollowLinkToUserSignup, Submit, Poll
  <2>2. QED
    BY <2>1, MishapCounted
<1>7. QED
  BY <1>1, <1>2, <1>3, <1>4, <1>5, <1>6 DEF DocumentOK

\* The next token is the first that is nobody's.
LEMMA IssuedKeeps ==
    ASSUME SessionOK, NEW s \in Slots, NEW op, NEW role \in Roles, calls[s] # NULL,
           Issued(s, op, role)
    PROVE  SessionOK'
<1>1. PICK t \in Tokens :
        /\ owner[t] = NULL /\ \A u \in Tokens : u < t => owner[u] # NULL
        /\ owner' = [owner EXCEPT ![t] = role]
        /\ cookie' = t
        /\ calls' = [calls EXCEPT ![s].issued = t]
  BY DEF Issued
<1>2. UNCHANGED <<token, expired, page, mounted, nav, mishaps>>
  BY DEF Issued
<1>3. PICK n \in 0..MaxTokens : \A u \in Tokens : owner[u] # NULL <=> u <= n
  BY DEF SessionOK, IssuedInOrder
<1>4. t = n + 1
  <2>1. ~(t <= n)
    BY <1>1, <1>3
  <2>2. ~(n + 1 < t)
    <3>1. SUFFICES ASSUME n + 1 < t PROVE FALSE
      OBVIOUS
    <3>2. n + 1 \in Tokens
      BY <3>1, BoundAssumption DEF Tokens
    <3>3. owner[n + 1] # NULL
      BY <1>1, <3>1, <3>2
    <3>4. n + 1 <= n
      BY <1>3, <3>2, <3>3
    <3>5. QED
      BY <3>4
  <2>3. QED
    BY <2>1, <2>2, BoundAssumption DEF Tokens
<1>5. \A u \in Tokens : owner'[u] # NULL <=> u = t \/ owner[u] # NULL
  BY <1>1, NullAssumption DEF SessionOK, TokensOK
<1>6. \A u \in Tokens : owner'[u] # NULL <=> u <= t
  BY <1>3, <1>4, <1>5, BoundAssumption DEF Tokens
<1>7. t \in 0..MaxTokens
  BY BoundAssumption DEF Tokens
<1>8. TokensOK' /\ IssuedInOrder'
  BY <1>1, <1>2, <1>5, <1>6, <1>7 DEF SessionOK, TokensOK, IssuedInOrder
<1>9. PICK d : d = [calls[s] EXCEPT !.issued = t]
  OBVIOUS
<1>10. calls[s] \in Call
  BY DEF SessionOK, CallsOK
<1>11. d \in Call /\ d.issued = t
  BY <1>9, <1>10 DEF Call
<1>12. calls' = [calls EXCEPT ![s] = d]
  BY <1>1, <1>9
<1>13. CallsOK'
  BY <1>11, <1>12 DEF SessionOK, CallsOK
<1>14. AnswersOK'
  <2> SUFFICES ASSUME NEW r \in Slots, calls'[r] # NULL, calls'[r].issued # NULL
               PROVE  owner'[calls'[r].issued] # NULL
    BY DEF AnswersOK
  <2>1. CASE r = s
    <3>1. calls'[r].issued = t
      BY <1>11, <1>12, <2>1 DEF SessionOK, CallsOK
    <3>2. QED
      BY <1>5, <3>1
  <2>2. CASE r # s
    <3>1. calls'[r] = calls[r] /\ calls[r] \in Call
      BY <1>12, <2>2 DEF SessionOK, CallsOK
    <3>2. calls[r].issued \in Tokens /\ owner[calls[r].issued] # NULL
      BY <3>1 DEF SessionOK, AnswersOK, Call
    <3>3. QED
      BY <1>5, <3>1, <3>2
  <2>3. QED
    BY <2>1, <2>2
<1>15. QED
  BY <1>2, <1>8, <1>13, <1>14 DEF SessionOK, DocumentOK

\* The token that is stored was issued.
LEMMA StoredKeeps ==
    ASSUME SessionOK, NEW s \in Slots, NEW op, calls[s] # NULL, TokenStored(s, op)
    PROVE  TokensOK' /\ IssuedInOrder' /\ token' # NULL
<1>1. calls[s] \in Call
  BY DEF SessionOK, CallsOK
<1>2. calls[s].issued \in Tokens /\ owner[calls[s].issued] # NULL
  BY <1>1 DEF TokenStored, SessionOK, AnswersOK, Call
<1>3. QED
  BY <1>2, NullAssumption DEF TokenStored, SessionOK, TokensOK, IssuedInOrder

LEMMA EndedOK ==
    ASSUME NEW reqs \in [Slots -> Call \cup {NULL}], NEW s \in Slots
    PROVE  Ended(s, reqs) \in [Slots -> Call \cup {NULL}]
BY DEF Ended

LEMMA AnswersKeep ==
    ASSUME SessionOK, NEW s \in Slots, AnswerStays(s)
    PROVE  SessionOK'
<1> USE DEF SessionOK
<1>1. calls[s] # NULL
  BY DEF AnswerStays
<1>2. CASE LoginServed(s)
  BY <1>1, <1>2, IssuedKeeps DEF LoginServed, Roles
<1>3. ASSUME calls' = Ended(s, calls) \/ calls' = Ended(s, Left), UNCHANGED owner
      PROVE  CallsOK' /\ AnswersOK'
  <2>1. CallsOK'
    BY <1>3, LeftOK, EndedOK DEF CallsOK
  <2>2. \A r \in Slots : calls'[r] = NULL \/ calls'[r] = calls[r] \/ calls'[r] = Left[r]
    BY <1>3, LeftOK DEF Ended, CallsOK
  <2>3. \A r \in Slots : calls'[r] # NULL => calls[r] # NULL /\ calls'[r].issued = calls[r].issued
    BY <2>2, LeftOK
  <2>4. QED
    BY <1>3, <2>1, <2>3, AnswersKept
<1>4. CASE UserLoggedIn(s) \/ CaptainLoggedIn(s) \/ CaptainSignedUp(s)
  <2>1. PICK op \in Logins : TokenStored(s, op)
    BY <1>4 DEF UserLoggedIn, CaptainLoggedIn, CaptainSignedUp, Logins
  <2>2. nav' = nav \/ nav' = nav + 1
    BY <1>4 DEF UserLoggedIn, CaptainLoggedIn, CaptainSignedUp, GoesTo
  <2>3. nav' \in Nat
    BY <2>2 DEF DocumentOK
  <2>4. TokensOK' /\ IssuedInOrder'
    BY <1>1, <2>1, StoredKeeps
  <2>5. UNCHANGED <<owner, mounted, mishaps>>
    BY <2>1 DEF TokenStored
  <2>6. page' \in Pages
    BY <1>4 DEF UserLoggedIn, CaptainLoggedIn, CaptainSignedUp, GoesTo, DocumentOK, Pages
  <2>7. calls' = Ended(s, calls) \/ calls' = Ended(s, Left)
    BY <1>4 DEF UserLoggedIn, CaptainLoggedIn, CaptainSignedUp, GoesTo
  <2>8. QED
    BY <1>3, <2>3, <2>4, <2>5, <2>6, <2>7 DEF DocumentOK
<1>5. CASE LoginRefused(s) \/ Answered(s) \/ DriverProfileCreated(s) \/ UnauthorizedStays(s)
           \/ Failed(s)
  <2>1. UNCHANGED <<cookie, owner, expired, mounted, nav>> /\ token' \in {token, NULL}
    BY <1>5 DEF LoginRefused, Answered, DriverProfileCreated, UnauthorizedStays, Unauthorized,
       Failed, GoesTo
  <2>2. page' \in Pages
    BY <1>5 DEF LoginRefused, Answered, DriverProfileCreated, UnauthorizedStays, Failed, GoesTo,
       DocumentOK, Pages
  <2>3. mishaps' = mishaps \/ Mishap
    BY <1>5 DEF LoginRefused, Answered, DriverProfileCreated, UnauthorizedStays, Unauthorized,
       Failed
  <2>4. mishaps' \in 0..MaxMishaps
    BY <2>3, MishapCounted
  <2>5. TokensOK' /\ IssuedInOrder'
    BY <2>1 DEF TokensOK, IssuedInOrder
  <2>6. calls' = Ended(s, calls) \/ calls' = Ended(s, Left)
    BY <1>5 DEF LoginRefused, Answered, DriverProfileCreated, UnauthorizedStays, Failed, GoesTo
  <2>7. QED
    BY <1>3, <2>1, <2>2, <2>4, <2>5, <2>6 DEF DocumentOK
<1>6. QED
  BY <1>2, <1>4, <1>5 DEF AnswerStays

LEMMA SessionKeeps ==
    ASSUME SessionOK, SessionMoves
    PROVE  SessionOK'
<1>1. CASE SessionRests
  BY <1>1, MishapCounted DEF SessionRests, SessionOK, TokensOK, IssuedInOrder, DocumentOK, CallsOK,
     AnswersOK
<1>2. QED
  BY <1>1, LoadsKeep, UserStepsKeep, AnswersKeep DEF SessionMoves, Stays, UserSteps

-----------------------------------------------------------------------------
(* The socket *)

LEMMA RefIsTheOne ==
    ASSUME SocketOK, Live = {}
    PROVE  RefClosed = conns
BY DEF SocketOK, SocketTypeOK, RefClosed, Live

\* A new document has its own socket, or none.
LEMMA StartKeeps ==
    ASSUME NEW tree \in BOOLEAN, NEW hasToken \in BOOLEAN, NEW cred \in Creds,
           Start(hasToken, cred, tree)
    PROVE  SocketOK'
<1>1. PICK d : d = [state |-> "connecting", cred |-> cred]
  OBVIOUS
<1>2. d \in Conn(Creds) /\ d # NoConn
  BY <1>1, NoConnAssumption DEF Conn
<1>3. PICK c \in Conns : c = CHOOSE e \in Conns : TRUE
  BY ConnAssumption
<1>4. \/ /\ conns' = [e \in Conns |-> IF e = c THEN d ELSE NoConn]
         /\ socketRef' = c
      \/ conns' = [e \in Conns |-> NoConn] /\ socketRef' = NoConn
  BY <1>1, <1>3 DEF Start
<1>5. isConnected' = FALSE /\ timers' = 0
  BY DEF Start
<1>6. SocketTypeOK(Creds)'
  BY <1>2, <1>4, <1>5 DEF SocketTypeOK, Creds, Conn
<1>7. Chain'
  BY <1>4, <1>5 DEF Chain, Live
<1>8. QED
  BY <1>6, <1>7 DEF SocketOK

LEMMA CleanupKeeps ==
    ASSUME SocketOK, Cleanup
    PROVE  SocketOK'
<1>1. ASSUME NEW c \in Conns, conns[c] # NoConn
      PROVE  /\ [conns[c] EXCEPT !.state = "closing"] \in Conn(Creds)
             /\ [conns[c] EXCEPT !.state = "closing"].state = "closing"
  <2>1. conns[c] \in Conn(Creds)
    BY <1>1 DEF SocketOK, SocketTypeOK
  <2>2. QED
    BY <2>1 DEF Conn
<1>2. /\ conns' \in [Conns -> Conn(Creds) \cup {NoConn}]
      /\ \A c \in Conns : conns'[c] # NoConn <=> conns[c] # NoConn
      /\ \A c \in Conns : conns'[c] = conns[c] \/ conns'[c].state = "closing"
  BY <1>1, NoConnAssumption DEF Cleanup, RefClosed, SocketOK, SocketTypeOK
<1>3. timers' \in Nat /\ timers' <= timers /\ UNCHANGED <<socketRef, isConnected>>
  <2>1. timers \in Nat /\ timers' = (IF timers > 0 THEN timers - 1 ELSE 0)
    BY DEF Cleanup, SocketOK, SocketTypeOK
  <2>2. timers' \in Nat /\ timers' <= timers
    BY <2>1
  <2>3. QED
    BY <2>2 DEF Cleanup
<1>4. SocketTypeOK(Creds)'
  BY <1>2, <1>3 DEF SocketOK, SocketTypeOK, Creds, Conn
<1>5. Chain'
  BY <1>2, <1>3 DEF SocketOK, SocketTypeOK, Chain, Live
<1>6. QED
  BY <1>4, <1>5 DEF SocketOK

\* A socket opens, breaks, or is reported closed.
LEMMA StateSet ==
    ASSUME SocketOK, NEW c \in Conns, conns[c] # NoConn, NEW state \in {"open", "closing"},
           conns' = [conns EXCEPT ![c].state = state]
    PROVE  /\ conns' \in [Conns -> Conn(Creds) \cup {NoConn}]
           /\ \A d \in Conns : conns'[d] # NoConn <=> conns[d] # NoConn
           /\ conns'[c].state = state
           /\ \A d \in Conns : d # c => conns'[d] = conns[d]
<1>1. PICK d : d = [conns[c] EXCEPT !.state = state]
  OBVIOUS
<1>2. conns[c] \in Conn(Creds)
  BY DEF SocketOK, SocketTypeOK
<1>3. d \in Conn(Creds) /\ d.state = state
  BY <1>1, <1>2 DEF Conn
<1>4. conns' = [conns EXCEPT ![c] = d]
  BY <1>1
<1>5. QED
  BY <1>3, <1>4, NoConnAssumption DEF SocketOK, SocketTypeOK

LEMMA OnOpenKeeps ==
    ASSUME SocketOK, NEW c \in Conns, OnOpen(c)
    PROVE  SocketOK'
<1>1. /\ conns' \in [Conns -> Conn(Creds) \cup {NoConn}]
      /\ \A d \in Conns : conns'[d] # NoConn <=> conns[d] # NoConn
      /\ conns'[c].state = "open" /\ conns[c] # NoConn
  BY StateSet DEF OnOpen
<1>2. SocketTypeOK(Creds)'
  BY <1>1 DEF OnOpen, SocketOK, SocketTypeOK, Creds, Conn
<1>3. Chain'
  BY <1>1 DEF OnOpen, SocketOK, SocketTypeOK, Chain, Live
<1>4. QED
  BY <1>2, <1>3 DEF SocketOK

LEMMA OnErrorKeeps ==
    ASSUME SocketOK, NEW c \in Conns, OnError(c)
    PROVE  SocketOK'
<1>1. /\ conns' \in [Conns -> Conn(Creds) \cup {NoConn}]
      /\ \A d \in Conns : conns'[d] # NoConn <=> conns[d] # NoConn
      /\ \A d \in Conns : conns'[d] = conns[d] \/ conns'[d].state = "closing"
  BY StateSet DEF OnError
<1>2. SocketTypeOK(Creds)'
  BY <1>1 DEF OnError, SocketOK, SocketTypeOK, Creds, Conn
<1>3. Chain'
  BY <1>1 DEF OnError, SocketOK, SocketTypeOK, Chain, Live
<1>4. QED
  BY <1>2, <1>3 DEF SocketOK

\* The one socket goes, and a timer comes for it.
LEMMA OnCloseKeeps ==
    ASSUME SocketOK, NEW c \in Conns, OnClose(c)
    PROVE  SocketOK'
<1>1. timers = 0 /\ timers' = 1 /\ c = socketRef
  BY DEF OnClose, SocketOK, Chain, Live
<1>2. SocketTypeOK(Creds)'
  <2>1. conns' \in [Conns -> Conn(Creds) \cup {NoConn}]
    BY DEF OnClose, SocketOK, SocketTypeOK
  <2>2. isConnected' = FALSE /\ socketRef' \in Conns \cup {NoConn}
    BY DEF OnClose, SocketOK, SocketTypeOK
  <2>3. QED
    BY <1>1, <2>1, <2>2 DEF SocketTypeOK, Creds, Conn
<1>3. Live' = {}
  BY <1>1 DEF OnClose, SocketOK, SocketTypeOK, Chain, Live
<1>4. Chain'
  BY <1>1, <1>3 DEF OnClose, Chain
<1>5. QED
  BY <1>2, <1>4 DEF SocketOK

LEMMA TimerKeeps ==
    ASSUME SocketOK, NEW hasToken \in BOOLEAN, NEW cred \in Creds, TimerFires(hasToken, cred)
    PROVE  SocketOK'
<1>1. timers = 1 /\ timers' = 0 /\ isConnected' = isConnected
  BY DEF TimerFires, SocketOK, SocketTypeOK, Chain
<1>2. Live = {} /\ ~isConnected
  BY <1>1 DEF SocketOK, Chain
<1>3. CASE UNCHANGED <<conns, socketRef>>
  BY <1>1, <1>2, <1>3 DEF SocketOK, SocketTypeOK, Chain, Live, Creds, Conn
<1>4. CASE ~UNCHANGED <<conns, socketRef>>
  <2>1. PICK d : d = [state |-> "connecting", cred |-> cred]
    OBVIOUS
  <2>2. d \in Conn(Creds)
    BY <2>1 DEF Conn
  <2>3. PICK c : c = Fresh
    OBVIOUS
  <2>4. c \in Conns
    BY <1>2, <2>3, ConnAssumption DEF Fresh
  <2>5. conns' = [conns EXCEPT ![c] = d] /\ socketRef' = c
    BY <1>2, <1>4, <2>1, <2>3, RefIsTheOne DEF TimerFires, Connect
  <2>6. SocketTypeOK(Creds)'
    BY <1>1, <2>2, <2>4, <2>5 DEF SocketOK, SocketTypeOK, Creds, Conn
  <2>7. Chain'
    BY <1>1, <1>2, <2>4, <2>5 DEF SocketOK, SocketTypeOK, Chain, Live
  <2>8. QED
    BY <2>6, <2>7 DEF SocketOK
<1>5. QED
  BY <1>3, <1>4

-----------------------------------------------------------------------------
(* The browser *)

LEMMA InitOK == Init => Inv
<1> SUFFICES ASSUME Init PROVE Inv
  OBVIOUS
<1>1. TokensOK /\ CallsOK /\ AnswersOK
  BY NullAssumption DEF Init, SessionInit, TokensOK, CallsOK, AnswersOK
<1>2. IssuedInOrder
  <2>1. 0 \in 0..MaxTokens /\ \A t \in Tokens : owner[t] # NULL <=> t <= 0
    BY BoundAssumption DEF Init, SessionInit, Tokens
  <2>2. QED
    BY <2>1 DEF IssuedInOrder
<1>3. DocumentOK
  BY BoundAssumption DEF Init, SessionInit, DocumentOK
<1>4. SocketOK
  <2>1. isConnected = FALSE /\ Live = {} /\ timers = 0
    BY DEF Init, SocketInit, Live
  <2>2. conns \in [Conns -> Conn(Creds) \cup {NoConn}] /\ socketRef \in Conns \cup {NoConn}
    BY DEF Init, SocketInit
  <2>3. isConnected \in BOOLEAN
    BY <2>1, Zenon
  <2>4. SocketTypeOK(Creds)
    BY <2>1, <2>2, <2>3 DEF SocketTypeOK
  <2>5. QED
    BY <2>1, <2>4 DEF SocketOK, Chain
<1>5. QED
  BY <1>1, <1>2, <1>3, <1>4 DEF Inv, SessionOK

\* What each action is to the session.
LEMMA SessionSide ==
    ASSUME [Next]_vars
    PROVE  SessionMoves
<1>1. CASE Step \/ NewDocument \/ Crash
  BY <1>1 DEF Step, NewDocument, Crash, SessionMoves
<1>2. CASE Reconnect \/ UNCHANGED vars
  BY <1>2 DEF Reconnect, vars, session, SessionMoves, SessionRests
<1>3. ASSUME NEW c \in Conns, Accepted(c) \/ Refused(c) \/ Breaks(c) \/ Closes(c)
      PROVE  SessionMoves
  BY <1>3 DEF Accepted, Refused, Breaks, Closes, session, SessionMoves, SessionRests, Mishap
<1>4. QED
  BY <1>1, <1>2, <1>3 DEF Next

LEMMA SocketStep ==
    ASSUME Inv, SessionOK', [Next]_vars
    PROVE  SocketOK'
<1> USE DEF Inv
<1>1. CASE NewDocument
  <2>1. Start(token' # NULL, cookie', mounted') /\ cookie' \in Creds /\ mounted' \in BOOLEAN
    BY <1>1 DEF NewDocument, SessionOK, TokensOK, DocumentOK, Creds
  <2>2. PICK tree \in BOOLEAN, hasToken \in BOOLEAN, cred \in Creds : Start(hasToken, cred, tree)
    BY <2>1
  <2>3. QED
    BY <2>2, StartKeeps
<1>2. CASE Crash
  BY <1>2, CleanupKeeps DEF Crash
<1>3. CASE Reconnect
  <2>1. TimerFires(token # NULL, cookie) /\ cookie \in Creds
    BY <1>3 DEF Reconnect, SessionOK, TokensOK, Creds
  <2>2. PICK hasToken \in BOOLEAN, cred \in Creds : TimerFires(hasToken, cred)
    BY <2>1
  <2>3. QED
    BY <2>2, TimerKeeps
<1>4. ASSUME NEW c \in Conns, Accepted(c) \/ Refused(c) \/ Breaks(c) \/ Closes(c)
      PROVE  SocketOK'
  BY <1>4, OnOpenKeeps, OnErrorKeeps, OnCloseKeeps DEF Accepted, Refused, Breaks, Closes
<1>5. CASE UNCHANGED socket
  BY <1>5 DEF socket, SocketOK, SocketTypeOK, Chain, Live, Conn, Creds
<1>6. QED
  BY <1>1, <1>2, <1>3, <1>4, <1>5 DEF Next, Step, vars

\* The invariant holds in every behaviour.
THEOREM Invariance == Spec => []Inv
<1>1. Inv /\ [Next]_vars => Inv'
  BY SessionSide, SessionKeeps, SocketStep DEF Inv
<1>2. QED
  BY InitOK, <1>1, PTL DEF Spec

\* Every variable keeps to its domain, and the cookie is the last token that
\* was issued, or gone.
THEOREM TypeCorrect == Spec => []TypeOK
<1>1. Inv => TypeOK
  <2> SUFFICES ASSUME Inv PROVE TypeOK
    OBVIOUS
  <2>1. SessionTypeOK
    BY DEF Inv, SessionOK, TokensOK, DocumentOK, CallsOK, SessionTypeOK
  <2>2. QED
    BY <2>1 DEF Inv, SessionOK, SocketOK, TokensOK, TypeOK
<1>2. QED
  BY <1>1, Invariance, PTL

\* One socket that is not closed, or one reconnect timer, never both and never
\* two (WebSocketContext.jsx:41-51).
THEOREM OneSocketOrTimer == Spec => []OneChain
<1>1. Inv => OneChain
  <2> SUFFICES ASSUME Inv PROVE OneChain
    OBVIOUS
  <2>1. Cardinality(Live) + timers <= 1
    <3>1. CASE Live = {}
      BY <3>1, FS_EmptySet DEF Inv, SocketOK, SocketTypeOK, Chain
    <3>2. CASE Live # {}
      <4>1. Live = {socketRef} /\ timers = 0
        BY <3>2 DEF Inv, SocketOK, Chain
      <4>2. Cardinality({socketRef}) = 1
        BY FS_Singleton, Zenon
      <4>3. QED
        BY <4>1, <4>2
    <3>3. QED
      BY <3>1, <3>2
  <2>2. isConnected => socketRef \in Live /\ conns[socketRef].state # "connecting"
    BY DEF Inv, SocketOK, Chain
  <2>3. QED
    BY <2>1, <2>2, ConnAssumption DEF OneChain, Live
<1>2. QED
  BY <1>1, Invariance, PTL

LEMMA CookieNotOlder ==
    ASSUME SessionOK', token' # NULL
    PROVE  cookie' = NULL \/ cookie' >= token'
BY DEF SessionOK, TokensOK, Tokens

\* A socket is only opened while somebody is logged in, as that account or as
\* one that has logged in since.
THEOREM OpenedAsMe == Spec => OpensAsMe
<1>1. Inv /\ Inv' /\ [Next]_vars =>
          [\A c \in Conns : conns[c] = NoConn /\ conns'[c] # NoConn =>
               token' # NULL /\ (conns'[c].cred = NULL \/ conns'[c].cred >= token')]_vars
  <2> SUFFICES ASSUME Inv, Inv', Next, NEW c \in Conns, conns[c] = NoConn, conns'[c] # NoConn
               PROVE  token' # NULL /\ (conns'[c].cred = NULL \/ conns'[c].cred >= token')
    OBVIOUS
  <2> USE DEF Inv
  <2>1. CASE NewDocument
    <3>1. token' # NULL /\ conns'[c].cred = cookie'
      BY <2>1 DEF NewDocument, Start
    <3>2. QED
      BY <3>1, CookieNotOlder
  <2>2. CASE Reconnect
    <3>1. timers > 0
      BY <2>2 DEF Reconnect, TimerFires
    <3>2. RefClosed = conns
      BY <3>1, RefIsTheOne DEF SocketOK, Chain
    <3>3. PICK d : d = [state |-> "connecting", cred |-> cookie]
      OBVIOUS
    <3>4. token # NULL /\ conns' = [conns EXCEPT ![Fresh] = d]
      BY <2>2, <3>2, <3>3 DEF Reconnect, TimerFires, Connect
    <3>5. conns'[c] = d
      BY <3>4 DEF SocketOK, SocketTypeOK
    <3>6. conns'[c].cred = cookie
      BY <3>3, <3>5
    <3>7. UNCHANGED <<token, cookie>>
      BY <2>2 DEF Reconnect, session
    <3>8. QED
      BY <3>4, <3>6, <3>7, CookieNotOlder
  <2>3. CASE Step \/ Crash
    BY <2>3 DEF Step, Crash, Cleanup, RefClosed, socket
  <2>4. ASSUME NEW e \in Conns, Accepted(e) \/ Refused(e) \/ Breaks(e) \/ Closes(e)
        PROVE  FALSE
    BY <2>4 DEF Accepted, Refused, Breaks, Closes, OnOpen, OnError, OnClose, SocketOK,
       SocketTypeOK
  <2>5. QED
    BY <2>1, <2>2, <2>3, <2>4 DEF Next
<1>2. QED
  BY <1>1, Invariance, PTL DEF Spec, OpensAsMe

\* A token that is good is lost only to a logout, to a mishap, or to the 401
\* of a request that went out with another credential.
THEOREM GoodTokenKept == Spec => ValidTokenKept
<1>1. Inv /\ [Next]_vars =>
          [Valid(token) /\ token' = NULL =>
               \/ HandleLogout
               \/ mishaps' > mishaps
               \/ \E s \in Slots : calls[s] # NULL /\ calls'[s] = NULL /\ calls[s].cred # token]_vars
  <2> SUFFICES ASSUME Inv, Next, Valid(token), token' = NULL, ~HandleLogout, ~(mishaps' > mishaps)
               PROVE  \E s \in Slots : calls[s] # NULL /\ calls'[s] = NULL /\ calls[s].cred # token
    OBVIOUS
  <2>1. SessionMoves
    BY SessionSide
  <2>2. token # NULL
    BY NullAssumption DEF Valid
  <2>3. ~Mishap
    BY DEF Mishap, Inv, SessionOK, DocumentOK
  <2>4. CASE \E s \in Slots : AnswerLoads(s)
    <3>1. PICK s \in Slots : calls[s] # NULL /\ UnauthorizedLeaves(s)
      BY <2>4 DEF AnswerLoads
    <3>2. calls'[s] = NULL /\ calls[s].cred # token
      BY <3>1 DEF UnauthorizedLeaves, Unauthorized, Load
    <3>3. QED
      BY <3>1, <3>2
  <2>5. ASSUME NEW s \in Slots, AnswerStays(s)
        PROVE  calls[s] # NULL /\ calls'[s] = NULL /\ calls[s].cred # token
    <3>1. ~(UserLoggedIn(s) \/ CaptainLoggedIn(s) \/ CaptainSignedUp(s))
      BY DEF UserLoggedIn, CaptainLoggedIn, CaptainSignedUp, TokenStored
    <3>2. ~(LoginServed(s) \/ LoginRefused(s) \/ Answered(s) \/ DriverProfileCreated(s) \/ Failed(s))
      BY <2>2, <2>3 DEF LoginServed, Issued, LoginRefused, Answered,
         DriverProfileCreated, Failed
    <3>3. UnauthorizedStays(s) /\ calls[s] # NULL
      BY <2>5, <3>1, <3>2 DEF AnswerStays
    <3>4. QED
      BY <3>3 DEF UnauthorizedStays, Unauthorized, Ended, Inv, SessionOK, CallsOK
  <2>6. CASE UserSteps
    BY <2>2, <2>3, <2>6 DEF UserSteps, FollowLink, NavTimerFires, UserLogin, CaptainLogin,
       CaptainSignup, CaptainDetails, FetchDrivers, FetchActive, FetchNearby, FetchDashboard, Expire,
       FollowLinkToUserSignup, Submit, Poll
  <2>7. CASE RestartBrowser \/ (\E p \in Pages : Visit(p)) \/ SessionRests
    BY <2>2, <2>3, <2>7 DEF RestartBrowser, Visit, SessionRests
  <2>8. QED
    BY <2>1, <2>4, <2>5, <2>6, <2>7 DEF SessionMoves, Stays, Loads, UserSteps
<1>2. QED
  BY <1>1, Invariance, PTL DEF Spec, ValidTokenKept

-----------------------------------------------------------------------------
(* What the liveness properties rest on.  That a closed socket comes back,  *)
(* and that nobody is left on a page without a credential, follows, given   *)
(* fairness, from what is proved here.                                      *)

\* A socket lives, or a timer will open one.
Alive == timers > 0 \/ Live # {}

\* The chain of sockets and timers does not break in a living tree with a
\* token, and once it has ended only a page load starts another.
ChainUnbroken ==
    [][/\ Alive /\ token' # NULL /\ mounted' => Alive'
       /\ ~Alive /\ Alive' => NewDocument]_vars

\* A socket that is opened is one that lives.
LEMMA OpenedLives ==
    ASSUME NEW c \in Conns, NEW cred \in Creds,
           conns'[c] = [state |-> "connecting", cred |-> cred]
    PROVE  Live' # {}
<1>1. PICK d : d = [state |-> "connecting", cred |-> cred]
  OBVIOUS
<1>2. d \in Conn(Creds)
  BY <1>1 DEF Conn
<1>3. conns'[c] # NoConn
  BY <1>1, <1>2, NoConnAssumption
<1>4. QED
  BY <1>3 DEF Live

\* Every close starts a timer and every timer with a token a socket; but the
\* login does not connect: who logs in on a page that was loaded without a
\* token has no socket, and gets none before the next page load
\* (WebSocketContext.jsx:12-13, 70-76).
THEOREM SocketChain == Spec => ChainUnbroken
<1>1. ASSUME Inv, Inv', Next
      PROVE  /\ Alive /\ token' # NULL /\ mounted' => Alive'
             /\ ~Alive /\ Alive' => NewDocument
  <2> USE DEF Inv
  <2>1. ASSUME NewDocument, token' # NULL, mounted'
        PROVE  Alive'
    <3>1. Start(token' # NULL, cookie', mounted') /\ cookie' \in Creds
      BY <1>1, <2>1 DEF NewDocument, SessionOK, TokensOK, Creds
    <3>2. PICK c \in Conns : c = CHOOSE d \in Conns : TRUE
      BY ConnAssumption
    <3>3. conns'[c] = [state |-> "connecting", cred |-> cookie']
      BY <2>1, <3>1, <3>2 DEF Start
    <3>4. QED
      BY <3>1, <3>3, OpenedLives DEF Alive
  <2>2. CASE Crash
    <3>1. ~mounted' /\ Cleanup
      BY <2>2 DEF Crash, FollowLinkToUserSignup
    <3>2. ASSUME ~Alive PROVE ~Alive'
      <4>1. timers = 0 /\ Live = {}
        BY <1>1, <3>2 DEF Alive, SocketOK, SocketTypeOK
      <4>2. conns' = conns
        BY <1>1, <3>1, <4>1, RefIsTheOne DEF Cleanup
      <4>3. timers' = 0
        BY <3>1, <4>1 DEF Cleanup
      <4>4. QED
        BY <4>1, <4>2, <4>3 DEF Alive, Live
    <3>3. QED
      BY <3>1, <3>2
  <2>3. CASE Reconnect
    <3>1. timers > 0 /\ UNCHANGED token /\ TimerFires(token # NULL, cookie)
      BY <2>3 DEF Reconnect, TimerFires, session
    <3>2. Live = {}
      BY <1>1, <3>1 DEF SocketOK, Chain
    <3>3. ASSUME token # NULL PROVE Live' # {}
      <4>1. PICK c \in Conns : c = Fresh
        BY <3>2, ConnAssumption DEF Fresh
      <4>2. PICK d : d = [state |-> "connecting", cred |-> cookie]
        OBVIOUS
      <4>3. conns' = [conns EXCEPT ![c] = d]
        BY <1>1, <3>1, <3>2, <3>3, <4>1, <4>2, RefIsTheOne DEF TimerFires, Connect
      <4>4. conns'[c] = d
        BY <1>1, <4>3 DEF SocketOK, SocketTypeOK
      <4>5. cookie \in Creds
        BY <1>1 DEF SessionOK, TokensOK, Creds
      <4>6. QED
        BY <4>2, <4>4, <4>5, OpenedLives
    <3>4. QED
      BY <3>1, <3>3 DEF Alive
  <2>4. ASSUME NEW c \in Conns, Accepted(c) \/ Refused(c) \/ Breaks(c)
        PROVE  Alive' <=> Alive
    <3>1. (OnOpen(c) \/ OnError(c)) /\ timers' = timers
      BY <2>4 DEF Accepted, Refused, Breaks, OnOpen, OnError
    <3>2. \A d \in Conns : conns'[d] # NoConn <=> conns[d] # NoConn
      BY <1>1, <3>1, StateSet DEF OnOpen, OnError
    <3>3. QED
      BY <3>1, <3>2 DEF Alive, Live
  <2>5. ASSUME NEW c \in Conns, Closes(c)
        PROVE  Alive /\ Alive'
    <3>1. c \in Live /\ timers' = timers + 1
      BY <2>5 DEF Closes, OnClose, Live
    <3>2. timers' > 0
      BY <1>1, <3>1 DEF SocketOK, SocketTypeOK
    <3>3. QED
      BY <3>1, <3>2 DEF Alive
  <2>6. CASE Step
    BY <2>6 DEF Step, socket, Alive, Live
  <2>7. QED
    BY <1>1, <2>1, <2>2, <2>3, <2>4, <2>5, <2>6 DEF Next
<1>2. ASSUME UNCHANGED vars PROVE Alive' <=> Alive
  BY <1>2 DEF vars, socket, Alive, Live
<1>3. Inv /\ Inv' /\ [Next]_vars =>
          [/\ Alive /\ token' # NULL /\ mounted' => Alive'
           /\ ~Alive /\ Alive' => NewDocument]_vars
  BY <1>1
<1>4. QED
  BY <1>3, Invariance, PTL DEF Spec, ChainUnbroken

\* A request that went out without a good credential.
Bad(s) == calls[s] # NULL /\ calls[s].op \in Authenticated /\ ~Valid(calls[s].cred)

Asks == FetchDrivers \/ FetchActive \/ FetchNearby \/ FetchDashboard

\* A page without a good credential asks with a bad one.  Nothing makes that
\* good, and without a mishap only its own answer, or that of another such
\* request, takes the request away.
BadRequestsMoveOn ==
    [][/\ Asks /\ ~Valid(Credential(token)) => \E s \in Slots : Bad(s)'
       /\ \A s \in Slots : Bad(s) /\ mishaps' = mishaps => Bad(s)' \/ page' \in LoginPaths]_vars

\* Left does no more to a request than to take it off the form.
LEMMA LeftKeepsBad ==
    ASSUME CallsOK, NEW s \in Slots, Bad(s), UNCHANGED expired,
           calls'[s] = calls[s] \/ calls'[s] = Left[s]
    PROVE  Bad(s)'
<1>1. calls[s] \in Call
  BY DEF CallsOK, Bad
<1>2. Left[s] = [calls[s] EXCEPT !.here = FALSE]
  BY DEF Left, Bad
<1>3. Left[s] \in Call /\ Left[s].op = calls[s].op /\ Left[s].cred = calls[s].cred
  BY <1>1, <1>2 DEF Call
<1>4. calls'[s] \in Call /\ calls'[s].op = calls[s].op /\ calls'[s].cred = calls[s].cred
  BY <1>1, <1>3
<1>5. QED
  BY <1>4, NullAssumption DEF Bad, Valid

\* A request takes a free slot.
LEMMA FreeIsFree ==
    ASSUME Free # {}
    PROVE  FirstFree \in Free
<1> DEFINE R == {p \in Nat \X Nat : p[1] < p[2]}
<1>1. Free \subseteq Nat
  BY DEF Free, Slots
<1>2. IsWellFoundedOn(R, Nat)
  BY NatLessThanWellFounded DEF OpToRel
<1>3. \A x, y \in Nat : x < y => <<x, y>> \in R
  OBVIOUS
<1> HIDE DEF R
<1>4. PICK s \in Free : \A t \in Free : ~(<<t, s>> \in R)
  BY <1>1, <1>2, WFMin
<1>5. ASSUME NEW t \in Free PROVE s <= t
  <2>1. s \in Nat /\ t \in Nat
    BY <1>1
  <2>2. ~(t < s)
    BY <1>3, <1>4, <2>1
  <2>3. QED
    BY <2>1, <2>2
<1>6. QED
  BY <1>5 DEF FirstFree

\* The 401 of a request that was sent without a good credential moves the page
\* on: a login meanwhile does not rescue the request, another page that the
\* router shows meanwhile does not swallow its answer (api.js:29-45).
THEOREM BadRequestEndsOnLogin == Spec => BadRequestsMoveOn
<1>1. ASSUME Inv, [Next]_vars, NEW s \in Slots, Bad(s), mishaps' = mishaps
      PROVE  Bad(s)' \/ page' \in LoginPaths
  <2> USE DEF Inv, SessionOK
  <2>1. SessionMoves
    BY <1>1, SessionSide
  <2>2. ~Mishap
    BY <1>1 DEF Mishap, DocumentOK
  <2>3. CASE \E t \in Slots : AnswerLoads(t)
    BY <2>3 DEF AnswerLoads, UnauthorizedLeaves, Load, LoginPaths
  <2>4. ASSUME NEW t \in Slots, AnswerStays(t)
        PROVE  Bad(s)' \/ page' \in LoginPaths
    <3>1. UNCHANGED expired
      BY <2>4 DEF AnswerStays, UserLoggedIn, CaptainLoggedIn, CaptainSignedUp, TokenStored,
         LoginServed, Issued, LoginRefused, Answered, DriverProfileCreated, UnauthorizedStays,
         Unauthorized, Failed
    <3>2. calls' = Ended(t, calls) \/ calls' = Ended(t, Left) \/ LoginServed(t)
      BY <2>4 DEF AnswerStays, UserLoggedIn, CaptainLoggedIn, CaptainSignedUp, LoginRefused,
         Answered, DriverProfileCreated, UnauthorizedStays, Failed, GoesTo
    <3>3. CASE t # s
      <4>1. ASSUME LoginServed(t) PROVE calls'[s] = calls[s]
        <5>1. PICK u \in Tokens : calls' = [calls EXCEPT ![t].issued = u]
          BY <4>1 DEF LoginServed, Issued
        <5>2. QED
          BY <3>3, <5>1 DEF CallsOK
      <4>2. calls'[s] = calls[s] \/ calls'[s] = Left[s]
        BY <1>1, <3>2, <3>3, <4>1, LeftOK DEF Ended, CallsOK
      <4>3. QED
        BY <1>1, <3>1, <4>2, LeftKeepsBad
    <3>4. CASE t = s
      <4>1. calls[s].op \in Authenticated /\ ~Valid(calls[s].cred)
        BY <1>1 DEF Bad
      <4>2. calls[s].op \notin Logins
        BY <4>1 DEF Authenticated, Logins
      <4>3. UnauthorizedStays(s)
        BY <2>2, <2>4, <3>4, <4>1, <4>2 DEF AnswerStays, UserLoggedIn, CaptainLoggedIn,
           CaptainSignedUp, TokenStored, LoginServed, Issued, Logins, LoginRefused, Answered, DriverProfileCreated, Failed
      <4>4. QED
        BY <4>3 DEF UnauthorizedStays
    <3>5. QED
      BY <3>3, <3>4
  <2>5. CASE UserSteps
    <3>1. UNCHANGED expired
      BY <2>2, <2>5 DEF UserSteps, FollowLink, HandleLogout, NavTimerFires, UserLogin,
         CaptainLogin, CaptainSignup, CaptainDetails, FetchDrivers, FetchActive, FetchNearby,
         FetchDashboard, Expire, FollowLinkToUserSignup, Submit, Poll
    <3>2. \/ UNCHANGED calls
          \/ calls' = Left
          \/ \E op \in Ops, here \in BOOLEAN : Send(op, here)
      BY <2>2, <2>5 DEF UserSteps, FollowLink, HandleLogout, NavTimerFires, UserLogin,
         CaptainLogin, CaptainSignup, CaptainDetails, FetchDrivers, FetchActive, FetchNearby,
         FetchDashboard, Expire, FollowLinkToUserSignup, Navigate, Submit, Poll,
         Ops, Logins, Authenticated
    <3>3. ASSUME NEW op \in Ops, NEW here \in BOOLEAN, Send(op, here)
          PROVE  calls'[s] = calls[s]
      <4>1. FirstFree # s
        <5>1. FirstFree \in Free
          BY <3>3, FreeIsFree DEF Send
        <5>2. s \notin Free
          BY <1>1 DEF Bad, Free
        <5>3. QED
          BY <5>1, <5>2
      <4>2. QED
        BY <1>1, <3>3, <4>1 DEF Send, CallsOK
    <3>4. QED
      BY <1>1, <3>1, <3>2, <3>3, LeftKeepsBad
  <2>6. CASE RestartBrowser \/ \E p \in Pages : Visit(p)
    <3>1. UnderWay
      BY <1>1 DEF UnderWay, Bad
    <3>2. QED
      BY <2>2, <2>6, <3>1 DEF RestartBrowser, Visit
  <2>7. CASE SessionRests
    BY <1>1, <2>7 DEF SessionRests, Bad, Valid
  <2>8. QED
    BY <2>1, <2>3, <2>4, <2>5, <2>6, <2>7 DEF SessionMoves, Stays, Loads, UserSteps
<1>2. ASSUME Inv, Asks, ~Valid(Credential(token))
      PROVE  \E s \in Slots : Bad(s)'
  <2>1. PICK op \in {"poll", "driverPoll"} : Send(op, FALSE) /\ UNCHANGED expired
    BY <1>2 DEF Asks, FetchDrivers, FetchActive, FetchNearby, FetchDashboard, Poll
  <2>2. PICK d : d = [op |-> op, cred |-> Credential(token), here |-> FALSE, issued |-> NULL]
    OBVIOUS
  <2>3. d \in Call /\ d.op = op /\ d.cred = Credential(token)
    BY <1>2, <2>2 DEF Call, Credential, Ops, Authenticated, Inv, SessionOK, TokensOK
  <2>4. PICK s \in Slots : s = FirstFree
    BY <2>1, FreeIsFree DEF Send, Free
  <2>5. calls'[s] = d
    BY <1>2, <2>1, <2>2, <2>4 DEF Send, Inv, SessionOK, CallsOK
  <2>6. calls'[s] # NULL /\ calls'[s].op \in Authenticated
    BY <2>3, <2>5, NullAssumption DEF Authenticated
  <2>7. ~Valid(calls[s].cred)'
    BY <1>2, <2>1, <2>3, <2>5 DEF Valid
  <2>8. QED
    BY <2>6, <2>7 DEF Bad
<1>3. Inv /\ [Next]_vars =>
          [/\ Asks /\ ~Valid(Credential(token)) => \E s \in Slots : Bad(s)'
           /\ \A s \in Slots : Bad(s) /\ mishaps' = mishaps => Bad(s)' \/ page' \in LoginPaths]_vars
  BY <1>1, <1>2
<1>4. QED
  BY <1>3, Invariance, PTL DEF Spec, BadRequestsMoveOn
=============================================================================

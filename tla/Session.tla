------------------------------ MODULE Session ------------------------------
(***************************************************************************)
(* Who is logged in, and on which page: the token in localStorage, the     *)
(* HttpOnly cookie beside it, the router's path, and the requests in       *)
(* flight, each with the credential it was sent with.  From App.jsx,       *)
(* UserContext.jsx, the interceptors of api.js, and the login, signup and  *)
(* home pages of src/frontend/src.                                         *)
(*                                                                         *)
(* One account of each role uses the browser.  Actions of three kinds: the *)
(* steps within a loaded document, the ones that load a new document (all  *)
(* that runs in the old one is gone), and the one that crashes it.  Client *)
(* puts the WebSocket beside them.                                         *)
(***************************************************************************)
EXTENDS Integers, FiniteSets

CONSTANTS
    MaxTokens,      \* bound: logins and signups, each issues a token
    MaxCalls,       \* bound: requests in flight
    MaxMishaps,     \* bound: page loads that cut a request off, browser restarts,
                    \* expired tokens, failed requests and dropped connections
    NULL

VARIABLES
    token,      \* localStorage's token, or NULL
    cookie,     \* the access_token cookie, or NULL
    owner,      \* token -> the role of the account it was issued to, or NULL
    expired,    \* the tokens that are older than 24 hours
    page,       \* window.location.pathname
    mounted,    \* the React tree exists
    nav,        \* 100 ms timers of UserLogin that are running
    calls,      \* slot -> the request in it, or NULL
    mishaps     \* how many of the bounded mishaps have happened

session == <<token, cookie, owner, expired, page, mounted, nav, calls, mishaps>>

Tokens == 1..MaxTokens
Slots == 1..MaxCalls
Roles == {"rider", "driver"}

-----------------------------------------------------------------------------
Pages == {"/", "/user/login", "/user/signup", "/user/home",
          "/driver/login", "/driver/signup", "/driver/dashboard", "/captain-details"}

\* loginPaths, and the paths that start with /driver/ or /captain.
LoginPaths == {"/user/login", "/user/signup", "/driver/login", "/driver/signup"}
DriverPaths == {"/driver/login", "/driver/signup", "/driver/dashboard", "/captain-details"}

\* The pages that show nothing without an account, and ask for it at an interval.
PrivatePages == {"/user/home", "/driver/dashboard"}

Links(p) ==
    CASE p = "/"              -> {"/user/login", "/driver/login"}
      [] p = "/user/login"    -> {"/", "/user/signup", "/driver/login"}
      [] p = "/driver/login"  -> {"/", "/driver/signup", "/user/login"}
      [] p = "/driver/signup" -> {"/driver/login"}
      [] OTHER                -> {}

Logins == {"userLogin", "captainLogin", "captainSignup"}
ForDrivers == {"captainDetails", "driverPoll"}      \* behind RequireRole
Authenticated == {"me", "poll", "driverPoll", "captainDetails"}
Ops == Logins \cup Authenticated

\* here: sent by the form that is on the screen now; issued: the token that
\* the answer of a login or a signup brings, once its headers are there.
Call == [op : Ops, cred : Tokens \cup {NULL}, here : BOOLEAN, issued : Tokens \cup {NULL}]

ASSUME BoundAssumption == {MaxTokens, MaxCalls, MaxMishaps} \subseteq Nat

\* NULL is none of the values it stands beside.
ASSUME NullAssumption == NULL \notin Tokens /\ NULL \notin Roles /\ NULL \notin Call

\* The header if there is a token, else the cookie; a bad token in the header
\* is not rescued by a good cookie.
Credential(tok) == IF tok # NULL THEN tok ELSE cookie
Valid(cred) == cred \in Tokens /\ cred \notin expired

Free == {s \in Slots : calls[s] = NULL}
FirstFree == CHOOSE s \in Free : \A t \in Free : s <= t
Loading == \E s \in Slots : calls[s] # NULL /\ calls[s].here
UnderWay == nav > 0 \/ \E s \in Slots : calls[s] # NULL

Mishap == mishaps < MaxMishaps /\ mishaps' = mishaps + 1

-----------------------------------------------------------------------------
\* A new document at path p with tok in localStorage.  /user/signup throws in
\* its first render (useContext is not imported): nothing is mounted and no
\* effect runs.  Elsewhere loadUser asks who the token belongs to.
Load(p, tok) ==
    /\ page' = p
    /\ mounted' = (p # "/user/signup")
    /\ nav' = 0
    /\ calls' = [s \in Slots |->
           IF s = 1 /\ mounted' /\ tok # NULL
           THEN [op |-> "me", cred |-> tok, here |-> FALSE, issued |-> NULL] ELSE NULL]

\* The router shows another page: the document and its requests live on.
Left == [s \in Slots |-> IF calls[s] = NULL THEN NULL ELSE [calls[s] EXCEPT !.here = FALSE]]
Navigate(p) == page' = p /\ calls' = Left

Send(op, here) ==
    /\ Free # {}
    /\ calls' = [calls EXCEPT ![FirstFree] =
           [op |-> op, cred |-> Credential(token), here |-> here, issued |-> NULL]]

\* The user types an address or reloads: a mishap if it cuts something off.
Visit(p) ==
    /\ IF UnderWay THEN Mishap ELSE UNCHANGED mishaps
    /\ Load(p, token)
    /\ UNCHANGED <<token, cookie, owner, expired>>

\* The page is restored; localStorage survives, a cookie without an age does not.
RestartBrowser ==
    /\ cookie # NULL
    /\ Mishap
    /\ cookie' = NULL
    /\ Load(page, token)
    /\ UNCHANGED <<token, owner, expired>>

FollowLink(p) ==
    /\ mounted
    /\ p \in Links(page) \ {"/user/signup"}
    /\ Navigate(p)
    /\ UNCHANGED <<token, cookie, owner, expired, mounted, nav, mishaps>>

\* The render throws and there is no error boundary: React unmounts the tree.
FollowLinkToUserSignup ==
    /\ mounted
    /\ "/user/signup" \in Links(page)
    /\ Navigate("/user/signup")
    /\ mounted' = FALSE
    /\ UNCHANGED <<token, cookie, owner, expired, nav, mishaps>>

HandleLogout ==
    /\ mounted
    /\ page \in {"/user/home", "/driver/dashboard"}
    /\ token' = NULL
    /\ Navigate("/")
    /\ UNCHANGED <<cookie, owner, expired, mounted, nav, mishaps>>

\* A form is sent once at a time: its button is disabled meanwhile.
Submit(p, op) ==
    /\ mounted
    /\ page = p
    /\ ~Loading
    /\ Send(op, TRUE)
    /\ UNCHANGED <<token, cookie, owner, expired, page, mounted, nav, mishaps>>

UserLogin == Submit("/user/login", "userLogin")
CaptainLogin == Submit("/driver/login", "captainLogin")
CaptainSignup == Submit("/driver/signup", "captainSignup")
CaptainDetails == Submit("/captain-details", "captainDetails")

\* What a page asks on mount and at an interval.
Poll(p, op) ==
    /\ mounted
    /\ page = p
    /\ Send(op, FALSE)
    /\ UNCHANGED <<token, cookie, owner, expired, page, mounted, nav, mishaps>>

FetchDrivers == Poll("/", "poll")
FetchActive == token # NULL /\ Poll("/user/home", "poll")     \* it asks with a token only
FetchNearby == Poll("/user/home", "poll")       \* the profile and the map, not in every panel
FetchDashboard == Poll("/driver/dashboard", "driverPoll")

\* navigate works for a component that is gone, and in a crashed document it
\* changes the path only.
NavTimerFires ==
    /\ nav > 0
    /\ nav' = nav - 1
    /\ Navigate("/user/home")
    /\ UNCHANGED <<token, cookie, owner, expired, mounted, mishaps>>

Expire(t) ==
    /\ owner[t] # NULL /\ t \notin expired
    /\ Mishap
    /\ expired' = expired \cup {t}
    /\ UNCHANGED <<token, cookie, owner, page, mounted, nav, calls>>

-----------------------------------------------------------------------------
\* The answers.  A request is checked when its answer arrives: when exactly
\* in between makes no difference but to a token that expires meanwhile.

Ended(s, reqs) == [reqs EXCEPT ![s] = NULL]

\* Mutant: a cookie that is there is kept.
IssuedBesideOld(s, op, role) ==
    \E t \in Tokens :
        /\ calls[s].op = op /\ calls[s].issued = NULL
        /\ owner[t] = NULL /\ \A u \in Tokens : u < t => owner[u] # NULL
        /\ owner' = [owner EXCEPT ![t] = role]
        /\ cookie' = (IF cookie = NULL THEN t ELSE cookie)
        /\ calls' = [calls EXCEPT ![s].issued = t]
        /\ UNCHANGED <<token, expired, page, mounted, nav, mishaps>>

\* A login or a signup issues a token.  The headers of its answer set the
\* cookie; the page has yet to read the body.
Issued(s, op, role) ==
    \E t \in Tokens :
        /\ calls[s].op = op /\ calls[s].issued = NULL
        /\ owner[t] = NULL /\ \A u \in Tokens : u < t => owner[u] # NULL
        /\ owner' = [owner EXCEPT ![t] = role]
        /\ cookie' = t
        /\ calls' = [calls EXCEPT ![s].issued = t]
        /\ UNCHANGED <<token, expired, page, mounted, nav, mishaps>>

LoginServed(s) ==
    \/ Issued(s, "userLogin", "rider")
    \/ Issued(s, "captainLogin", "driver") \/ Issued(s, "captainSignup", "driver")

\* The await resolves, and localStorage gets the token.  Timers, other answers
\* or a page load may have come in between.
TokenStored(s, op) ==
    /\ calls[s].op = op /\ calls[s].issued # NULL
    /\ token' = calls[s].issued
    /\ UNCHANGED <<cookie, owner, expired, mounted, mishaps>>

GoesTo(s, p) == page' = p /\ calls' = Ended(s, Left) /\ UNCHANGED nav

\* The rider goes home 100 ms later, the driver at once.
UserLoggedIn(s) ==
    /\ TokenStored(s, "userLogin")
    /\ nav' = nav + 1
    /\ calls' = Ended(s, calls)
    /\ UNCHANGED page

CaptainLoggedIn(s) == TokenStored(s, "captainLogin") /\ GoesTo(s, "/driver/dashboard")
CaptainSignedUp(s) == TokenStored(s, "captainSignup") /\ GoesTo(s, "/captain-details")

\* A wrong password, or an address that is taken: an error of its own.
LoginRefused(s) ==
    /\ calls[s].op \in Logins /\ calls[s].issued = NULL
    /\ calls' = Ended(s, calls)
    /\ UNCHANGED <<token, cookie, owner, expired, page, mounted, nav, mishaps>>

Forbidden(s) ==
    /\ calls[s].op \in ForDrivers
    /\ Valid(calls[s].cred) /\ owner[calls[s].cred] # "driver"

\* Mutant: the response interceptor takes a 403 for a 401.
AnsweredOrLoggedOut(s) ==
    /\ calls[s].op \in Authenticated /\ Valid(calls[s].cred)
    /\ calls[s].op = "captainDetails" => Forbidden(s)
    /\ token' = IF Forbidden(s) THEN NULL ELSE token
    /\ calls' = Ended(s, calls)
    /\ UNCHANGED <<cookie, owner, expired, page, mounted, nav, mishaps>>

\* A role that is refused is an error like others.
Answered(s) ==
    /\ calls[s].op \in Authenticated /\ Valid(calls[s].cred)
    /\ calls[s].op = "captainDetails" => Forbidden(s)
    /\ calls' = Ended(s, calls)
    /\ UNCHANGED <<token, cookie, owner, expired, page, mounted, nav, mishaps>>

DriverProfileCreated(s) ==
    /\ calls[s].op = "captainDetails"
    /\ Valid(calls[s].cred) /\ ~Forbidden(s)
    /\ GoesTo(s, "/driver/dashboard")
    /\ UNCHANGED <<token, cookie, owner, expired, mounted, mishaps>>

Unauthorized(s) ==
    /\ calls[s].op \in Authenticated /\ ~Valid(calls[s].cred)
    /\ token' = NULL
    /\ UNCHANGED <<cookie, owner, expired, mishaps>>

\* The interceptor forgets the token, whichever the request carried ...
UnauthorizedStays(s) ==
    /\ page \in LoginPaths
    /\ Unauthorized(s)
    /\ calls' = Ended(s, calls)
    /\ UNCHANGED <<page, mounted, nav>>

\* Mutant: only who had a token is sent to the login page.
UnauthorizedLeavesWithToken(s) ==
    /\ page \notin LoginPaths
    /\ Unauthorized(s)
    /\ token # NULL
    /\ Load(IF page \in DriverPaths THEN "/driver/login" ELSE "/user/login", NULL)

\* ... and sends everyone but the login pages to one.
UnauthorizedLeaves(s) ==
    /\ page \notin LoginPaths
    /\ Unauthorized(s)
    /\ Load(IF page \in DriverPaths THEN "/driver/login" ELSE "/user/login", NULL)

\* The network, or a 5xx: loadUser forgets the token at any error.
Failed(s) ==
    /\ calls[s].op \in Authenticated
    /\ Mishap
    /\ token' = IF calls[s].op = "me" THEN NULL ELSE token
    /\ calls' = Ended(s, calls)
    /\ UNCHANGED <<cookie, owner, expired, page, mounted, nav>>

-----------------------------------------------------------------------------
SessionInit ==
    /\ token = NULL /\ cookie = NULL
    /\ owner = [t \in Tokens |-> NULL]
    /\ expired = {}
    /\ page \in Pages
    /\ mounted = (page # "/user/signup")
    /\ nav = 0
    /\ calls = [s \in Slots |-> NULL]
    /\ mishaps = 0

AnswerStays(s) ==
    /\ calls[s] # NULL
    /\ \/ LoginServed(s) \/ LoginRefused(s)
       \/ UserLoggedIn(s) \/ CaptainLoggedIn(s) \/ CaptainSignedUp(s)
       \/ Answered(s) \/ DriverProfileCreated(s)
       \/ UnauthorizedStays(s) \/ Failed(s)
AnswerLoads(s) == calls[s] # NULL /\ UnauthorizedLeaves(s)

\* Within a document ...
Stays ==
    \/ \E p \in Pages : FollowLink(p)
    \/ HandleLogout \/ NavTimerFires
    \/ UserLogin \/ CaptainLogin \/ CaptainSignup \/ CaptainDetails
    \/ FetchDrivers \/ FetchActive \/ FetchNearby \/ FetchDashboard
    \/ \E t \in Tokens : Expire(t)
    \/ \E s \in Slots : AnswerStays(s)

\* ... and into a new one.
Loads ==
    \/ RestartBrowser \/ \E p \in Pages : Visit(p)
    \/ \E s \in Slots : AnswerLoads(s)

SessionTypeOK ==
    /\ {token, cookie} \subseteq Tokens \cup {NULL}
    /\ owner \in [Tokens -> Roles \cup {NULL}]
    /\ expired \subseteq Tokens
    /\ page \in Pages
    /\ mounted \in BOOLEAN
    /\ nav \in Nat
    /\ calls \in [Slots -> Call \cup {NULL}]
    /\ mishaps \in 0..MaxMishaps
=============================================================================

------------------------------- MODULE Payments -------------------------------
(***************************************************************************)
(* Payments: CreatePaymentOrder, VerifyPayment, ProcessCashPayment and     *)
(* ProcessUPIPayment of service/payment.go, run by concurrent requests     *)
(* over the tables payments and rides.                                     *)
(*                                                                         *)
(* Every request reads its payment in one statement, decides, writes the   *)
(* payment in a second statement and the ride in a third, each a           *)
(* transaction of its own.  repository.Update writes the status and the    *)
(* gateway's columns together, with whatever the first statement has read  *)
(* in the columns that the request does not change.                        *)
(*                                                                         *)
(* These are the steps of the service.  As the program is built no request *)
(* gets to it: the handlers call c.Validate (handler/payment.go:45, 78,    *)
(* 112, 148) and NewRouter (router/router.go:20) gives echo no validator,  *)
(* which is an error of its own.  The module is what runs once it does.    *)
(***************************************************************************)
EXTENDS FiniteSets

CONSTANTS
    Riders,     \* users.id
    Rides,      \* rides.id of the rides there are
    Owner,      \* rides.user_id, which never changes
    Payments,   \* payments.id
    Handlers,   \* the goroutines that run requests
    SecretSet,  \* TRUE iff RAZORPAY_KEY_SECRET is set
    Calls,      \* what clients ask for, see CallsAssumption
    Faults,     \* the failures considered: "db" and "crash"
    NULL

ASSUME OwnerAssumption == Owner \in [Rides -> Riders]

\* A verification carries a signature that is the gateway's, or is not.
ASSUME CallsAssumption == Calls \subseteq {"cash", "upi", "valid", "invalid"}

ASSUME SettingAssumption ==
    /\ SecretSet \in BOOLEAN
    /\ Faults \subseteq {"db", "crash"}

ASSUME NullAssumption == NULL \notin Riders \cup Rides \cup Payments \cup Handlers

VARIABLES
    payment,    \* the rows of the payments table
    paid,       \* rides.payment_id; NULL iff rides.payment_status is pending
    req,        \* where each handler is in the request it runs
    captured,   \* history: the payments that some UPDATE has captured
    confirmed   \* history: the payments whose rider was told that they went through

vars == <<payment, paid, req, captured, confirmed>>

-----------------------------------------------------------------------------
(* The payments table *)

\* authorized and refunded are never written; card and wallet go the way of upi.
Statuses == {"created", "pending", "captured", "failed"}
Methods == {"cash", "upi"}

\* razorpay_payment_id and razorpay_signature, which are always written together.
Proofs == {"none", "valid", "invalid"}

Row == [ride : Rides, user : Riders, method : Methods, status : Statuses, proof : Proofs]

ASSUME NullIsNoRow == NULL \notin Row

(* Requests *)

\* status and proof are what the UPDATE of the payment is going to write.
Request == [step : {"update", "settle"}, payment : Payments, status : Statuses, proof : Proofs]

ASSUME NullIsNoRequest == NULL \notin Request

Begin(h, p, status, proof) ==
    /\ req[h] = NULL
    /\ req' = [req EXCEPT ![h] =
                  [step |-> "update", payment |-> p, status |-> status, proof |-> proof]]
    /\ UNCHANGED <<payment, paid, captured, confirmed>>

Return(h) == req' = [req EXCEPT ![h] = NULL]

-----------------------------------------------------------------------------
(* CreatePaymentOrder *)

\* Mutant: the owner of the ride is not checked.
CreatePaymentOrderForAny(u, r, p, method) ==
    /\ payment[p] = NULL
    /\ payment' = [payment EXCEPT ![p] =
                      [ride |-> r, user |-> u, method |-> method, proof |-> "none",
                       status |-> IF method = "cash" THEN "pending" ELSE "created"]]
    /\ UNCHANGED <<paid, req, captured, confirmed>>

\* GetByID of the ride, whose owner never changes, and the INSERT.  A ride may
\* get any number of payments.  When the answer is lost, the row is there.
CreatePaymentOrder(u, r, p, method) ==
    /\ Owner[r] = u
    /\ payment[p] = NULL
    /\ payment' = [payment EXCEPT ![p] =
                      [ride |-> r, user |-> u, method |-> method, proof |-> "none",
                       status |-> IF method = "cash" THEN "pending" ELSE "created"]]
    /\ UNCHANGED <<paid, req, captured, confirmed>>

(* VerifyPayment: the SELECT and the check of the signature *)

VerifyPayment(h, p, proof) ==
    /\ proof \in Calls
    /\ payment[p] # NULL
    /\ IF SecretSet /\ proof = "invalid"
       THEN Begin(h, p, "failed", payment[p].proof)
       ELSE Begin(h, p, "captured", proof)

(* ProcessCashPayment: the SELECT and the checks *)

\* Mutant: the method of the payment is not checked.
ProcessCashPaymentAnyMethod(h, u, p) ==
    /\ "cash" \in Calls
    /\ payment[p] # NULL
    /\ payment[p].user = u
    /\ Begin(h, p, "captured", payment[p].proof)

ProcessCashPayment(h, u, p) ==
    /\ "cash" \in Calls
    /\ payment[p] # NULL
    /\ payment[p].user = u
    /\ payment[p].method = "cash"
    /\ Begin(h, p, "captured", payment[p].proof)

(* ProcessUPIPayment: the SELECT and the check; any method, any status *)

ProcessUPIPayment(h, u, p) ==
    /\ "upi" \in Calls
    /\ payment[p] # NULL
    /\ payment[p].user = u
    /\ Begin(h, p, "pending", payment[p].proof)

-----------------------------------------------------------------------------
(* repository.Update: UPDATE payments ... WHERE id *)

Written(h) ==
    /\ payment' = [payment EXCEPT ![req[h].payment] =
                      [@ EXCEPT !.status = req[h].status, !.proof = req[h].proof]]
    /\ captured' = IF req[h].status = "captured"
                   THEN captured \cup {req[h].payment} ELSE captured

\* Mutant: a payment that is not captured is settled as well.
UpdateSettlesAll(h, answered) ==
    /\ req[h] # NULL
    /\ req[h].step = "update"
    /\ answered \/ "db" \in Faults
    /\ Written(h)
    /\ IF answered THEN req' = [req EXCEPT ![h].step = "settle"] ELSE Return(h)
    /\ UNCHANGED <<paid, confirmed>>

\* When the answer to the UPDATE is lost, the row is written and the request
\* ends; so does one that has written failed or pending.
Update(h, answered) ==
    /\ req[h] # NULL
    /\ req[h].step = "update"
    /\ answered \/ "db" \in Faults
    /\ Written(h)
    /\ IF answered /\ req[h].status = "captured"
       THEN req' = [req EXCEPT ![h].step = "settle"]
       ELSE Return(h)
    /\ UNCHANGED <<paid, confirmed>>

(* GetByID of the ride, and UpdatePaymentStatus: UPDATE rides ... WHERE id *)

Settle(h, answered) ==
    LET p == req[h].payment IN
    /\ req[h] # NULL
    /\ req[h].step = "settle"
    /\ answered \/ "db" \in Faults
    /\ paid' = [paid EXCEPT ![payment[p].ride] = p]
    /\ confirmed' = IF answered THEN confirmed \cup {p} ELSE confirmed
    /\ Return(h)
    /\ UNCHANGED <<payment, captured>>

(* Failures *)

\* Mutant: the error of the UPDATE of the ride is ignored.
FailUnnoticed(h) ==
    /\ "db" \in Faults
    /\ req[h] # NULL
    /\ confirmed' = IF req[h].step = "settle" THEN confirmed \cup {req[h].payment} ELSE confirmed
    /\ Return(h)
    /\ UNCHANGED <<payment, paid, captured>>

\* The next statement of h fails, or the client has gone and its context ends.
Fail(h) ==
    /\ "db" \in Faults
    /\ req[h] # NULL
    /\ Return(h)
    /\ UNCHANGED <<payment, paid, captured, confirmed>>

\* The process stops; nothing of a request outlives it but what it has written.
Crash ==
    /\ "crash" \in Faults
    /\ req # [h \in Handlers |-> NULL]
    /\ req' = [h \in Handlers |-> NULL]
    /\ UNCHANGED <<payment, paid, captured, confirmed>>

-----------------------------------------------------------------------------
Init ==
    /\ payment = [p \in Payments |-> NULL]
    /\ paid = [r \in Rides |-> NULL]
    /\ req = [h \in Handlers |-> NULL]
    /\ captured = {}
    /\ confirmed = {}

Call ==
    \/ \E u \in Riders, r \in Rides, p \in Payments, method \in Methods :
          CreatePaymentOrder(u, r, p, method)
    \/ \E h \in Handlers, p \in Payments, proof \in {"valid", "invalid"} :
          VerifyPayment(h, p, proof)
    \/ \E h \in Handlers, u \in Riders, p \in Payments :
          ProcessCashPayment(h, u, p) \/ ProcessUPIPayment(h, u, p)

Proceed(h) ==
    \/ \E answered \in BOOLEAN : Update(h, answered) \/ Settle(h, answered)
    \/ Fail(h)

Next == Call \/ (\E h \in Handlers : Proceed(h)) \/ Crash

Spec == Init /\ [][Next]_vars

-----------------------------------------------------------------------------
(* What the payments promise *)

\* A payment is made by the rider of its ride (payment.go:60), however many
\* payments a ride has; the other conjuncts are types.
TypeOK ==
    /\ payment \in [Payments -> Row \cup {NULL}]
    /\ \A p \in Payments : payment[p] # NULL => payment[p].user = Owner[payment[p].ride]
    /\ paid \in [Rides -> Payments \cup {NULL}]
    /\ req \in [Handlers -> Request \cup {NULL}]
    /\ captured \subseteq Payments
    /\ confirmed \subseteq Payments

\* rides.payment_id names a payment of that ride which was captured, whatever
\* other requests have made of it since: the ride is only written behind the
\* payment (payment.go:142, 186), also when statements fail or the process dies.
PaidWasCaptured ==
    \A r \in Rides : paid[r] # NULL =>
        /\ paid[r] \in captured
        /\ payment[paid[r]].ride = r

\* An online payment that stands as captured carries the gateway's payment id
\* and a signature that was checked (payment.go:129): no request that wrote the
\* columns back as it had read them has wiped them out under the capture.
CapturedIsProven ==
    \A p \in Payments :
        payment[p] # NULL /\ payment[p].method # "cash" /\ payment[p].status = "captured" =>
            /\ payment[p].proof # "none"
            /\ SecretSet => payment[p].proof = "valid"

\* A rider who was told that a payment went through (payment.go:156, 200) has
\* a paid ride, paid by a captured payment, whatever fails before or after.
ConfirmedIsPaid ==
    \A p \in confirmed : p \in captured /\ paid[payment[p].ride] # NULL

\* The status captured is final: a payment that has it is never made pending or
\* failed again.  PAYMENT_INTEGRATION.md:214 has status transitions validated.
CapturedIsFinal ==
    [][\A p \in Payments :
          payment[p] # NULL /\ payment[p].status = "captured" => payment'[p].status = "captured"]_vars
=============================================================================

---------------------------- MODULE PaymentsProofs ----------------------------
(***************************************************************************)
(* Theorems about Payments, for any number of riders, rides, payments and  *)
(* handlers, every setting and every kind of failure.                      *)
(***************************************************************************)
EXTENDS Payments, TLAPS

\* What an online payment must carry to be captured.
Proven(proof) == proof # "none" /\ (SecretSet => proof = "valid")

\* A request works on a payment that exists; it only settles what it has
\* captured; and it only captures an online payment with a proof in hand.
RequestsSound ==
    \A h \in Handlers : req[h] # NULL =>
        /\ payment[req[h].payment] # NULL
        /\ req[h].step = "settle" => req[h].payment \in captured
        /\ req[h].status = "captured" =>
              payment[req[h].payment].method = "cash" \/ Proven(req[h].proof)

CapturedExist == \A p \in captured : payment[p] # NULL

PInv ==
    /\ TypeOK
    /\ RequestsSound
    /\ CapturedExist
    /\ PaidWasCaptured
    /\ CapturedIsProven
    /\ ConfirmedIsPaid

\* What the immutable columns of a row tell: rows are never deleted, and their
\* ride, user and method never change.
RowsKept ==
    \A p \in Payments : payment[p] # NULL =>
        /\ payment'[p] # NULL
        /\ payment'[p].ride = payment[p].ride
        /\ payment'[p].user = payment[p].user
        /\ payment'[p].method = payment[p].method

-----------------------------------------------------------------------------
(* The steps of a request *)

\* A request of h begins on a payment that is there.
LEMMA BeginKeeps ==
  ASSUME PInv, NEW h \in Handlers, NEW p \in Payments, payment[p] # NULL,
         NEW status \in Statuses, NEW proof \in Proofs,
         status = "captured" => payment[p].method = "cash" \/ Proven(proof),
         Begin(h, p, status, proof)
  PROVE  PInv'
PROOF
  <1> USE DEF PInv, Begin
  <1>1. TypeOK'
    <2>1. [step |-> "update", payment |-> p, status |-> status, proof |-> proof] \in Request
      BY DEF Request
    <2> QED BY <2>1 DEF TypeOK
  <1>2. RequestsSound'
    BY DEF RequestsSound, TypeOK
  <1> QED BY <1>1, <1>2 DEF CapturedExist, PaidWasCaptured, CapturedIsProven, ConfirmedIsPaid

\* A request that ends, or is cut off, leaves the tables alone.
LEMMA EndKeeps ==
  ASSUME PInv, UNCHANGED <<payment, paid, captured, confirmed>>,
         req' \in [Handlers -> Request \cup {NULL}],
         \A h \in Handlers : req'[h] \in {req[h], NULL}
  PROVE  PInv'
  BY DEF PInv, TypeOK, RequestsSound, CapturedExist, PaidWasCaptured, CapturedIsProven,
         ConfirmedIsPaid

LEMMA CreateKeeps ==
  ASSUME PInv, NEW u \in Riders, NEW r \in Rides, NEW p \in Payments, NEW method \in Methods,
         CreatePaymentOrder(u, r, p, method)
  PROVE  PInv'
PROOF
  <1> USE DEF PInv, CreatePaymentOrder
  <1>1. PICK row \in Row : /\ row.ride = r /\ row.user = u
                           /\ row.status # "captured"
                           /\ payment' = [payment EXCEPT ![p] = row]
    <2>1. PICK row : row = [ride |-> r, user |-> u, method |-> method, proof |-> "none",
                            status |-> IF method = "cash" THEN "pending" ELSE "created"]
      OBVIOUS
    <2>2. row \in Row /\ row.ride = r /\ row.user = u /\ row.status # "captured"
      BY <2>1 DEF Row, Statuses, Proofs
    <2>3. payment' = [payment EXCEPT ![p] = row]
      BY <2>1
    <2> QED BY <2>2, <2>3
  <1>2. row # NULL
    BY <1>1, NullIsNoRow
  <1>3. \A q \in Payments : payment[q] # NULL => payment'[q] = payment[q]
    BY <1>1 DEF TypeOK
  <1>4. TypeOK'
    BY <1>1 DEF TypeOK
  <1>5. RequestsSound'
    BY <1>3 DEF RequestsSound, TypeOK, Request
  <1>6. CapturedExist' /\ PaidWasCaptured' /\ ConfirmedIsPaid'
    BY <1>3 DEF CapturedExist, PaidWasCaptured, ConfirmedIsPaid, TypeOK
  <1>7. CapturedIsProven'
    BY <1>1 DEF CapturedIsProven, TypeOK
  <1> QED BY <1>4, <1>5, <1>6, <1>7

\* What the UPDATE of a payment does to its row, and to no other.
LEMMA WrittenRow ==
  ASSUME PInv, NEW h \in Handlers, req[h] # NULL, Written(h)
  PROVE  /\ req[h].payment \in Payments
         /\ payment' \in [Payments -> Row \cup {NULL}]
         /\ payment'[req[h].payment].status = req[h].status
         /\ payment'[req[h].payment].proof = req[h].proof
         /\ \A q \in Payments \ {req[h].payment} : payment'[q] = payment[q]
         /\ RowsKept
PROOF
  <1> DEFINE p == req[h].payment
  <1>1. req[h] \in Request /\ p \in Payments
    BY DEF PInv, TypeOK, Request
  <1>2. payment[p] \in Row
    BY <1>1 DEF PInv, TypeOK, RequestsSound
  <1>3. PICK row : row = [payment[p] EXCEPT !.status = req[h].status, !.proof = req[h].proof]
    OBVIOUS
  <1>4. row \in Row
    BY <1>1, <1>2, <1>3 DEF Row, Request
  <1>5. /\ row.status = req[h].status /\ row.proof = req[h].proof
        /\ row.ride = payment[p].ride /\ row.user = payment[p].user
        /\ row.method = payment[p].method
    BY <1>2, <1>3 DEF Row
  <1>6. payment' = [payment EXCEPT ![p] = row]
    BY <1>3 DEF Written
  <1>7. row # NULL
    BY <1>4, NullIsNoRow
  <1>8. payment'[p] = row /\ \A q \in Payments \ {p} : payment'[q] = payment[q]
    BY <1>1, <1>6 DEF PInv, TypeOK
  <1> QED BY <1>1, <1>4, <1>5, <1>6, <1>7, <1>8 DEF PInv, TypeOK, RowsKept

LEMMA UpdateKeeps ==
  ASSUME PInv, NEW h \in Handlers, NEW answered \in BOOLEAN, Update(h, answered)
  PROVE  PInv'
PROOF
  <1> DEFINE p == req[h].payment
  <1>1. /\ req[h] # NULL /\ Written(h) /\ UNCHANGED <<paid, confirmed>>
        /\ p \in Payments /\ payment[p] # NULL /\ req[h] \in Request
    BY DEF Update, PInv, TypeOK, RequestsSound, Request
  <1>2. /\ payment' \in [Payments -> Row \cup {NULL}] /\ RowsKept
        /\ payment'[p].status = req[h].status /\ payment'[p].proof = req[h].proof
        /\ \A q \in Payments \ {p} : payment'[q] = payment[q]
    BY <1>1, WrittenRow
  <1>3. captured \subseteq captured' /\ captured' \subseteq captured \cup {p}
    BY <1>1 DEF Written
  <1>4. /\ req' \in [Handlers -> Request \cup {NULL}]
        /\ \A i \in Handlers \ {h} : req'[i] = req[i]
        /\ \/ req'[h] = NULL
           \/ /\ p \in captured'
              /\ req'[h].payment = p /\ req'[h].status = req[h].status
              /\ req'[h].proof = req[h].proof
    <2>1. CASE req' = [req EXCEPT ![h] = NULL]
      BY <2>1 DEF PInv, TypeOK
    <2>2. CASE /\ req' = [req EXCEPT ![h].step = "settle"]
               /\ req[h].status = "captured"
      <3>1. PICK row : row = [req[h] EXCEPT !.step = "settle"]
        OBVIOUS
      <3>2. /\ row \in Request
            /\ row.payment = p /\ row.status = req[h].status /\ row.proof = req[h].proof
        BY <1>1, <3>1 DEF Request
      <3>3. req' = [req EXCEPT ![h] = row]
        BY <2>2, <3>1
      <3>4. p \in captured'
        BY <1>1, <2>2 DEF Written
      <3> QED BY <3>2, <3>3, <3>4 DEF PInv, TypeOK
    <2> QED BY <2>1, <2>2 DEF Update, Return
  <1>5. TypeOK'
    BY <1>1, <1>2, <1>3, <1>4 DEF PInv, TypeOK, RowsKept
  <1>6. RequestsSound'
    <2> SUFFICES ASSUME NEW i \in Handlers, req'[i] # NULL
                 PROVE  /\ payment'[req'[i].payment] # NULL
                        /\ req'[i].step = "settle" => req'[i].payment \in captured'
                        /\ req'[i].status = "captured" =>
                              payment'[req'[i].payment].method = "cash" \/ Proven(req'[i].proof)
      BY DEF RequestsSound, Proven
    <2>1. CASE i = h
      BY <1>1, <1>2, <1>4, <2>1 DEF PInv, RequestsSound, RowsKept
    <2>2. CASE i # h
      <3>1. req'[i] = req[i] /\ req[i].payment \in Payments /\ payment[req[i].payment] # NULL
        BY <1>4, <2>2 DEF PInv, TypeOK, Request, RequestsSound
      <3> QED BY <1>2, <1>3, <3>1 DEF PInv, RequestsSound, RowsKept
    <2> QED BY <2>1, <2>2
  <1>7. CapturedExist'
    BY <1>1, <1>2, <1>3 DEF PInv, TypeOK, CapturedExist, RowsKept
  <1>8. PaidWasCaptured' /\ ConfirmedIsPaid'
    BY <1>1, <1>2, <1>3 DEF PInv, TypeOK, CapturedExist, PaidWasCaptured, ConfirmedIsPaid, RowsKept
  <1>9. CapturedIsProven'
    <2> SUFFICES ASSUME NEW q \in Payments, payment'[q] # NULL, payment'[q].method # "cash",
                        payment'[q].status = "captured"
                 PROVE  Proven(payment'[q].proof)
      BY DEF CapturedIsProven, Proven
    <2>1. CASE q = p
      BY <1>1, <1>2, <2>1 DEF PInv, RequestsSound, RowsKept
    <2>2. CASE q # p
      BY <1>2, <2>2 DEF PInv, CapturedIsProven, Proven
    <2> QED BY <2>1, <2>2
  <1> QED BY <1>5, <1>6, <1>7, <1>8, <1>9 DEF PInv

LEMMA SettleKeeps ==
  ASSUME PInv, NEW h \in Handlers, NEW answered \in BOOLEAN, Settle(h, answered)
  PROVE  PInv'
PROOF
  <1> DEFINE p == req[h].payment
  <1>1. /\ p \in Payments /\ payment[p] # NULL /\ p \in captured
        /\ payment[p].ride \in Rides
    BY DEF Settle, PInv, TypeOK, RequestsSound, Request, Row
  <1>2. /\ paid' = [paid EXCEPT ![payment[p].ride] = p]
        /\ confirmed \subseteq confirmed' /\ confirmed' \subseteq confirmed \cup {p}
        /\ req' = [req EXCEPT ![h] = NULL]
        /\ UNCHANGED <<payment, captured>>
    BY DEF Settle, Return
  <1>3. TypeOK'
    BY <1>1, <1>2 DEF PInv, TypeOK
  <1>4. RequestsSound'
    BY <1>2 DEF PInv, TypeOK, RequestsSound
  <1>5. CapturedExist' /\ CapturedIsProven'
    BY <1>2 DEF PInv, CapturedExist, CapturedIsProven
  <1>6. PaidWasCaptured'
    BY <1>1, <1>2 DEF PInv, TypeOK, PaidWasCaptured
  <1>7. p # NULL
    BY <1>1, NullAssumption
  <1>8. ConfirmedIsPaid'
    BY <1>1, <1>2, <1>7 DEF PInv, TypeOK, ConfirmedIsPaid, Row
  <1> QED BY <1>3, <1>4, <1>5, <1>6, <1>8 DEF PInv

-----------------------------------------------------------------------------
\* PInv is inductive.
THEOREM PaymentInvariant == Spec => []PInv
PROOF
  <1>1. Init => PInv
    BY DEF Init, PInv, TypeOK, RequestsSound, CapturedExist, PaidWasCaptured, CapturedIsProven,
           ConfirmedIsPaid
  <1>2. PInv /\ [Next]_vars => PInv'
    <2> SUFFICES ASSUME PInv, [Next]_vars PROVE PInv'
      OBVIOUS
    <2>1. CASE \E u \in Riders, r \in Rides, p \in Payments, method \in Methods :
                 CreatePaymentOrder(u, r, p, method)
      BY <2>1, CreateKeeps
    <2>2. ASSUME NEW h \in Handlers, NEW p \in Payments, NEW proof \in {"valid", "invalid"},
                 VerifyPayment(h, p, proof)
          PROVE  PInv'
      <3>1. payment[p] # NULL /\ payment[p].proof \in Proofs
        BY <2>2 DEF VerifyPayment, PInv, TypeOK, Row
      <3>2. CASE SecretSet /\ proof = "invalid"
        <4>1. Begin(h, p, "failed", payment[p].proof)
          BY <2>2, <3>2 DEF VerifyPayment
        <4> QED BY <3>1, <4>1, BeginKeeps DEF Statuses
      <3>3. CASE ~(SecretSet /\ proof = "invalid")
        <4>1. Begin(h, p, "captured", proof)
          BY <2>2, <3>3 DEF VerifyPayment
        <4>2. Proven(proof) /\ proof \in Proofs
          BY <3>3 DEF Proven, Proofs
        <4> QED BY <3>1, <4>1, <4>2, BeginKeeps DEF Statuses
      <3> QED BY <3>2, <3>3
    <2>3. ASSUME NEW h \in Handlers, NEW u \in Riders, NEW p \in Payments,
                 ProcessCashPayment(h, u, p)
          PROVE  PInv'
      <3>1. /\ payment[p] # NULL /\ payment[p].proof \in Proofs /\ payment[p].method = "cash"
            /\ Begin(h, p, "captured", payment[p].proof)
        BY <2>3 DEF ProcessCashPayment, PInv, TypeOK, Row
      <3> QED BY <3>1, BeginKeeps DEF Statuses
    <2>4. ASSUME NEW h \in Handlers, NEW u \in Riders, NEW p \in Payments,
                 ProcessUPIPayment(h, u, p)
          PROVE  PInv'
      <3>1. /\ payment[p] # NULL /\ payment[p].proof \in Proofs
            /\ Begin(h, p, "pending", payment[p].proof)
        BY <2>4 DEF ProcessUPIPayment, PInv, TypeOK, Row
      <3> QED BY <3>1, BeginKeeps DEF Statuses
    <2>5. ASSUME NEW h \in Handlers, Proceed(h)
          PROVE  PInv'
      <3>1. CASE Fail(h)
        BY <3>1, EndKeeps DEF Fail, Return, PInv, TypeOK
      <3> QED BY <2>5, <3>1, UpdateKeeps, SettleKeeps DEF Proceed
    <2>6. CASE Crash
      BY <2>6, EndKeeps DEF Crash
    <2>7. CASE UNCHANGED vars
      BY <2>7, EndKeeps DEF vars, PInv, TypeOK
    <2> QED BY <2>1, <2>2, <2>3, <2>4, <2>5, <2>6, <2>7 DEF Next, Call
  <1> QED BY <1>1, <1>2, PTL DEF Spec

\* Every reachable state is well typed, and every payment belongs to the rider
\* of its ride.
THEOREM TypeCorrect == Spec => []TypeOK
  BY PaymentInvariant, PTL DEF PInv

\* A ride is only ever paid by a payment of its own that was captured, whatever
\* statement failed and whenever the process died.
THEOREM PaidMeansCaptured == Spec => []PaidWasCaptured
  BY PaymentInvariant, PTL DEF PInv

\* No interleaving of rewrites leaves an online payment captured without its
\* checked signature.
THEOREM CapturedMeansProven == Spec => []CapturedIsProven
  BY PaymentInvariant, PTL DEF PInv

\* A success that a rider was told of is in both tables.
THEOREM ConfirmedMeansPaid == Spec => []ConfirmedIsPaid
  BY PaymentInvariant, PTL DEF PInv

-----------------------------------------------------------------------------
(* When a captured payment stays captured *)

\* Every request in flight is about to capture, or to settle what it has captured.
OnlyCaptures == \A h \in Handlers : req[h] # NULL => req[h].status = "captured"

\* The status captured is lost to two kinds of request only: a UPI initiation,
\* and a verification whose signature is refused.  Without them, as long as
\* clients call neither, it is final, whatever interleaves and fails.
THEOREM FinalWithoutRewrites ==
  ASSUME "upi" \notin Calls, SecretSet => "invalid" \notin Calls
  PROVE  Spec => CapturedIsFinal
PROOF
  <1> DEFINE Final == \A p \in Payments :
          payment[p] # NULL /\ payment[p].status = "captured" => payment'[p].status = "captured"
  <1>1. Init => OnlyCaptures
    BY DEF Init, OnlyCaptures
  <1>2. PInv /\ OnlyCaptures /\ [Next]_vars => OnlyCaptures' /\ [Final]_vars
    <2> SUFFICES ASSUME PInv, OnlyCaptures, [Next]_vars
                 PROVE  OnlyCaptures' /\ Final
      OBVIOUS
    <2> USE DEF PInv, TypeOK
    <2>1. CASE \E u \in Riders, r \in Rides, p \in Payments, method \in Methods :
                 CreatePaymentOrder(u, r, p, method)
      BY <2>1 DEF CreatePaymentOrder, OnlyCaptures
    <2>2. ASSUME NEW h \in Handlers, NEW p \in Payments, NEW proof \in {"valid", "invalid"},
                 VerifyPayment(h, p, proof)
          PROVE  OnlyCaptures' /\ Final
      <3>1. Begin(h, p, "captured", proof)
        BY <2>2 DEF VerifyPayment
      <3> QED BY <3>1 DEF Begin, OnlyCaptures
    <2>3. ASSUME NEW h \in Handlers, NEW u \in Riders, NEW p \in Payments,
                 ProcessCashPayment(h, u, p)
          PROVE  OnlyCaptures' /\ Final
      BY <2>3 DEF ProcessCashPayment, Begin, OnlyCaptures
    <2>4. ASSUME NEW h \in Handlers, NEW u \in Riders, NEW p \in Payments
          PROVE  ~ProcessUPIPayment(h, u, p)
      BY DEF ProcessUPIPayment
    <2>5. ASSUME NEW h \in Handlers, NEW answered \in BOOLEAN, Update(h, answered)
          PROVE  OnlyCaptures' /\ Final
      <3>1. /\ req[h] # NULL /\ Written(h) /\ req[h].status = "captured"
        BY <2>5 DEF Update, OnlyCaptures
      <3>2. Final
        <4>1. /\ payment'[req[h].payment].status = "captured"
              /\ \A q \in Payments \ {req[h].payment} : payment'[q] = payment[q]
          BY <3>1, WrittenRow
        <4> QED BY <4>1
      <3>3. CASE req' = [req EXCEPT ![h] = NULL]
        BY <3>2, <3>3 DEF OnlyCaptures
      <3>4. CASE req' = [req EXCEPT ![h].step = "settle"]
        <4>1. PICK moved : moved = [req[h] EXCEPT !.step = "settle"]
          OBVIOUS
        <4>2. req[h] \in Request /\ req' = [req EXCEPT ![h] = moved]
          BY <3>1, <3>4, <4>1
        <4>3. moved.status = req[h].status
          BY <4>1, <4>2 DEF Request
        <4> QED BY <3>1, <3>2, <4>2, <4>3 DEF OnlyCaptures
      <3> QED BY <2>5, <3>3, <3>4 DEF Update, Return
    <2>6. ASSUME NEW h \in Handlers, NEW answered \in BOOLEAN, Settle(h, answered)
          PROVE  OnlyCaptures' /\ Final
      BY <2>6 DEF Settle, Return, OnlyCaptures
    <2>7. ASSUME NEW h \in Handlers, Fail(h)
          PROVE  OnlyCaptures' /\ Final
      BY <2>7 DEF Fail, Return, OnlyCaptures
    <2>8. CASE Crash
      BY <2>8 DEF Crash, OnlyCaptures
    <2>9. CASE UNCHANGED vars
      BY <2>9 DEF vars, OnlyCaptures
    <2> QED BY <2>1, <2>2, <2>3, <2>4, <2>5, <2>6, <2>7, <2>8, <2>9 DEF Next, Call, Proceed
  <1> QED BY <1>1, <1>2, PaymentInvariant, PTL DEF Spec, CapturedIsFinal
-----------------------------------------------------------------------------
(* What only a failure leaves behind *)

\* A payment that has been captured has paid its ride, or a request is about
\* to make it do so.
CapturedIsSettled ==
    \A p \in captured :
        \/ paid[payment[p].ride] # NULL
        \/ \E h \in Handlers : req[h] # NULL /\ req[h].step = "settle" /\ req[h].payment = p

\* The money is taken and the ride stays unpaid (payment.go:142-152, 186-196)
\* only where the process dies or a statement fails between the two tables: as
\* long as neither happens, no interleaving of requests, on however many
\* payments of one ride, and no rewrite of a captured payment leaves it so.
THEOREM CapturedPaysUnlessFailed ==
  ASSUME Faults = {}
  PROVE  Spec => []CapturedIsSettled
PROOF
  <1>1. Init => CapturedIsSettled
    BY DEF Init, CapturedIsSettled
  <1>2. PInv /\ CapturedIsSettled /\ [Next]_vars => CapturedIsSettled'
    <2> SUFFICES ASSUME PInv, CapturedIsSettled, [Next]_vars
                 PROVE  CapturedIsSettled'
      OBVIOUS
    <2> DEFINE Settling(h, p) == req[h] # NULL /\ req[h].step = "settle" /\ req[h].payment = p
    <2> USE DEF PInv, TypeOK
    \* Until then, what settles a payment stays as it is.
    <2>1. ASSUME UNCHANGED <<paid, captured>>, RowsKept,
                 \A h \in Handlers : req[h] # NULL /\ req[h].step = "settle" => req'[h] = req[h]
          PROVE  CapturedIsSettled'
      BY <2>1 DEF CapturedIsSettled, CapturedExist, RowsKept
    <2>2. ASSUME NEW u \in Riders, NEW r \in Rides, NEW p \in Payments, NEW method \in Methods,
                 CreatePaymentOrder(u, r, p, method)
          PROVE  CapturedIsSettled'
      <3>1. UNCHANGED <<paid, captured, req>> /\ \A q \in Payments \ {p} : payment'[q] = payment[q]
        BY <2>2 DEF CreatePaymentOrder
      <3>2. p \notin captured
        BY <2>2 DEF CreatePaymentOrder, CapturedExist
      <3> QED BY <3>1, <3>2 DEF CapturedIsSettled
    <2>3. ASSUME NEW h \in Handlers, NEW p \in Payments, NEW status, NEW proof,
                 Begin(h, p, status, proof)
          PROVE  CapturedIsSettled'
      BY <2>1, <2>3 DEF Begin, RowsKept
    <2>4. ASSUME NEW h \in Handlers, NEW answered \in BOOLEAN, Update(h, answered)
          PROVE  CapturedIsSettled'
      <3> DEFINE p == req[h].payment
      <3>1. /\ answered /\ req[h] # NULL /\ req[h].step = "update" /\ Written(h)
            /\ paid' = paid /\ p \in Payments /\ payment[p] # NULL
        BY <2>4, WrittenRow DEF Update, RequestsSound
      <3>2. RowsKept
        BY <3>1, WrittenRow
      <3>3. CASE req[h].status = "captured"
        <4>1. PICK row : row = [req[h] EXCEPT !.step = "settle"]
          OBVIOUS
        <4>2. req[h] \in Request /\ req' = [req EXCEPT ![h] = row]
          BY <2>4, <3>1, <3>3, <4>1 DEF Update
        <4>3. row \in Request /\ row.step = "settle" /\ row.payment = p
          BY <4>1, <4>2 DEF Request
        <4>4. row # NULL
          BY <4>2, <4>3, NullIsNoRequest
        <4>5. \A q \in captured' : q \in captured \/ q = p
          BY <3>1 DEF Written
        <4> QED
          BY <3>1, <3>2, <4>2, <4>3, <4>4, <4>5 DEF CapturedIsSettled, CapturedExist, RowsKept
      <3>4. CASE req[h].status # "captured"
        BY <2>1, <2>4, <3>1, <3>2, <3>4 DEF Update, Written, Return
      <3> QED BY <3>3, <3>4
    <2>5. ASSUME NEW h \in Handlers, NEW answered \in BOOLEAN, Settle(h, answered)
          PROVE  CapturedIsSettled'
      <3> DEFINE p == req[h].payment
      <3>1. /\ p \in Payments /\ payment[p] # NULL /\ payment[p].ride \in Rides
        BY <2>5 DEF Settle, RequestsSound, Request, Row
      <3>2. p # NULL
        BY <3>1, NullAssumption
      <3>3. /\ paid' = [paid EXCEPT ![payment[p].ride] = p] /\ req' = [req EXCEPT ![h] = NULL]
            /\ UNCHANGED <<payment, captured>>
        BY <2>5 DEF Settle, Return
      <3>4. \A r \in Rides : paid[r] # NULL => paid'[r] # NULL
        BY <3>1, <3>2, <3>3
      <3>5. \A q \in captured : payment[q].ride \in Rides
        BY DEF CapturedExist, Row
      <3> QED BY <3>1, <3>2, <3>3, <3>4, <3>5 DEF CapturedIsSettled
    <2>6. ASSUME NEW h \in Handlers PROVE ~Fail(h)
      BY DEF Fail
    <2>7. ~Crash
      BY DEF Crash
    <2>8. CASE UNCHANGED vars
      BY <2>8 DEF vars, CapturedIsSettled
    <2>9. CASE \E h \in Handlers, p \in Payments, proof \in {"valid", "invalid"} :
                  VerifyPayment(h, p, proof)
      BY <2>3, <2>9 DEF VerifyPayment
    <2>10. CASE \E h \in Handlers, u \in Riders, p \in Payments :
                   ProcessCashPayment(h, u, p) \/ ProcessUPIPayment(h, u, p)
      BY <2>3, <2>10 DEF ProcessCashPayment, ProcessUPIPayment
    <2> QED BY <2>2, <2>4, <2>5, <2>6, <2>7, <2>8, <2>9, <2>10 DEF Next, Call, Proceed
  <1> QED BY <1>1, <1>2, PaymentInvariant, PTL DEF Spec
=============================================================================

------------------------------- MODULE HubProofs -------------------------------
(***************************************************************************)
(* Theorems about Hub, for any number of users, connections and broadcasts *)
(* and any size of the send buffers.                                       *)
(***************************************************************************)
EXTENDS Hub, SequenceTheorems, TLAPS

(***************************************************************************)
(* The backing arrays.                                                     *)
(***************************************************************************)

Slots == Conns \cup {NULL}

\* A function on 1 .. k is a sequence of that length.
LEMMA FunctionIsSeq ==
    ASSUME NEW S, NEW k \in Nat, NEW f \in [1 .. k -> S]
    PROVE  f \in Seq(S) /\ Len(f) = k
<1>1. f \in Seq(S)
  OBVIOUS
<1>2. QED
  BY <1>1, LenProperties

\* Appending a client leaves every slot alone but the one behind the slice's
\* last element, and puts the client there.
IsAppended(u, c, n, L, ar) ==
    /\ n \in Nat /\ L \in Nat
    /\ ar \in Seq(Seq(Slots))
    /\ Len(ar) >= L /\ Len(ar) >= 1
    /\ n < Len(ar[Len(ar)])
    /\ ar[Len(ar)][n + 1] = c
    /\ \A i \in 1 .. n : ar[Len(ar)][i] = Newest(u)[i]
    /\ \A j \in 1 .. L :
         /\ Len(ar[j]) = Len(arrays[u][j])
         /\ \A i \in 1 .. Len(ar[j]) :
              ar[j][i] = arrays[u][j][i] \/ (j = L /\ i = n + 1 /\ ar[j][i] = c)

\* What append returns is such an array.
LEMMA AppendedSlots ==
    ASSUME TypeOK, NEW u \in Users, NEW c \in Conns
    PROVE  IsAppended(u, c, size[u], Len(arrays[u]), Appended(u, c))
<1> SUFFICES ASSUME NEW n, n = size[u], NEW L, L = Len(arrays[u]),
                    NEW ar, ar = Appended(u, c)
             PROVE  IsAppended(u, c, n, L, ar)
  OBVIOUS
<1>1. /\ arrays[u] \in Seq(Seq(Slots))
      /\ n \in Nat
      /\ n <= Len(Newest(u))
      /\ L \in Nat
  BY DEF TypeOK, Slots
<1>2. Newest(u) \in Seq(Slots)
  BY <1>1 DEF Newest
<1>3. CASE n < Len(Newest(u))
  <2>1. L >= 1 /\ Newest(u) = arrays[u][L]
    BY <1>1, <1>3 DEF Newest
  <2>2. ar = [arrays[u] EXCEPT ![L] = [Newest(u) EXCEPT ![n + 1] = c]]
    BY <1>3 DEF Appended
  <2>3. [Newest(u) EXCEPT ![n + 1] = c] \in Seq(Slots)
    BY <1>1, <1>2, <1>3 DEF Slots
  <2>4. ar \in Seq(Seq(Slots)) /\ Len(ar) = L /\ ar[L] = [Newest(u) EXCEPT ![n + 1] = c]
    BY <1>1, <2>1, <2>2, <2>3
  <2>5. \A j \in 1 .. L : j # L => ar[j] = arrays[u][j]
    BY <1>1, <2>2
  <2>6. /\ Len(ar[L]) = Len(Newest(u))
        /\ \A i \in 1 .. Len(ar[L]) : ar[L][i] = IF i = n + 1 THEN c ELSE Newest(u)[i]
    BY <1>1, <1>2, <1>3, <2>4
  <2>7. /\ Len(ar) >= L /\ Len(ar) >= 1 /\ n < Len(ar[Len(ar)]) /\ ar[Len(ar)][n + 1] = c
        /\ \A i \in 1 .. n : ar[Len(ar)][i] = Newest(u)[i]
    BY <1>1, <1>3, <2>1, <2>4, <2>6
  <2>8. ASSUME NEW j \in 1 .. L
        PROVE  /\ Len(ar[j]) = Len(arrays[u][j])
               /\ \A i \in 1 .. Len(ar[j]) :
                    ar[j][i] = arrays[u][j][i] \/ (j = L /\ i = n + 1 /\ ar[j][i] = c)
    <3>1. CASE j = L
      BY <2>1, <2>6, <3>1
    <3>2. CASE j # L
      BY <2>5, <3>2
    <3>3. QED
      BY <3>1, <3>2
  <2>9. QED
    BY <1>1, <2>4, <2>7, <2>8 DEF IsAppended
<1>4. CASE ~(n < Len(Newest(u)))
  <2> DEFINE new == [i \in 1 .. (IF n = 0 THEN 1 ELSE 2 * n) |->
                        IF i <= n THEN Newest(u)[i] ELSE IF i = n + 1 THEN c ELSE NULL]
             k == IF n = 0 THEN 1 ELSE 2 * n
  <2>1. ar = Append(arrays[u], new)
    BY <1>4 DEF Appended
  <2>2. k \in Nat /\ n < k
    BY <1>1
  <2>3. \A i \in 1 .. k : new[i] \in Slots
    BY <1>1, <1>2 DEF Slots
  <2>4. new \in Seq(Slots) /\ Len(new) = k
    <3>1. new \in [1 .. k -> Slots]
      BY <2>3
    <3>2. QED
      BY ONLY <2>2, <3>1, FunctionIsSeq
  <2>5. /\ ar \in Seq(Seq(Slots)) /\ Len(ar) = L + 1 /\ ar[L + 1] = new
        /\ \A j \in 1 .. L : ar[j] = arrays[u][j]
    BY <1>1, <2>1, <2>4
  <2>6. new[n + 1] = c /\ \A i \in 1 .. n : new[i] = Newest(u)[i]
    BY <1>1, <2>2
  <2> HIDE DEF new, k
  <2>7. ar[Len(ar)] = new /\ Len(ar) >= L /\ Len(ar) >= 1
    BY <1>1, <2>5
  <2>8. \A j \in 1 .. L :
          /\ Len(ar[j]) = Len(arrays[u][j])
          /\ \A i \in 1 .. Len(ar[j]) : ar[j][i] = arrays[u][j][i]
    BY <2>5
  <2>9. n < Len(ar[Len(ar)]) /\ ar[Len(ar)][n + 1] = c
    BY <2>2, <2>4, <2>6, <2>7
  <2>10. \A i \in 1 .. n : ar[Len(ar)][i] = Newest(u)[i]
    BY <2>6, <2>7
  <2>11. QED
    BY <1>1, <2>5, <2>7, <2>8, <2>9, <2>10 DEF IsAppended
<1>5. QED
  BY <1>3, <1>4

\* Removing a client changes the slots of the newest array only: those behind
\* it move down by one, as far as the slice reaches.
IsRemoved(u, c, n, L, ar) ==
    /\ n \in Nat \ {0} /\ L \in Nat \ {0}
    /\ ar \in Seq(Seq(Slots))
    /\ Len(ar) = L
    /\ Len(ar[L]) = Len(Newest(u))
    /\ \A j \in 1 .. L : j # L => ar[j] = arrays[u][j]
    /\ \E i \in 1 .. n :
         /\ Newest(u)[i] = c
         /\ \A k \in 1 .. Len(Newest(u)) :
              ar[L][k] = IF i <= k /\ k < n THEN Newest(u)[k + 1] ELSE Newest(u)[k]

\* What the append that removes a client returns is such an array.
LEMMA RemovedSlots ==
    ASSUME TypeOK, NEW u \in Users, NEW c \in Conns,
           \E k \in 1 .. size[u] : Newest(u)[k] = c
    PROVE  IsRemoved(u, c, size[u], Len(arrays[u]), Removed(u, c))
<1> SUFFICES ASSUME NEW n, n = size[u], NEW L, L = Len(arrays[u]),
                    NEW ar, ar = Removed(u, c)
             PROVE  IsRemoved(u, c, n, L, ar)
  OBVIOUS
<1>1. /\ arrays[u] \in Seq(Seq(Slots))
      /\ n \in Nat
      /\ n <= Len(Newest(u))
      /\ L \in Nat
  BY DEF TypeOK, Slots
<1>2. n # 0
  BY <1>1
<1>3. L >= 1 /\ Newest(u) = arrays[u][L] /\ Newest(u) \in Seq(Slots)
  BY <1>1, <1>2 DEF Newest
<1> DEFINE i == CHOOSE k \in 1 .. n : Newest(u)[k] = c
           new == [k \in 1 .. Len(Newest(u)) |->
                     IF i <= k /\ k < n THEN Newest(u)[k + 1] ELSE Newest(u)[k]]
<1>4. i \in 1 .. n /\ Newest(u)[i] = c
  OBVIOUS
<1>5. ar = [arrays[u] EXCEPT ![L] = new]
  BY DEF Removed
<1> HIDE DEF i
<1>6. ASSUME NEW k \in 1 .. Len(Newest(u)) PROVE new[k] \in Slots
  <2>1. \A j \in 1 .. Len(Newest(u)) : Newest(u)[j] \in Slots
    BY <1>3
  <2>2. Len(Newest(u)) \in Nat
    BY <1>3
  <2>3. CASE i <= k /\ k < n
    <3>1. k + 1 \in 1 .. Len(Newest(u))
      BY <1>1, <2>2, <2>3
    <3>2. QED
      BY <2>1, <2>3, <3>1
  <2>4. CASE ~(i <= k /\ k < n)
    BY <2>1, <2>4
  <2>5. QED
    BY <2>3, <2>4
<1>7. new \in Seq(Slots) /\ Len(new) = Len(Newest(u))
  <2>1. new \in [1 .. Len(Newest(u)) -> Slots]
    BY <1>6
  <2>2. Len(Newest(u)) \in Nat
    BY <1>3
  <2>3. QED
    BY ONLY <2>1, <2>2, FunctionIsSeq
<1>8. /\ ar \in Seq(Seq(Slots)) /\ Len(ar) = L /\ ar[L] = new
      /\ \A j \in 1 .. L : j # L => ar[j] = arrays[u][j]
  BY <1>1, <1>3, <1>5, <1>7
<1>9. \A k \in 1 .. Len(Newest(u)) :
        ar[L][k] = IF i <= k /\ k < n THEN Newest(u)[k + 1] ELSE Newest(u)[k]
  BY <1>8
<1>10. Len(ar[L]) = Len(Newest(u))
  BY <1>7, <1>8
<1> HIDE DEF new
<1>11. QED
  BY <1>1, <1>2, <1>3, <1>4, <1>8, <1>9, <1>10 DEF IsRemoved

-----------------------------------------------------------------------------
(***************************************************************************)
(* The inductive invariant: TypeOK and MapsAgree, and what is true of a    *)
(* broadcast under way.                                                    *)
(***************************************************************************)

\* The slice header that a broadcast works on: it has that many slots in an
\* array of the user, and there is a client in each.
CallOK(m) ==
    /\ cast[m].user \in Users
    /\ cast[m].array <= Len(arrays[cast[m].user])
    /\ cast[m].next \in 1 .. cast[m].size + 1
    /\ cast[m].size > 0 =>
         /\ cast[m].array > 0
         /\ cast[m].size <= Len(arrays[cast[m].user][cast[m].array])
    /\ \A i \in 1 .. cast[m].size : arrays[cast[m].user][cast[m].array][i] \in Conns

Calls == \A m \in Messages :
    (cast[m] = NotCalled /\ told[m].offered = <<>>) \/ CallOK(m)

\* While no client of the user is unregistered, the array holds what it held.
CalmOK(m) ==
    /\ cast[m] # NotCalled
    /\ Len(told[m].before) = cast[m].size
    /\ Len(told[m].offered) = cast[m].next - 1
    /\ \A i \in 1 .. cast[m].size :
         /\ told[m].before[i] \in clients
         /\ UserOf[told[m].before[i]] = cast[m].user
         /\ arrays[cast[m].user][cast[m].array][i] = told[m].before[i]
    /\ \A i \in 1 .. cast[m].next - 1 : told[m].offered[i] = told[m].before[i]
    /\ cast[m].array = Len(arrays[cast[m].user]) => cast[m].size <= size[cast[m].user]

Calms == \A m \in Messages : told[m].calm => CalmOK(m)

HInv == TypeOK /\ MapsAgree /\ Calls /\ Calms

\* The same slots in the newest array are the slice's.
LEMMA SliceSlots ==
    ASSUME TypeOK, MapsAgree, NEW u \in Users
    PROVE  /\ arrays[u] \in Seq(Seq(Slots)) /\ size[u] \in Nat /\ Newest(u) \in Seq(Slots)
           /\ size[u] <= Len(Newest(u))
           /\ size[u] > 0 => /\ Len(arrays[u]) > 0
                             /\ Newest(u) = arrays[u][Len(arrays[u])]
           /\ \A i \in 1 .. size[u] : /\ Newest(u)[i] \in clients
                                      /\ UserOf[Newest(u)[i]] = u
           /\ \A i, j \in 1 .. size[u] : Newest(u)[i] = Newest(u)[j] => i = j
           /\ \A c \in clients : UserOf[c] = u => \E i \in 1 .. size[u] : Newest(u)[i] = c
<1>1. /\ arrays[u] \in Seq(Seq(Slots)) /\ size[u] \in Nat
      /\ size[u] <= Len(Newest(u))
  BY DEF TypeOK, Slots
<1>2. Newest(u) \in Seq(Slots) /\ (size[u] > 0 => /\ Len(arrays[u]) > 0
                                                  /\ Newest(u) = arrays[u][Len(arrays[u])])
  BY <1>1 DEF Newest
<1>3. /\ DOMAIN UserClients(u) = 1 .. size[u]
      /\ \A i \in 1 .. size[u] : UserClients(u)[i] = Newest(u)[i]
  BY DEF UserClients
<1>4. /\ {UserClients(u)[i] : i \in 1 .. size[u]} = {c \in clients : UserOf[c] = u}
      /\ \A i, j \in 1 .. size[u] : UserClients(u)[i] = UserClients(u)[j] => i = j
  BY <1>3 DEF MapsAgree, Elements
<1>5. \A i \in 1 .. size[u] : UserClients(u)[i] \in {c \in clients : UserOf[c] = u}
  BY <1>4
<1>6. \A c \in clients : UserOf[c] = u => \E i \in 1 .. size[u] : UserClients(u)[i] = c
  BY <1>4
<1>7. QED
  BY <1>1, <1>2, <1>3, <1>4, <1>5, <1>6

\* The invariant holds initially.
LEMMA HInvInit == Init => HInv
<1> SUFFICES ASSUME Init PROVE HInv
  OBVIOUS
<1>1. ASSUME NEW u \in Users
      PROVE  size[u] = 0 /\ Newest(u) = <<>> /\ DOMAIN UserClients(u) = {}
  <2>1. size[u] = 0 /\ arrays[u] = <<>>
    BY DEF Init
  <2>2. DOMAIN UserClients(u) = 1 .. 0
    BY <2>1 DEF UserClients
  <2>3. 1 .. 0 = {}
    OBVIOUS
  <2>4. QED
    BY <2>1, <2>2, <2>3 DEF Newest
<1>2. Calls /\ Calms
  BY DEF Init, Calls, Calms, Untold
<1>3. MapsAgree
  <2>1. clients = {c \in Conns : conn[c] \in {"open", "broken"}}
    BY DEF Init
  <2>2. closed = {c \in Conns : conn[c] = "gone"}
    BY DEF Init
  <2>3. ASSUME NEW u \in Users
        PROVE  /\ Elements(UserClients(u)) = {c \in clients : UserOf[c] = u}
               /\ \A i, j \in 1 .. size[u] : UserClients(u)[i] = UserClients(u)[j] => i = j
    <3>1. Elements(UserClients(u)) = {}
      BY <1>1 DEF Elements
    <3>2. {c \in clients : UserOf[c] = u} = {}
      BY DEF Init
    <3>3. QED
      BY <1>1, <3>1, <3>2
  <2>4. QED
    BY <2>1, <2>2, <2>3 DEF MapsAgree
<1>4. cast \in [Messages -> Call] /\ \A m \in Messages : ~Sending(m)
  BY DEF Init, Call, NotCalled, Sending
<1>5. told \in [Messages -> [before : Seq(Conns), offered : Seq(Conns), calm : BOOLEAN]]
  BY DEF Init, Untold
<1>6. TypeOK
  <2>1. ASSUME NEW u \in Users PROVE size[u] <= Len(Newest(u))
    BY <1>1
  <2>2. /\ arrays \in [Users -> Seq(Seq(Conns \cup {NULL}))]
        /\ size \in [Users -> Nat]
    BY DEF Init
  <2>3. /\ queue \in [Conns -> Seq(Messages)]
        /\ frame \in [Conns -> Seq(Messages)]
        /\ page \in [Conns -> Seq(Messages)]
    BY DEF Init
  <2>4. \A c \in Conns : Len(queue[c]) <= Buffer
    BY BufferAssumption DEF Init
  <2>5. QED
    BY <1>4, <1>5, <2>1, <2>2, <2>3, <2>4 DEF TypeOK, Init
<1>7. QED
  BY <1>2, <1>3, <1>6 DEF HInv

\* A broadcast's slots are clients.
LEMMA CallSlots ==
    ASSUME Calls, NEW m \in Messages, Sending(m)
    PROVE  CallOK(m) /\ Slot(m) \in Conns
<1>1. CallOK(m)
  BY DEF Calls, Sending, NotCalled
<1>2. QED
  BY <1>1 DEF CallOK, Sending, Slot

\* What the pumps do leaves the maps and the broadcasts alone.
LEMMA PumpSteps ==
    ASSUME HInv, NEW c \in Conns, Take(c) \/ Write(c) \/ WriteFails(c) \/ SeeClosed(c) \/ ReadFails(c)
    PROVE  HInv'
<1>1. UNCHANGED <<hub, closed, cast, told, up>>
  BY DEF Take, Write, WriteFails, SeeClosed, ReadFails, hub
<1>2. \A u \in Users : Newest(u)' = Newest(u) /\ UserClients(u)' = UserClients(u)
  BY <1>1 DEF hub, Newest, UserClients
<1>3. Calls' /\ Calms'
  BY <1>1 DEF HInv, hub, Calls, CallOK, Calms, CalmOK
<1>4. /\ conn' \in [Conns -> {"new", "open", "broken", "gone"}]
      /\ \A d \in Conns : conn'[d] = conn[d] \/ (conn[d] = "open" /\ conn'[d] = "broken")
  BY DEF Take, Write, WriteFails, SeeClosed, ReadFails, HInv, TypeOK
<1>5. MapsAgree'
  <2>1. clients' = {d \in Conns : conn'[d] \in {"open", "broken"}}
    BY <1>1, <1>4 DEF HInv, MapsAgree, hub, TypeOK
  <2>2. closed' = {d \in Conns : conn'[d] = "gone"}
    BY <1>1, <1>4 DEF HInv, MapsAgree, TypeOK
  <2>3. QED
    BY <1>1, <1>2, <2>1, <2>2 DEF HInv, MapsAgree, hub
<1>6. \A m \in Messages : Sending(m)' => Slot(m)' \in Conns
  BY <1>1 DEF HInv, TypeOK, Sending, Slot, hub
<1>7. /\ queue' \in [Conns -> Seq(Messages)]
      /\ frame' \in [Conns -> Seq(Messages)]
      /\ page' \in [Conns -> Seq(Messages)]
      /\ writer' \in [Conns -> {"off", "on", "done"}]
      /\ \A d \in Conns : Len(queue'[d]) <= Buffer
  <2>1. TypeOK
    BY DEF HInv
  <2>2. CASE Take(c)
    <3>1. queue[c] \in Seq(Messages) /\ queue[c] # <<>>
      BY <2>1, <2>2 DEF Take, TypeOK
    <3>2. /\ Head(queue[c]) \in Messages /\ <<Head(queue[c])>> \in Seq(Messages)
          /\ Tail(queue[c]) \in Seq(Messages) /\ Len(Tail(queue[c])) <= Len(queue[c])
      BY <3>1
    <3>3. frame' = [frame EXCEPT ![c] = <<Head(queue[c])>>] /\ queue' = [queue EXCEPT ![c] = Tail(queue[c])]
      BY <2>2 DEF Take
    <3>4. \A d \in Conns : Len(queue'[d]) <= Buffer
      BY <2>1, <3>1, <3>2, <3>3, BufferAssumption DEF TypeOK
    <3>5. QED
      BY <2>1, <2>2, <3>2, <3>3, <3>4 DEF Take, TypeOK
  <2>3. CASE Write(c)
    <3>1. page[c] \o frame[c] \o queue[c] \in Seq(Messages)
      BY <2>1 DEF TypeOK
    <3>2. QED
      BY <2>1, <2>3, <3>1, BufferAssumption DEF Write, TypeOK
  <2>4. CASE WriteFails(c)
    BY <2>1, <2>4 DEF WriteFails, TypeOK
  <2>5. CASE SeeClosed(c)
    BY <2>1, <2>5 DEF SeeClosed, TypeOK
  <2>6. CASE ReadFails(c)
    BY <2>1, <2>6 DEF ReadFails, TypeOK
  <2>7. QED
    BY <2>2, <2>3, <2>4, <2>5, <2>6
<1>8. TypeOK'
  BY <1>1, <1>2, <1>4, <1>6, <1>7 DEF HInv, TypeOK, hub
<1>9. QED
  BY <1>3, <1>5, <1>8 DEF HInv

\* A new connection: the broadcasts under way do not see its slot.
LEMMA RegisterStep ==
    ASSUME HInv, NEW c \in Conns, Register(c)
    PROVE  HInv'
<1> SUFFICES ASSUME NEW u, u = UserOf[c],
                    NEW n, n = size[u],
                    NEW L, L = Len(arrays[u]),
                    NEW ar, ar = Appended(u, c)
             PROVE  HInv'
  OBVIOUS
<1>1. u \in Users /\ TypeOK /\ MapsAgree /\ Calls /\ Calms
  BY UserOfAssumption DEF HInv
<1>2. /\ conn[c] = "new" /\ conn' = [conn EXCEPT ![c] = "open"]
      /\ clients' = clients \cup {c} /\ arrays' = [arrays EXCEPT ![u] = ar]
      /\ size' = [size EXCEPT ![u] = n + 1]
      /\ UNCHANGED <<up, closed, queue, frame, page, cast, told>>
      /\ writer' = [writer EXCEPT ![c] = "on"]
  BY DEF Register
<1>3. /\ n \in Nat /\ L \in Nat
      /\ ar \in Seq(Seq(Slots))
      /\ Len(ar) >= L /\ Len(ar) >= 1
      /\ n < Len(ar[Len(ar)])
      /\ ar[Len(ar)][n + 1] = c
      /\ \A i \in 1 .. n : ar[Len(ar)][i] = Newest(u)[i]
      /\ \A j \in 1 .. L :
           /\ Len(ar[j]) = Len(arrays[u][j])
           /\ \A i \in 1 .. Len(ar[j]) :
                ar[j][i] = arrays[u][j][i] \/ (j = L /\ i = n + 1 /\ ar[j][i] = c)
  <2>1. IsAppended(u, c, n, L, ar)
    BY <1>1, AppendedSlots
  <2>2. QED
    BY <2>1 DEF IsAppended
<1>4. c \notin clients
  BY <1>1, <1>2 DEF MapsAgree
<1>a. n \in Nat /\ L \in Nat /\ Len(ar) \in Nat /\ Len(ar) >= L
  BY <1>3
<1>b. \A j \in 1 .. L : Len(ar[j]) = Len(arrays[u][j]) /\ Len(ar[j]) \in Nat
  <2>1. \A j \in 1 .. L : ar[j] \in Seq(Slots)
    BY <1>3
  <2>2. QED
    BY <1>3, <2>1
<1>c. \A j \in 1 .. L : \A i \in 1 .. Len(ar[j]) :
        ar[j][i] = arrays[u][j][i] \/ (j = L /\ i = n + 1 /\ ar[j][i] = c)
  BY <1>3
<1>5. /\ arrays'[u] = ar /\ size'[u] = n + 1
      /\ \A v \in Users \ {u} : arrays'[v] = arrays[v] /\ size'[v] = size[v]
      /\ arrays' \in [Users -> Seq(Seq(Slots))]
      /\ size' \in [Users -> Nat]
  <2>1. arrays \in [Users -> Seq(Seq(Slots))] /\ size \in [Users -> Nat]
    BY <1>1 DEF TypeOK, Slots
  <2>2. n + 1 \in Nat /\ ar \in Seq(Seq(Slots))
    BY <1>3
  <2>3. QED
    BY ONLY <1>1, <1>2, <2>1, <2>2
<1>6. Newest(u)' = ar[Len(ar)] /\ \A v \in Users \ {u} : Newest(v)' = Newest(v)
  <2>1. arrays'[u] # <<>>
    BY <1>3, <1>5
  <2>2. Newest(u)' = ar[Len(ar)]
    BY <1>5, <2>1 DEF Newest
  <2>3. \A v \in Users \ {u} : Newest(v)' = Newest(v)
    BY <1>5 DEF Newest
  <2>4. QED
    BY <2>2, <2>3
<1>7. MapsAgree'
  <2>1. clients' = {d \in Conns : conn'[d] \in {"open", "broken"}}
    BY <1>1, <1>2 DEF MapsAgree, TypeOK
  <2>2. closed' = {d \in Conns : conn'[d] = "gone"}
    BY <1>1, <1>2 DEF MapsAgree, TypeOK
  <2>3. ASSUME NEW v \in Users
        PROVE  /\ Elements(UserClients(v))' = {d \in clients' : UserOf[d] = v}
               /\ \A i, j \in 1 .. size'[v] : UserClients(v)'[i] = UserClients(v)'[j] => i = j
    <3>1. CASE v = u
      <4>1. \A i \in 1 .. n : Newest(u)[i] \in clients /\ UserOf[Newest(u)[i]] = u
        BY <1>1, SliceSlots
      <4>2. \A i, j \in 1 .. n : Newest(u)[i] = Newest(u)[j] => i = j
        BY <1>1, SliceSlots
      <4>3. \A d \in clients : UserOf[d] = u => \E i \in 1 .. n : Newest(u)[i] = d
        BY <1>1, SliceSlots
      <4>4. \A i \in 1 .. n + 1 : i \in 1 .. n \/ i = n + 1
        BY <1>3
      <4>5. /\ \A i \in 1 .. n : Newest(u)'[i] = Newest(u)[i]
            /\ Newest(u)'[n + 1] = c
        BY <1>3, <1>6
      <4>6. \A i \in 1 .. n + 1 : Newest(u)'[i] \in clients' /\ UserOf[Newest(u)'[i]] = u
        BY <1>2, <4>1, <4>4, <4>5
      <4>7. \A i, j \in 1 .. n + 1 : Newest(u)'[i] = Newest(u)'[j] => i = j
        BY <1>4, <4>1, <4>2, <4>4, <4>5
      <4>8. \A d \in clients' : UserOf[d] = u => \E i \in 1 .. n + 1 : Newest(u)'[i] = d
        <5>1. TAKE d \in clients'
        <5>2. HAVE UserOf[d] = u
        <5>3. CASE d = c
          BY <1>3, <4>5, <5>3
        <5>4. CASE d # c
          <6>1. PICK i \in 1 .. n : Newest(u)[i] = d
            BY <1>2, <4>3, <5>2, <5>4
          <6>2. Newest(u)'[i] = d /\ i \in 1 .. n + 1
            BY <1>3, <4>5, <6>1
          <6>3. QED
            BY <6>2
        <5>5. QED
          BY <5>3, <5>4
      <4>9. size'[u] \in Nat
        BY <1>3, <1>5
      <4>10. \A i \in 1 .. n + 1 : Newest(u)'[i] \in {d \in clients' : UserOf[d] = u}
        BY <1>1, <1>2, <1>3, <4>1, <4>6
      <4>11. UserClients(u)' = [i \in 1 .. n + 1 |-> Newest(u)'[i]]
        BY <1>5 DEF UserClients
      <4>12. n + 1 \in Nat
        BY <1>3
      <4>13. Elements(UserClients(u))' = {Newest(u)'[i] : i \in 1 .. n + 1}
        BY <4>11 DEF Elements
      <4>14. Elements(UserClients(u))' = {d \in clients' : UserOf[d] = u}
        BY <4>8, <4>10, <4>13
      <4>15. \A i, j \in 1 .. n + 1 : UserClients(u)'[i] = UserClients(u)'[j] => i = j
        BY <4>7, <4>11
      <4>16. QED
        BY <1>5, <3>1, <4>14, <4>15
    <3>2. CASE v # u
      <4>1. UserClients(v)' = UserClients(v) /\ size'[v] = size[v]
        BY <1>5, <1>6, <3>2 DEF UserClients
      <4>2. {d \in clients' : UserOf[d] = v} = {d \in clients : UserOf[d] = v}
        BY <1>2, <3>2
      <4>3. QED
        BY <1>1, <4>1, <4>2 DEF MapsAgree, Elements
    <3>3. QED
      BY <3>1, <3>2
  <2>4. QED
    BY <2>1, <2>2, <2>3 DEF MapsAgree
<1>8. Calls'
  <2> SUFFICES ASSUME NEW m \in Messages, CallOK(m)
               PROVE  CallOK(m)'
    BY <1>1, <1>2 DEF Calls
  <2>1. CallOK(m) /\ cast'[m] = cast[m]
    BY <1>2
  <2>2. CASE cast[m].user = u
    <3> DEFINE j == cast[m].array
               k == cast[m].size
    <3>1. j \in Nat /\ k \in Nat
      BY <1>1 DEF TypeOK, Call
    <3>2. /\ j <= L /\ cast[m].next \in 1 .. k + 1
          /\ k > 0 => j \in 1 .. L /\ k <= Len(arrays[u][j])
          /\ \A i \in 1 .. k : arrays[u][j][i] \in Conns
      BY <1>3, <2>1, <2>2, <3>1 DEF CallOK
    <3>3. j <= Len(ar) /\ (k > 0 => j > 0 /\ k <= Len(ar[j]))
      BY <1>a, <1>b, <3>1, <3>2
    <3>4. ASSUME NEW i \in 1 .. k PROVE ar[j][i] \in Conns
      <4>1. j \in 1 .. L /\ i \in 1 .. Len(ar[j]) /\ arrays[u][j][i] \in Conns
        BY <1>a, <1>b, <3>1, <3>2, <3>3
      <4>2. QED
        BY <1>c, <4>1
    <3>5. QED
      BY <1>1, <1>5, <2>1, <2>2, <3>2, <3>3, <3>4 DEF CallOK
  <2>3. CASE cast[m].user # u
    BY <1>2, <1>5, <2>1, <2>3 DEF CallOK
  <2>4. QED
    BY <2>2, <2>3
<1>9. Calms'
  <2> SUFFICES ASSUME NEW m \in Messages, told[m].calm
               PROVE  CalmOK(m)'
    BY <1>2 DEF Calms
  <2>1. CallOK(m) /\ CalmOK(m) /\ cast'[m] = cast[m] /\ told'[m] = told[m]
    BY <1>1, <1>2 DEF Calls, Calms, CalmOK
  <2>2. CASE cast[m].user = u
    <3> DEFINE j == cast[m].array
               k == cast[m].size
    <3>1. j \in Nat /\ k \in Nat
      BY <1>1 DEF TypeOK, Call
    <3>2. /\ j <= L
          /\ k > 0 => j \in 1 .. L /\ k <= Len(arrays[u][j])
          /\ j = L => k <= n
          /\ \A i \in 1 .. k : arrays[u][j][i] = told[m].before[i]
      <4>1. L = Len(arrays[u]) /\ n = size[u] /\ L \in Nat
        BY <1>3
      <4>2. j <= L /\ (k > 0 => j \in 1 .. L /\ k <= Len(arrays[u][j]))
        BY <2>1, <2>2, <3>1, <4>1 DEF CallOK
      <4>3. (j = L => k <= n) /\ \A i \in 1 .. k : arrays[u][j][i] = told[m].before[i]
        BY <2>1, <2>2, <4>1 DEF CalmOK
      <4>4. QED
        BY <4>2, <4>3
    <3>3. j = Len(ar) => k <= n + 1
      BY <1>a, <3>1, <3>2
    <3>4. ASSUME NEW i \in 1 .. k PROVE ar[j][i] = told[m].before[i]
      <4>a. i \in Nat /\ i <= k /\ k > 0
        BY <3>1
      <4>b. j \in 1 .. L /\ i \in 1 .. Len(ar[j])
        BY <1>b, <3>1, <3>2, <4>a
      <4>c. ~(j = L /\ i = n + 1)
        BY <1>a, <3>1, <3>2, <4>a
      <4>1. /\ j \in 1 .. L /\ i \in 1 .. Len(ar[j])
            /\ ~(j = L /\ i = n + 1)
        BY <4>b, <4>c
      <4>2. ar[j][i] = arrays[u][j][i]
        BY <1>c, <4>1
      <4>3. QED
        BY <3>2, <4>2
    <3>5. QED
      BY <1>1, <1>2, <1>5, <2>1, <2>2, <3>3, <3>4 DEF CalmOK
  <2>3. CASE cast[m].user # u
    BY <1>2, <1>5, <2>1, <2>3 DEF CallOK, CalmOK
  <2>4. QED
    BY <2>2, <2>3
<1>10. TypeOK'
  <2>1. ASSUME NEW m \in Messages, Sending(m)' PROVE Slot(m)' \in Conns
    <3>1. CallOK(m)' /\ cast'[m].next \in 1 .. cast'[m].size
      BY <1>8, <2>1 DEF Calls, Sending, NotCalled
    <3>2. QED
      BY <3>1 DEF CallOK, Slot
  <2>2. ASSUME NEW v \in Users PROVE size'[v] <= Len(Newest(v)')
    <3>1. CASE v = u
      <4>1. ar[Len(ar)] \in Seq(Slots)
        BY <1>3, <1>a
      <4>2. Len(ar[Len(ar)]) \in Nat /\ n < Len(ar[Len(ar)])
        BY <1>3, <4>1
      <4>3. QED
        BY <1>a, <1>5, <1>6, <3>1, <4>2
    <3>2. CASE v # u
      BY <1>1, <1>5, <1>6, <3>2 DEF TypeOK
    <3>3. QED
      BY <3>1, <3>2
  <2>3. /\ conn' \in [Conns -> {"new", "open", "broken", "gone"}]
        /\ writer' \in [Conns -> {"off", "on", "done"}]
        /\ clients' \subseteq Conns
    BY <1>1, <1>2 DEF TypeOK
  <2>4. QED
    BY <1>1, <1>2, <1>5, <2>1, <2>2, <2>3 DEF TypeOK, Slots, Sending, Slot
<1>11. QED
  BY <1>7, <1>8, <1>9, <1>10 DEF HInv

\* A connection is gone: the array changes under the broadcasts to its user,
\* which keep meeting clients, and are no longer calm.
LEMMA UnregisterStep ==
    ASSUME HInv, NEW c \in Conns, Unregister(c)
    PROVE  HInv'
<1> SUFFICES ASSUME NEW u, u = UserOf[c],
                    NEW n, n = size[u],
                    NEW L, L = Len(arrays[u]),
                    NEW ar, ar = Removed(u, c)
             PROVE  HInv'
  OBVIOUS
<1>1. u \in Users /\ TypeOK /\ MapsAgree /\ Calls /\ Calms
  BY UserOfAssumption DEF HInv
<1>2. /\ conn[c] = "broken" /\ conn' = [conn EXCEPT ![c] = "gone"]
      /\ clients' = clients \ {c} /\ arrays' = [arrays EXCEPT ![u] = ar]
      /\ size' = [size EXCEPT ![u] = n - 1]
      /\ UNCHANGED <<up, queue, writer, frame, page, cast>>
      /\ told' = [m \in Messages |->
                    IF cast[m].user = u THEN [told[m] EXCEPT !.calm = FALSE] ELSE told[m]]
  BY DEF Unregister
<1>3. c \in clients /\ closed' = closed \cup {c}
  BY <1>1, <1>2 DEF MapsAgree, Unregister
<1>4. /\ \A k \in 1 .. n : Newest(u)[k] \in clients /\ UserOf[Newest(u)[k]] = u
      /\ \A j, k \in 1 .. n : Newest(u)[j] = Newest(u)[k] => j = k
      /\ \A d \in clients : UserOf[d] = u => \E k \in 1 .. n : Newest(u)[k] = d
      /\ n <= Len(Newest(u)) /\ Newest(u) \in Seq(Slots)
      /\ n > 0 => Newest(u) = arrays[u][L]
  BY <1>1, SliceSlots
<1>5. \E k \in 1 .. size[u] : Newest(u)[k] = c
  BY <1>3, <1>4
<1>6. IsRemoved(u, c, n, L, ar)
  BY <1>1, <1>5, RemovedSlots
<1>7. /\ n \in Nat \ {0} /\ L \in Nat \ {0} /\ ar \in Seq(Seq(Slots)) /\ Len(ar) = L
      /\ Len(ar[L]) = Len(Newest(u))
      /\ \A j \in 1 .. L : j # L => ar[j] = arrays[u][j]
  BY <1>6 DEF IsRemoved
<1>8. PICK i \in 1 .. n :
        /\ Newest(u)[i] = c
        /\ \A k \in 1 .. Len(Newest(u)) :
             ar[L][k] = IF i <= k /\ k < n THEN Newest(u)[k + 1] ELSE Newest(u)[k]
  BY <1>6 DEF IsRemoved
<1>9. /\ arrays'[u] = ar /\ size'[u] = n - 1
      /\ \A v \in Users \ {u} : arrays'[v] = arrays[v] /\ size'[v] = size[v]
      /\ arrays' \in [Users -> Seq(Seq(Slots))]
      /\ size' \in [Users -> Nat]
  <2>1. arrays \in [Users -> Seq(Seq(Slots))] /\ size \in [Users -> Nat]
    BY <1>1 DEF TypeOK, Slots
  <2>2. n - 1 \in Nat /\ ar \in Seq(Seq(Slots))
    BY <1>7
  <2>3. QED
    BY ONLY <1>1, <1>2, <2>1, <2>2
<1>10. Newest(u)' = ar[L] /\ \A v \in Users \ {u} : Newest(v)' = Newest(v)
  <2>1. arrays'[u] # <<>>
    BY <1>7, <1>9
  <2>2. Newest(u)' = ar[L]
    BY <1>7, <1>9, <2>1 DEF Newest
  <2>3. \A v \in Users \ {u} : Newest(v)' = Newest(v)
    BY <1>9 DEF Newest
  <2>4. QED
    BY <2>2, <2>3
<1>11. Len(Newest(u)) \in Nat
  BY <1>4
<1>12. \A k \in 1 .. n - 1 : ar[L][k] = IF i <= k THEN Newest(u)[k + 1] ELSE Newest(u)[k]
  <2>1. \A k \in 1 .. n - 1 : k \in 1 .. Len(Newest(u)) /\ k < n
    BY <1>4, <1>7, <1>11
  <2>2. QED
    BY <1>8, <2>1
<1>13. MapsAgree'
  <2>1. clients' = {d \in Conns : conn'[d] \in {"open", "broken"}}
    BY <1>1, <1>2 DEF MapsAgree, TypeOK
  <2>2. closed' = {d \in Conns : conn'[d] = "gone"}
    BY <1>1, <1>2, <1>3 DEF MapsAgree, TypeOK
  <2>3. ASSUME NEW v \in Users
        PROVE  /\ Elements(UserClients(v))' = {d \in clients' : UserOf[d] = v}
               /\ \A j, k \in 1 .. size'[v] : UserClients(v)'[j] = UserClients(v)'[k] => j = k
    <3>1. CASE v = u
      <4>1. ASSUME NEW k \in 1 .. n - 1
            PROVE  ar[L][k] \in {d \in clients' : UserOf[d] = u}
        <5>1. CASE i <= k
          <6>1. ar[L][k] = Newest(u)[k + 1] /\ k + 1 \in 1 .. n /\ k + 1 # i
            BY <1>7, <1>12, <5>1
          <6>2. QED
            BY <1>2, <1>4, <1>8, <6>1
        <5>2. CASE ~(i <= k)
          <6>1. ar[L][k] = Newest(u)[k] /\ k \in 1 .. n /\ k # i
            BY <1>7, <1>12, <5>2
          <6>2. QED
            BY <1>2, <1>4, <1>8, <6>1
        <5>3. QED
          BY <5>1, <5>2
      <4>2. ASSUME NEW j \in 1 .. n - 1, NEW k \in 1 .. n - 1, ar[L][j] = ar[L][k]
            PROVE  j = k
        <5>1. /\ j \in 1 .. n /\ k \in 1 .. n /\ j + 1 \in 1 .. n /\ k + 1 \in 1 .. n
              /\ j \in Nat /\ k \in Nat /\ i \in Nat
          BY <1>7
        <5>2. CASE i <= j /\ i <= k
          <6>1. Newest(u)[j + 1] = Newest(u)[k + 1]
            BY <1>12, <4>2, <5>2
          <6>2. QED
            BY <1>4, <5>1, <6>1
        <5>3. CASE i <= j /\ ~(i <= k)
          <6>1. Newest(u)[j + 1] = Newest(u)[k]
            BY <1>12, <4>2, <5>3
          <6>2. j + 1 = k
            BY <1>4, <5>1, <6>1
          <6>3. QED
            BY <5>1, <5>3, <6>2
        <5>4. CASE ~(i <= j) /\ i <= k
          <6>1. Newest(u)[j] = Newest(u)[k + 1]
            BY <1>12, <4>2, <5>4
          <6>2. j = k + 1
            BY <1>4, <5>1, <6>1
          <6>3. QED
            BY <5>1, <5>4, <6>2
        <5>5. CASE ~(i <= j) /\ ~(i <= k)
          <6>1. Newest(u)[j] = Newest(u)[k]
            BY <1>12, <4>2, <5>5
          <6>2. QED
            BY <1>4, <5>1, <6>1
        <5>6. QED
          BY <5>2, <5>3, <5>4, <5>5
      <4>3. ASSUME NEW d \in clients', UserOf[d] = u
            PROVE  \E k \in 1 .. n - 1 : ar[L][k] = d
        <5>1. PICK j \in 1 .. n : Newest(u)[j] = d
          BY <1>2, <1>4, <4>3
        <5>2. j # i
          BY <1>2, <1>8, <5>1
        <5>3. CASE j < i
          <6>1. j \in 1 .. n - 1 /\ ~(i <= j)
            BY <1>7, <5>3
          <6>2. QED
            BY <1>12, <5>1, <6>1
        <5>4. CASE i < j
          <6>1. j - 1 \in 1 .. n - 1 /\ i <= j - 1 /\ (j - 1) + 1 = j
            BY <1>7, <5>4
          <6>2. ar[L][j - 1] = d
            BY <1>12, <5>1, <6>1
          <6>3. QED
            BY <6>1, <6>2
        <5>5. QED
          BY <5>2, <5>3, <5>4
      <4>4. UserClients(u)' = [k \in 1 .. n - 1 |-> ar[L][k]]
        BY <1>9, <1>10 DEF UserClients
      <4>5. Elements(UserClients(u))' = {ar[L][k] : k \in 1 .. n - 1}
        BY <4>4 DEF Elements
      <4>6. Elements(UserClients(u))' = {d \in clients' : UserOf[d] = u}
        BY <4>1, <4>3, <4>5
      <4>7. \A j, k \in 1 .. n - 1 : UserClients(u)'[j] = UserClients(u)'[k] => j = k
        BY <4>2, <4>4
      <4>8. QED
        BY <1>9, <3>1, <4>6, <4>7
    <3>2. CASE v # u
      <4>1. UserClients(v)' = UserClients(v) /\ size'[v] = size[v]
        BY <1>9, <1>10, <3>2 DEF UserClients
      <4>2. {d \in clients' : UserOf[d] = v} = {d \in clients : UserOf[d] = v}
        BY <1>2, <3>2
      <4>3. QED
        BY <1>1, <4>1, <4>2 DEF MapsAgree, Elements
    <3>3. QED
      BY <3>1, <3>2
  <2>4. QED
    BY <2>1, <2>2, <2>3 DEF MapsAgree
<1>14. \A m \in Messages : /\ told'[m].offered = told[m].offered
                           /\ told'[m].calm => cast[m].user # u /\ told'[m] = told[m]
  BY <1>1, <1>2 DEF TypeOK
<1>15. Calls'
  <2> SUFFICES ASSUME NEW m \in Messages, CallOK(m)
               PROVE  CallOK(m)'
    BY <1>1, <1>2, <1>14 DEF Calls
  <2>1. cast'[m] = cast[m]
    BY <1>2
  <2>2. CASE cast[m].user = u
    <3> DEFINE j == cast[m].array
               k == cast[m].size
    <3>1. j \in Nat /\ k \in Nat
      BY <1>1 DEF TypeOK, Call
    <3>2. /\ j <= L /\ cast[m].next \in 1 .. k + 1
          /\ k > 0 => j \in 1 .. L /\ k <= Len(arrays[u][j])
          /\ \A q \in 1 .. k : arrays[u][j][q] \in Conns
      <4>1. L = Len(arrays[u]) /\ L \in Nat
        BY <1>7
      <4>2. QED
        BY <4>1, <2>2, <3>1 DEF CallOK
    <3>3. k > 0 => Len(ar[j]) = Len(arrays[u][j])
      <4>1. CASE j = L
        BY <1>4, <1>7, <4>1
      <4>2. CASE j # L
        BY <1>7, <3>2, <4>2
      <4>3. QED
        BY <4>1, <4>2
    <3>4. ASSUME NEW q \in 1 .. k PROVE ar[j][q] \in Conns
      <4>1. j \in 1 .. L /\ k <= Len(arrays[u][j]) /\ arrays[u][j][q] \in Conns
        BY <3>1, <3>2
      <4>2. CASE j # L
        BY <1>7, <4>1, <4>2
      <4>3. CASE j = L
        <5>1. Newest(u) = arrays[u][L] /\ q \in 1 .. Len(Newest(u))
          BY <1>4, <1>7, <1>11, <3>1, <4>1, <4>3
        <5>2. CASE i <= q /\ q < n
          <6>1. q + 1 \in 1 .. n
            BY <1>7, <3>1, <5>2
          <6>2. Newest(u)[q + 1] \in Conns
            BY <1>1, <1>4, <6>1 DEF MapsAgree
          <6>3. QED
            BY <1>8, <4>3, <5>1, <5>2, <6>2
        <5>3. CASE ~(i <= q /\ q < n)
          BY <1>8, <4>1, <4>3, <5>1, <5>3
        <5>4. QED
          BY <5>2, <5>3
      <4>4. QED
        BY <4>2, <4>3
    <3>5. j <= Len(ar) /\ (k > 0 => j > 0 /\ k <= Len(ar[j]))
      BY <1>7, <3>1, <3>2, <3>3
    <3>6. cast[m].next \in 1 .. k + 1
      BY <3>2
    <3>7. arrays'[u] = ar /\ u \in Users
      BY <1>1, <1>9
    <3>8. QED
      BY <2>1, <2>2, <3>4, <3>5, <3>6, <3>7 DEF CallOK
  <2>3. CASE cast[m].user # u
    <3>1. arrays'[cast[m].user] = arrays[cast[m].user]
      BY <1>9, <2>3 DEF CallOK
    <3>2. QED
      BY <2>1, <3>1 DEF CallOK
  <2>4. QED
    BY <2>2, <2>3
<1>16. Calms'
  <2> SUFFICES ASSUME NEW m \in Messages, told'[m].calm
               PROVE  CalmOK(m)'
    BY DEF Calms
  <2>1. cast[m].user # u /\ told'[m] = told[m] /\ cast'[m] = cast[m] /\ CalmOK(m) /\ CallOK(m)
    BY <1>1, <1>2, <1>14 DEF Calls, Calms, CalmOK
  <2>2. \A q \in 1 .. cast[m].size : told[m].before[q] \in clients'
    BY <1>2, <2>1 DEF CalmOK
  <2>3. arrays'[cast[m].user] = arrays[cast[m].user] /\ size'[cast[m].user] = size[cast[m].user]
    BY <1>9, <2>1 DEF CallOK
  <2>4. QED
    BY <2>1, <2>2, <2>3 DEF CalmOK
<1>17. TypeOK'
  <2>1. ASSUME NEW m \in Messages, Sending(m)' PROVE Slot(m)' \in Conns
    <3>1. CallOK(m)' /\ cast'[m].next \in 1 .. cast'[m].size
      BY <1>15, <2>1 DEF Calls, Sending, NotCalled
    <3>2. QED
      BY <3>1 DEF CallOK, Slot
  <2>2. ASSUME NEW v \in Users PROVE size'[v] <= Len(Newest(v)')
    <3>1. CASE v = u
      <4>1. n - 1 <= Len(ar[L])
        BY <1>4, <1>7, <1>11
      <4>2. QED
        BY <1>9, <1>10, <3>1, <4>1
    <3>2. CASE v # u
      BY <1>1, <1>9, <1>10, <3>2 DEF TypeOK
    <3>3. QED
      BY <3>1, <3>2
  <2>3. /\ conn' \in [Conns -> {"new", "open", "broken", "gone"}]
        /\ clients' \subseteq Conns /\ closed' \subseteq Conns
        /\ told' \in [Messages -> [before : Seq(Conns), offered : Seq(Conns), calm : BOOLEAN]]
    BY <1>1, <1>2, <1>3 DEF TypeOK
  <2>4. QED
    BY <1>1, <1>2, <1>9, <2>1, <2>2, <2>3 DEF TypeOK, Slots, Sending, Slot
<1>18. QED
  BY <1>13, <1>15, <1>16, <1>17 DEF HInv

\* A broadcast takes the header of the user's slice.
LEMMA BroadcastStep ==
    ASSUME HInv, NEW m \in Messages, NEW u \in Users, BroadcastToUser(m, u)
    PROVE  HInv'
<1> SUFFICES ASSUME NEW n, n = size[u], NEW L, L = Len(arrays[u])
             PROVE  HInv'
  OBVIOUS
<1>1. TypeOK /\ MapsAgree /\ Calls /\ Calms
  BY DEF HInv
<1>2. /\ cast[m] = NotCalled
      /\ cast' = [cast EXCEPT ![m] = [user |-> u, array |-> L, size |-> n, next |-> 1]]
      /\ told' = [told EXCEPT ![m].before = UserClients(u), ![m].calm = TRUE]
      /\ UNCHANGED <<up, clients, arrays, size, conn, closed, queue, writer, frame, page>>
  BY DEF BroadcastToUser, hub, pumps
<1>3. /\ n \in Nat /\ n <= Len(Newest(u)) /\ L \in Nat
      /\ n > 0 => L > 0 /\ Newest(u) = arrays[u][L]
      /\ \A i \in 1 .. n : Newest(u)[i] \in clients /\ UserOf[Newest(u)[i]] = u
  BY <1>1, SliceSlots
<1>4. clients \subseteq Conns
  BY <1>1 DEF TypeOK
<1>5. UserClients(u) \in Seq(Conns) /\ Len(UserClients(u)) = n
  <2>1. UserClients(u) \in [1 .. n -> Conns]
    BY <1>3, <1>4 DEF UserClients
  <2>2. QED
    BY <1>3, <2>1, FunctionIsSeq
<1>6. \A i \in 1 .. n : UserClients(u)[i] = Newest(u)[i]
  BY DEF UserClients
<1>7. told[m].offered = <<>>
  BY <1>1, <1>2 DEF Calls, CallOK, NotCalled
<1>8. /\ cast'[m].user = u /\ cast'[m].array = L /\ cast'[m].size = n /\ cast'[m].next = 1
      /\ told'[m].before = UserClients(u) /\ told'[m].offered = <<>>
      /\ \A k \in Messages \ {m} : cast'[k] = cast[k] /\ told'[k] = told[k]
      /\ told' \in [Messages -> [before : Seq(Conns), offered : Seq(Conns), calm : BOOLEAN]]
  <2>1. /\ told \in [Messages -> [before : Seq(Conns), offered : Seq(Conns), calm : BOOLEAN]]
        /\ cast \in [Messages -> Call]
    BY <1>1 DEF TypeOK
  <2>2. cast'[m] = [user |-> u, array |-> L, size |-> n, next |-> 1]
    BY <1>2, <2>1
  <2>3. /\ told'[m].before = UserClients(u) /\ told'[m].offered = <<>>
        /\ told' \in [Messages -> [before : Seq(Conns), offered : Seq(Conns), calm : BOOLEAN]]
    BY <1>2, <1>5, <1>7, <2>1
  <2>4. \A k \in Messages \ {m} : cast'[k] = cast[k] /\ told'[k] = told[k]
    BY <1>2, <2>1
  <2>5. QED
    BY <2>2, <2>3, <2>4
<1>9. cast' \in [Messages -> Call]
  <2>1. [user |-> u, array |-> L, size |-> n, next |-> 1] \in Call
    BY <1>3 DEF Call
  <2>2. QED
    BY <1>1, <1>2, <2>1 DEF TypeOK
<1>10. \A i \in 1 .. n : arrays[u][L][i] = Newest(u)[i]
  BY <1>3
<1>11. CallOK(m)'
  <2>1. L <= Len(arrays[u]) /\ 1 \in 1 .. n + 1
    BY <1>3
  <2>2. n > 0 => L > 0 /\ n <= Len(arrays[u][L])
    BY <1>3
  <2>3. \A i \in 1 .. n : arrays[u][L][i] \in Conns
    BY <1>3, <1>4, <1>10
  <2>4. arrays' = arrays
    BY <1>2
  <2>5. QED
    BY <1>8, <2>1, <2>2, <2>3, <2>4 DEF CallOK
<1>12. CalmOK(m)'
  <2>1. cast'[m] # NotCalled
    BY <1>8 DEF NotCalled
  <2>2. \A i \in 1 .. n : /\ UserClients(u)[i] \in clients
                          /\ UserOf[UserClients(u)[i]] = u
                          /\ arrays[u][L][i] = UserClients(u)[i]
    BY <1>3, <1>6, <1>10
  <2>3. Len(told'[m].offered) = cast'[m].next - 1
    BY <1>8
  <2>4. \A i \in 1 .. cast'[m].next - 1 : FALSE
    BY <1>8
  <2>5. QED
    BY <1>2, <1>3, <1>5, <1>8, <2>1, <2>2, <2>3, <2>4 DEF CalmOK
<1>13. Calls'
  <2>1. ASSUME NEW k \in Messages \ {m}, CallOK(k) PROVE CallOK(k)'
    BY <1>2, <1>8, <2>1 DEF CallOK
  <2>2. QED
    BY <1>1, <1>2, <1>8, <1>11, <2>1 DEF Calls
<1>14. Calms'
  <2>1. ASSUME NEW k \in Messages \ {m}, CalmOK(k) PROVE CalmOK(k)'
    BY <1>2, <1>8, <2>1 DEF CalmOK
  <2>2. QED
    BY <1>1, <1>2, <1>8, <1>12, <2>1 DEF Calms
<1>15. MapsAgree'
  <2>1. \A v \in Users : UserClients(v)' = UserClients(v) /\ size'[v] = size[v]
    BY <1>2 DEF UserClients, Newest
  <2>2. QED
    BY <1>1, <1>2, <2>1 DEF MapsAgree
<1>16. TypeOK'
  <2>1. ASSUME NEW k \in Messages, Sending(k)' PROVE Slot(k)' \in Conns
    <3>1. CallOK(k)' /\ cast'[k].next \in 1 .. cast'[k].size
      BY <1>13, <2>1 DEF Calls, Sending, NotCalled
    <3>2. QED
      BY <3>1 DEF CallOK, Slot
  <2>2. QED
    BY <1>1, <1>2, <1>8, <1>9, <2>1 DEF TypeOK, Newest
<1>17. QED
  BY <1>13, <1>14, <1>15, <1>16 DEF HInv

\* A broadcast offers its message to the client in its next slot.
LEMMA OfferStep ==
    ASSUME HInv, NEW m \in Messages, Offer(m)
    PROVE  HInv'
<1> SUFFICES ASSUME NEW c, c = Slot(m), NEW q, q = cast[m].next
             PROVE  HInv'
  OBVIOUS
<1>1. TypeOK /\ MapsAgree /\ Calls /\ Calms
  BY DEF HInv
<1>2. /\ Sending(m)
      /\ queue' = IF Len(queue[c]) < Buffer
                  THEN [queue EXCEPT ![c] = Append(queue[c], m)] ELSE queue
      /\ cast' = [cast EXCEPT ![m].next = q + 1]
      /\ told' = [told EXCEPT ![m].offered = Append(told[m].offered, c)]
      /\ UNCHANGED <<up, clients, arrays, size, conn, closed, writer, frame, page>>
  BY DEF Offer, hub
<1>3. CallOK(m) /\ c \in Conns
  BY <1>1, <1>2, CallSlots
<1>4. q \in Nat /\ cast[m].size \in Nat /\ q \in 1 .. cast[m].size /\ cast[m] \in Call
  BY <1>1, <1>2 DEF TypeOK, Call, Sending
<1>5. /\ cast'[m].user = cast[m].user /\ cast'[m].array = cast[m].array
      /\ cast'[m].size = cast[m].size /\ cast'[m].next = q + 1
      /\ \A k \in Messages \ {m} : cast'[k] = cast[k] /\ told'[k] = told[k]
      /\ cast' \in [Messages -> Call]
  <2>1. [cast[m] EXCEPT !.next = q + 1] \in Call
    BY <1>4 DEF Call
  <2>2. cast \in [Messages -> Call] /\ told \in [Messages -> [before : Seq(Conns), offered : Seq(Conns), calm : BOOLEAN]]
    BY <1>1 DEF TypeOK
  <2>3. cast' \in [Messages -> Call] /\ \A k \in Messages \ {m} : cast'[k] = cast[k] /\ told'[k] = told[k]
    BY <1>2, <2>1, <2>2
  <2>4. cast'[m] = [cast[m] EXCEPT !.next = q + 1]
    BY <1>2, <2>2
  <2>5. QED
    BY <1>4, <2>3, <2>4 DEF Call
<1>6. /\ told'[m].before = told[m].before /\ told'[m].calm = told[m].calm
      /\ told'[m].offered = Append(told[m].offered, c)
      /\ told' \in [Messages -> [before : Seq(Conns), offered : Seq(Conns), calm : BOOLEAN]]
  <2>1. /\ told \in [Messages -> [before : Seq(Conns), offered : Seq(Conns), calm : BOOLEAN]]
        /\ Append(told[m].offered, c) \in Seq(Conns)
    BY <1>1, <1>3 DEF TypeOK
  <2>2. QED
    BY <1>2, <2>1
<1>7. CallOK(m)'
  BY <1>2, <1>3, <1>4, <1>5 DEF CallOK
<1>8. Calls'
  <2>1. ASSUME NEW k \in Messages \ {m}, CallOK(k) PROVE CallOK(k)'
    BY <1>2, <1>5, <2>1 DEF CallOK
  <2>2. QED
    BY <1>1, <1>2, <1>5, <1>7, <2>1 DEF Calls
<1>9. ASSUME told[m].calm PROVE CalmOK(m)'
  <2>1. CalmOK(m)
    BY <1>1, <1>9 DEF Calms
  <2>2. c = told[m].before[q]
    BY <1>4, <2>1 DEF CalmOK, Slot
  <2>3. told[m].offered \in Seq(Conns) /\ Len(told[m].offered) = q - 1
    BY <1>1, <2>1 DEF TypeOK, CalmOK
  <2>4. /\ Len(told'[m].offered) = q
        /\ told'[m].offered[q] = c
        /\ \A i \in 1 .. q - 1 : told'[m].offered[i] = told[m].offered[i]
    <3>1. /\ Len(Append(told[m].offered, c)) = Len(told[m].offered) + 1
          /\ Append(told[m].offered, c)[Len(told[m].offered) + 1] = c
          /\ \A i \in 1 .. Len(told[m].offered) :
               Append(told[m].offered, c)[i] = told[m].offered[i]
      BY <1>3, <2>3, AppendProperties
    <3>2. Len(told[m].offered) + 1 = q
      BY <1>4, <2>3
    <3>3. QED
      BY <1>6, <2>3, <3>1, <3>2
  <2>5. \A i \in 1 .. q : told'[m].offered[i] = told[m].before[i]
    <3>1. \A i \in 1 .. q - 1 : told[m].offered[i] = told[m].before[i]
      BY <2>1 DEF CalmOK
    <3>2. \A i \in 1 .. q : i = q \/ i \in 1 .. q - 1
      BY <1>4
    <3>3. QED
      BY <2>2, <2>4, <3>1, <3>2
  <2>6. cast'[m] # NotCalled
    BY <1>4, <1>5 DEF NotCalled
  <2>7. cast'[m].next - 1 = q
    BY <1>4, <1>5
  <2>8. QED
    BY <1>2, <1>5, <1>6, <2>1, <2>4, <2>5, <2>6, <2>7 DEF CalmOK
<1>10. Calms'
  <2>1. ASSUME NEW k \in Messages \ {m}, CalmOK(k) PROVE CalmOK(k)'
    BY <1>2, <1>5, <2>1 DEF CalmOK
  <2>2. QED
    BY <1>1, <1>2, <1>5, <1>6, <1>9, <2>1 DEF Calms
<1>11. MapsAgree'
  <2>1. \A v \in Users : UserClients(v)' = UserClients(v) /\ size'[v] = size[v]
    BY <1>2 DEF UserClients, Newest
  <2>2. QED
    BY <1>1, <1>2, <2>1 DEF MapsAgree
<1>12. /\ queue' \in [Conns -> Seq(Messages)]
       /\ \A d \in Conns : Len(queue'[d]) <= Buffer
  <2>1. /\ queue \in [Conns -> Seq(Messages)]
        /\ \A d \in Conns : Len(queue[d]) <= Buffer
    BY <1>1 DEF TypeOK
  <2>2. CASE Len(queue[c]) < Buffer
    <3>1. /\ Append(queue[c], m) \in Seq(Messages)
          /\ Len(Append(queue[c], m)) = Len(queue[c]) + 1
          /\ Len(queue[c]) \in Nat
      BY <1>3, <2>1
    <3>2. QED
      BY <1>2, <1>3, <2>1, <2>2, <3>1, BufferAssumption
  <2>3. QED
    BY <1>2, <2>1, <2>2
<1>13. TypeOK'
  <2>1. ASSUME NEW k \in Messages, Sending(k)' PROVE Slot(k)' \in Conns
    <3>1. CallOK(k)' /\ cast'[k].next \in 1 .. cast'[k].size
      BY <1>8, <2>1 DEF Calls, Sending, NotCalled
    <3>2. QED
      BY <3>1 DEF CallOK, Slot
  <2>2. QED
    BY <1>1, <1>2, <1>5, <1>6, <1>12, <2>1 DEF TypeOK, Newest
<1>14. QED
  BY <1>8, <1>10, <1>11, <1>13 DEF HInv

\* A broadcast that meets a closed channel is not calm.
LEMMA PanicStep ==
    ASSUME HInv, NEW m \in Messages, Panic(m)
    PROVE  HInv'
<1>1. TypeOK /\ MapsAgree /\ Calls /\ Calms
  BY DEF HInv
<1>2. /\ Sending(m) /\ Slot(m) \in closed
      /\ cast' = [cast EXCEPT ![m].next = cast[m].size + 1]
      /\ up' \in BOOLEAN
      /\ UNCHANGED <<clients, arrays, size, conn, closed, queue, writer, frame, page, told>>
  BY DEF Panic, hub, pumps
<1>3. CallOK(m) /\ Slot(m) \in Conns
  BY <1>1, <1>2, CallSlots
<1>4. cast[m].size \in Nat /\ cast[m].next \in 1 .. cast[m].size
  BY <1>1, <1>2 DEF TypeOK, Call, Sending
<1>5. /\ cast'[m].user = cast[m].user /\ cast'[m].array = cast[m].array
      /\ cast'[m].size = cast[m].size /\ cast'[m].next = cast[m].size + 1
      /\ \A k \in Messages \ {m} : cast'[k] = cast[k]
      /\ cast' \in [Messages -> Call]
  <2>1. cast \in [Messages -> Call]
    BY <1>1 DEF TypeOK
  <2>2. cast[m] \in Call /\ [cast[m] EXCEPT !.next = cast[m].size + 1] \in Call
    BY <1>4, <2>1 DEF Call
  <2>3. cast' \in [Messages -> Call] /\ \A k \in Messages \ {m} : cast'[k] = cast[k]
    BY <1>2, <2>1, <2>2
  <2>4. cast'[m] = [cast[m] EXCEPT !.next = cast[m].size + 1]
    BY <1>2, <2>1
  <2>5. QED
    BY <2>2, <2>3, <2>4 DEF Call
<1>6. ~told[m].calm
  <2>1. SUFFICES ASSUME told[m].calm PROVE FALSE
    OBVIOUS
  <2>2. Slot(m) \in clients
    BY <1>1, <1>4, <2>1 DEF Calms, CalmOK, Slot
  <2>3. QED
    BY <1>1, <1>2, <2>2 DEF MapsAgree
<1>7. CallOK(m)'
  BY <1>2, <1>3, <1>4, <1>5 DEF CallOK
<1>8. Calls'
  <2>1. ASSUME NEW k \in Messages \ {m}, CallOK(k) PROVE CallOK(k)'
    BY <1>2, <1>5, <2>1 DEF CallOK
  <2>2. QED
    BY <1>1, <1>2, <1>5, <1>7, <2>1 DEF Calls
<1>9. Calms'
  <2>1. ASSUME NEW k \in Messages \ {m}, CalmOK(k) PROVE CalmOK(k)'
    BY <1>2, <1>5, <2>1 DEF CalmOK
  <2>2. QED
    BY <1>1, <1>2, <1>5, <1>6, <2>1 DEF Calms
<1>10. MapsAgree'
  <2>1. \A v \in Users : UserClients(v)' = UserClients(v) /\ size'[v] = size[v]
    BY <1>2 DEF UserClients, Newest
  <2>2. QED
    BY <1>1, <1>2, <2>1 DEF MapsAgree
<1>11. TypeOK'
  <2>1. ASSUME NEW k \in Messages, Sending(k)' PROVE Slot(k)' \in Conns
    <3>1. CallOK(k)' /\ cast'[k].next \in 1 .. cast'[k].size
      BY <1>8, <2>1 DEF Calls, Sending, NotCalled
    <3>2. QED
      BY <3>1 DEF CallOK, Slot
  <2>2. QED
    BY <1>1, <1>2, <1>5, <2>1 DEF TypeOK, Newest
<1>12. QED
  BY <1>8, <1>9, <1>10, <1>11 DEF HInv

\* The invariant is inductive.
LEMMA HInvNext == HInv /\ [Next]_vars => HInv'
<1> SUFFICES ASSUME HInv, [Next]_vars PROVE HInv'
  OBVIOUS
<1>1. ASSUME NEW c \in Conns, Connection(c) PROVE HInv'
  BY <1>1, RegisterStep, UnregisterStep, PumpSteps DEF Connection
<1>2. ASSUME NEW m \in Messages, Sender(m) PROVE HInv'
  BY <1>2, BroadcastStep, OfferStep, PanicStep DEF Sender
<1>3. CASE UNCHANGED vars
  <2>1. UNCHANGED <<up, clients, arrays, size, conn, closed, queue, writer, frame, page, cast, told>>
    BY <1>3 DEF vars, hub, pumps
  <2>2. TypeOK'
    BY <2>1 DEF HInv, TypeOK, Newest, Sending, Slot
  <2>3. MapsAgree'
    <3>1. \A u \in Users : UserClients(u)' = UserClients(u)
      BY <2>1 DEF UserClients, Newest
    <3>2. QED
      BY <2>1, <3>1 DEF HInv, MapsAgree
  <2>4. Calls' /\ Calms'
    BY <2>1 DEF HInv, Calls, CallOK, Calms, CalmOK
  <2>5. QED
    BY <2>2, <2>3, <2>4 DEF HInv
<1>4. QED
  BY <1>1, <1>2, <1>3 DEF Next

\* Every reachable state satisfies the invariant.
THEOREM HubInvariant == Spec => []HInv
<1>1. QED
  BY HInvInit, HInvNext, PTL DEF Spec

\* Type correctness: in particular a broadcast never leaves the array it
\* walks, and no send buffer overflows.
THEOREM TypeCorrect == Spec => []TypeOK
<1>1. HInv => TypeOK
  BY DEF HInv
<1>2. QED
  BY <1>1, HubInvariant, PTL

\* The two maps of the hub and the send channels agree, whatever Run has been
\* sent in whatever order.
THEOREM MapsAlwaysAgree == Spec => []MapsAgree
<1>1. HInv => MapsAgree
  BY DEF HInv
<1>2. QED
  BY <1>1, HubInvariant, PTL

\* A broadcast during which none of the user's clients is unregistered reaches
\* the clients it set out to reach and never meets a closed channel.
THEOREM CalmBroadcasts == Spec => []CalmBroadcastIsExact
<1>1. ASSUME HInv, NEW m \in Messages, told[m].calm
      PROVE  /\ told[m].offered = SubSeq(told[m].before, 1, cast[m].next - 1)
             /\ Sending(m) => Slot(m) \notin closed
  <2>1. /\ CalmOK(m) /\ CallOK(m) /\ TypeOK /\ MapsAgree
    BY <1>1 DEF HInv, Calms, CalmOK, Calls
  <2>2. /\ told[m].offered \in Seq(Conns) /\ told[m].before \in Seq(Conns)
        /\ cast[m].next \in Nat /\ cast[m].size \in Nat
    BY <2>1 DEF TypeOK, Call
  <2> DEFINE p == cast[m].next - 1
             s == SubSeq(told[m].before, 1, p)
  <2>3. p \in 0 .. cast[m].size /\ p \in 0 .. Len(told[m].before)
    BY <2>1, <2>2 DEF CallOK, CalmOK
  <2>4. s \in Seq(Conns) /\ Len(s) = p /\ \A i \in 1 .. p : s[i] = told[m].before[i]
    BY <2>2, <2>3
  <2>5. Len(told[m].offered) = p /\ \A i \in 1 .. p : told[m].offered[i] = told[m].before[i]
    BY <2>1 DEF CalmOK
  <2>6. told[m].offered = s
    BY <2>2, <2>4, <2>5, SeqEqual
  <2>7. Sending(m) => Slot(m) \in clients
    BY <2>1 DEF CalmOK, Sending, Slot
  <2>8. QED
    BY <2>1, <2>6, <2>7 DEF MapsAgree
<1>2. HInv => CalmBroadcastIsExact
  BY <1>1 DEF CalmBroadcastIsExact
<1>3. QED
  BY <1>2, HubInvariant, PTL

-----------------------------------------------------------------------------
(***************************************************************************)
(* The order of delivery.  What a connection has been given comes from     *)
(* calls that have been made, and a call is made when the one before it    *)
(* has returned.                                                           *)
(***************************************************************************)

\* A message that may come last does.
LEMMA OrderedAppend ==
    ASSUME NEW s \in Seq(Messages), Ordered(s), NEW m \in Messages,
           \A i \in 1 .. Len(s) : m # After[s[i]]
    PROVE  Ordered(Append(s, m))
<1> SUFFICES ASSUME NEW t, t = Append(s, m),
                    NEW i \in 1 .. Len(t), NEW j \in 1 .. Len(t), i < j
             PROVE  t[j] # After[t[i]]
  BY DEF Ordered
<1>1. /\ Len(s) \in Nat /\ Len(t) = Len(s) + 1 /\ t[Len(s) + 1] = m
      /\ \A k \in 1 .. Len(s) : t[k] = s[k]
  OBVIOUS
<1>2. i \in 1 .. Len(s) /\ t[i] = s[i]
  BY <1>1
<1>3. CASE j = Len(s) + 1
  BY <1>1, <1>2, <1>3
<1>4. CASE j # Len(s) + 1
  <2>1. j \in 1 .. Len(s) /\ t[j] = s[j]
    BY <1>1, <1>4
  <2>2. QED
    BY <1>2, <2>1 DEF Ordered
<1>5. QED
  BY <1>3, <1>4

\* Leaving out what a write pump had in its hands keeps the order.
LEMMA OrderedWithout ==
    ASSUME NEW p \in Seq(Messages), NEW f \in Seq(Messages), NEW q \in Seq(Messages),
           Ordered(p \o f \o q)
    PROVE  /\ Ordered(p \o q)
           /\ Elements(p \o q) \subseteq Elements(p \o f \o q)
<1> DEFINE at(i) == IF i <= Len(p) THEN i ELSE i + Len(f)
<1> SUFFICES ASSUME NEW s, s = p \o f \o q, NEW t, t = p \o q
             PROVE  Ordered(t) /\ Elements(t) \subseteq Elements(s)
  OBVIOUS
<1>1. /\ Len(p) \in Nat /\ Len(f) \in Nat /\ Len(q) \in Nat
      /\ p \o f \in Seq(Messages) /\ Len(p \o f) = Len(p) + Len(f)
  OBVIOUS
<1>2. /\ s \in Seq(Messages) /\ Len(s) = Len(p) + Len(f) + Len(q)
      /\ t \in Seq(Messages) /\ Len(t) = Len(p) + Len(q)
  BY <1>1
<1>3. ASSUME NEW i \in 1 .. Len(t)
      PROVE  at(i) \in 1 .. Len(s) /\ t[i] = s[at(i)]
  <2>1. CASE i <= Len(p)
    <3>1. i \in 1 .. Len(p) /\ i \in 1 .. Len(p \o f)
      BY <1>1, <1>2, <2>1
    <3>2. (p \o f)[i] = p[i] /\ t[i] = p[i] /\ s[i] = (p \o f)[i]
      BY <1>1, <3>1
    <3>3. QED
      BY <1>1, <1>2, <2>1, <3>2
  <2>2. CASE ~(i <= Len(p))
    <3>1. /\ i - Len(p) \in 1 .. Len(q)
          /\ t[i] = q[i - Len(p)]
      BY <1>1, <1>2, <2>2
    <3>2. /\ i + Len(f) \in 1 .. Len(s)
          /\ i + Len(f) > Len(p \o f)
          /\ (i + Len(f)) - Len(p \o f) = i - Len(p)
      BY <1>1, <1>2, <2>2
    <3>3. s[i + Len(f)] = q[i - Len(p)]
      BY <1>1, <1>2, <3>1, <3>2
    <3>4. QED
      BY <2>2, <3>1, <3>2, <3>3
  <2>3. QED
    BY <2>1, <2>2
<1>4. ASSUME NEW i \in 1 .. Len(t), NEW j \in 1 .. Len(t), i < j
      PROVE  at(i) < at(j)
  BY <1>1, <1>2, <1>4
<1> HIDE DEF at
<1>5. Ordered(t)
  <2>1. \A i, j \in 1 .. Len(s) : i < j => s[j] # After[s[i]]
    BY DEF Ordered
  <2>2. ASSUME NEW i \in 1 .. Len(t), NEW j \in 1 .. Len(t), i < j
        PROVE  t[j] # After[t[i]]
    BY <1>3, <1>4, <2>1, <2>2
  <2>3. QED
    BY <2>2 DEF Ordered
<1>6. Elements(t) \subseteq Elements(s)
  <2>1. DOMAIN t = 1 .. Len(t) /\ DOMAIN s = 1 .. Len(s)
    BY <1>2
  <2>2. ASSUME NEW e \in Elements(t) PROVE e \in Elements(s)
    <3>1. PICK i \in 1 .. Len(t) : e = t[i]
      BY <2>1 DEF Elements
    <3>2. at(i) \in 1 .. Len(s) /\ e = s[at(i)]
      BY <1>3, <3>1
    <3>3. QED
      BY <2>1, <3>2 DEF Elements
  <2>3. QED
    BY <2>2
<1>7. QED
  BY <1>5, <1>6

\* A call is made when the one before it has returned.
InTurn == \A m \in Messages : cast[m].next > 0 /\ After[m] # NULL => Returned(After[m])

\* Whatever a connection has been given comes from a call that has been made.
Streamed == \A c \in Conns : \A m \in Elements(Stream(c)) : cast[m].next > 0

OInv == HInv /\ InTurn /\ Streamed /\ SerialOrder

\* What has not been given cannot be out of order.
LEMMA PartOfStream ==
    ASSUME TypeOK, NEW c \in Conns, Ordered(Stream(c)),
           NEW s, s = Stream(c) \/ s = page[c] \o queue[c] \/ s = page[c]
    PROVE  Ordered(s) /\ Elements(s) \subseteq Elements(Stream(c))
<1>1. page[c] \in Seq(Messages) /\ frame[c] \in Seq(Messages) /\ queue[c] \in Seq(Messages)
  BY DEF TypeOK
<1>2. /\ Ordered(page[c] \o queue[c])
      /\ Elements(page[c] \o queue[c]) \subseteq Elements(Stream(c))
  BY <1>1, OrderedWithout DEF Stream
<1>3. <<>> \in Seq(Messages) /\ page[c] \o queue[c] \o <<>> = page[c] \o queue[c]
      /\ page[c] \o <<>> = page[c]
  BY <1>1, ConcatEmptySeq
<1>4. Ordered(page[c]) /\ Elements(page[c]) \subseteq Elements(page[c] \o queue[c])
  <2>1. Ordered(page[c] \o queue[c] \o <<>>)
    BY <1>2, <1>3
  <2>2. /\ Ordered(page[c] \o <<>>)
        /\ Elements(page[c] \o <<>>) \subseteq Elements(page[c] \o queue[c] \o <<>>)
    BY <1>1, <1>3, <2>1, OrderedWithout
  <2>3. QED
    BY <1>3, <2>2
<1>5. QED
  BY <1>2, <1>4

\* Taking the head of a queue into a hand does not change the whole.
LEMMA TakenStream ==
    ASSUME NEW p \in Seq(Messages), NEW q \in Seq(Messages), q # <<>>
    PROVE  p \o <<Head(q)>> \o Tail(q) = p \o <<>> \o q
<1>1. /\ <<Head(q)>> \in Seq(Messages) /\ Tail(q) \in Seq(Messages)
      /\ <<Head(q)>> \o Tail(q) = q
  OBVIOUS
<1>2. (p \o <<Head(q)>>) \o Tail(q) = p \o (<<Head(q)>> \o Tail(q))
  BY <1>1, ConcatAssociative
<1>3. p \o <<>> = p
  BY ConcatEmptySeq
<1>4. QED
  BY <1>1, <1>2, <1>3

\* What is queued last comes last.
LEMMA AppendedStream ==
    ASSUME NEW s \in Seq(Messages), NEW q \in Seq(Messages), NEW m \in Messages
    PROVE  s \o Append(q, m) = Append(s \o q, m)
<1> SUFFICES ASSUME NEW a, a = s \o Append(q, m), NEW b, b = Append(s \o q, m)
             PROVE  a = b
  OBVIOUS
<1>1. /\ Len(s) \in Nat /\ Len(q) \in Nat
      /\ Append(q, m) \in Seq(Messages) /\ Len(Append(q, m)) = Len(q) + 1
      /\ s \o q \in Seq(Messages) /\ Len(s \o q) = Len(s) + Len(q)
  OBVIOUS
<1>2. /\ a \in Seq(Messages) /\ Len(a) = Len(s) + Len(q) + 1
      /\ b \in Seq(Messages) /\ Len(b) = Len(s) + Len(q) + 1
  BY <1>1
<1>3. ASSUME NEW i \in 1 .. Len(a) PROVE a[i] = b[i]
  BY <1>1, <1>2
<1>4. QED
  BY <1>2, <1>3, SeqEqual

\* A step that makes no call and offers nothing keeps a part of each stream.
LEMMA StreamStep ==
    ASSUME TypeOK, NEW c \in Conns, Connection(c), NEW d \in Conns
    PROVE  Stream(d)' \in {Stream(d), page[d] \o queue[d], page[d]}
<1>1. /\ page[d] \in Seq(Messages) /\ frame[d] \in Seq(Messages) /\ queue[d] \in Seq(Messages)
      /\ page \in [Conns -> Seq(Messages)] /\ frame \in [Conns -> Seq(Messages)]
      /\ queue \in [Conns -> Seq(Messages)]
  BY DEF TypeOK
<1>2. CASE UNCHANGED <<page, frame, queue>>
  BY <1>2 DEF Stream
<1>3. CASE d # c /\ (Take(c) \/ Write(c) \/ WriteFails(c))
  <2>1. page'[d] = page[d] /\ frame'[d] = frame[d] /\ queue'[d] = queue[d]
    BY <1>1, <1>3 DEF Take, Write, WriteFails
  <2>2. QED
    BY <2>1 DEF Stream
<1>4. CASE d = c /\ Take(c)
  <2>1. /\ frame[d] = <<>> /\ queue[d] # <<>>
        /\ page'[d] = page[d] /\ frame'[d] = <<Head(queue[d])>> /\ queue'[d] = Tail(queue[d])
    BY <1>1, <1>4 DEF Take
  <2>2. page[d] \o <<Head(queue[d])>> \o Tail(queue[d]) = page[d] \o <<>> \o queue[d]
    BY <1>1, <2>1, TakenStream
  <2>3. QED
    BY <2>1, <2>2 DEF Stream
<1>5. CASE d = c /\ Write(c)
  <2>1. frame'[d] = <<>> /\ queue'[d] = <<>>
    BY <1>1, <1>5 DEF Write
  <2>2. page'[d] = page[d] \o frame[d] \o queue[d] \/ page'[d] = page[d]
    BY <1>1, <1>5 DEF Write
  <2>3. page'[d] \in Seq(Messages)
    <3>1. page[d] \o frame[d] \in Seq(Messages)
      BY <1>1
    <3>2. page[d] \o frame[d] \o queue[d] \in Seq(Messages)
      BY <1>1, <3>1
    <3>3. QED
      BY <1>1, <2>2, <3>2
  <2>4. page'[d] \o <<>> \o <<>> = page'[d]
    BY <2>3, ConcatEmptySeq
  <2>5. QED
    BY <2>1, <2>2, <2>4 DEF Stream
<1>6. CASE d = c /\ WriteFails(c)
  <2>1. page'[d] = page[d] /\ frame'[d] = <<>> /\ queue'[d] = queue[d]
    BY <1>1, <1>6 DEF WriteFails
  <2>2. page[d] \o <<>> = page[d]
    BY <1>1, ConcatEmptySeq
  <2>3. QED
    BY <2>1, <2>2 DEF Stream
<1>7. CASE Register(c) \/ ReadFails(c) \/ Unregister(c) \/ SeeClosed(c)
  BY <1>2, <1>7 DEF Register, ReadFails, Unregister, SeeClosed
<1>8. QED
  BY <1>3, <1>4, <1>5, <1>6, <1>7 DEF Connection

\* Order is kept by everything the connections do.
LEMMA ConnectionKeepsOrder ==
    ASSUME OInv, NEW c \in Conns, Connection(c)
    PROVE  InTurn' /\ Streamed' /\ SerialOrder'
<1>1. TypeOK /\ InTurn /\ Streamed /\ SerialOrder
  BY DEF OInv, HInv
<1>2. cast' = cast
  BY DEF Connection, Register, ReadFails, Unregister, Take, Write, WriteFails, SeeClosed
<1>3. InTurn'
  BY <1>1, <1>2 DEF InTurn, Returned
<1>4. ASSUME NEW d \in Conns
      PROVE  Ordered(Stream(d))' /\ Elements(Stream(d))' \subseteq Elements(Stream(d))
  <2>1. Ordered(Stream(d))
    BY <1>1 DEF SerialOrder
  <2>2. Stream(d)' \in {Stream(d), page[d] \o queue[d], page[d]}
    BY <1>1, StreamStep
  <2>3. \A s : s \in {Stream(d), page[d] \o queue[d], page[d]} =>
           Ordered(s) /\ Elements(s) \subseteq Elements(Stream(d))
    BY <1>1, <2>1, PartOfStream
  <2>4. PICK s : s = Stream(d)'
    OBVIOUS
  <2>5. Ordered(s) /\ Elements(s) \subseteq Elements(Stream(d))
    BY <2>2, <2>3, <2>4
  <2>6. Ordered(Stream(d))' = Ordered(s) /\ Elements(Stream(d))' = Elements(s)
    BY <2>4 DEF Ordered, Elements
  <2>7. QED
    BY <2>5, <2>6
<1>5. Streamed'
  BY <1>1, <1>2, <1>4 DEF Streamed
<1>6. SerialOrder'
  BY <1>4 DEF SerialOrder
<1>7. QED
  BY <1>3, <1>5, <1>6

\* Calls are made in turn, and never unmade.
LEMMA SenderInTurn ==
    ASSUME HInv, InTurn, NEW m \in Messages, Sender(m)
    PROVE  /\ InTurn'
           /\ \A k \in Messages : cast[k].next > 0 => cast'[k].next > 0
<1>1. cast \in [Messages -> Call] /\ Calls
  BY DEF HInv, TypeOK
<1>2. \A k \in Messages \ {m} : cast'[k] = cast[k]
  BY <1>1 DEF Sender, BroadcastToUser, Offer, Panic
<1>3. /\ cast[m].next > 0 => cast'[m].next > 0
      /\ Returned(m) => cast'[m] = cast[m]
      /\ cast[m].next = 0 /\ cast'[m].next > 0 /\ After[m] # NULL => Returned(After[m])
  <2>1. CASE \E u \in Users : BroadcastToUser(m, u)
    BY <1>1, <2>1 DEF BroadcastToUser, NotCalled, Returned
  <2>2. CASE Offer(m)
    <3>1. Sending(m) /\ cast' = [cast EXCEPT ![m].next = cast[m].next + 1]
      BY <2>2 DEF Offer
    <3>2. cast'[m].next = cast[m].next + 1 /\ cast[m].next \in Nat /\ cast[m].size \in Nat
      BY <1>1, <3>1 DEF Call
    <3>3. QED
      BY <3>1, <3>2 DEF Sending, Returned
  <2>3. CASE Panic(m)
    <3>1. Sending(m) /\ cast' = [cast EXCEPT ![m].next = cast[m].size + 1]
      BY <2>3 DEF Panic
    <3>2. cast'[m].next = cast[m].size + 1 /\ cast[m].next \in Nat /\ cast[m].size \in Nat
      BY <1>1, <3>1 DEF Call
    <3>3. QED
      BY <3>1, <3>2 DEF Sending, Returned
  <2>4. QED
    BY <2>1, <2>2, <2>3 DEF Sender
<1>4. \A k \in Messages : Returned(k) => cast'[k] = cast[k]
  BY <1>2, <1>3
<1>5. ASSUME NEW k \in Messages, cast'[k].next > 0, After[k] # NULL
      PROVE  Returned(After[k])'
  <2>1. After[k] \in Messages
    BY <1>5, MessagesAssumption
  <2>2. Returned(After[k])
    <3>1. CASE k = m
      <4>1. cast[m].next \in Nat
        BY <1>1 DEF Call
      <4>2. QED
        BY <1>3, <1>5, <3>1, <4>1 DEF InTurn
    <3>2. CASE k # m
      BY <1>2, <1>5, <3>2 DEF InTurn
    <3>3. QED
      BY <3>1, <3>2
  <2>3. QED
    BY <1>4, <2>1, <2>2 DEF Returned
<1>6. QED
  BY <1>2, <1>3, <1>5 DEF InTurn

\* Order is kept by a call and by what it offers.
LEMMA SenderKeepsOrder ==
    ASSUME OInv, NEW m \in Messages, Sender(m)
    PROVE  InTurn' /\ Streamed' /\ SerialOrder'
<1>1. HInv /\ TypeOK /\ InTurn /\ Streamed /\ SerialOrder
  BY DEF OInv, HInv
<1>2. InTurn' /\ \A k \in Messages : cast[k].next > 0 => cast'[k].next > 0
  BY <1>1, SenderInTurn
<1>3. ASSUME NEW d \in Conns
      PROVE  Stream(d) \in Seq(Messages) /\ Elements(Stream(d)) \subseteq Messages
  <2>1. page[d] \in Seq(Messages) /\ frame[d] \in Seq(Messages) /\ queue[d] \in Seq(Messages)
    BY <1>1 DEF TypeOK
  <2>2. page[d] \o frame[d] \in Seq(Messages)
    BY <2>1
  <2>3. page[d] \o frame[d] \o queue[d] \in Seq(Messages)
    BY <2>1, <2>2
  <2>4. Stream(d) \in Seq(Messages)
    BY <2>3 DEF Stream
  <2>5. QED
    BY <2>4 DEF Elements
<1>4. CASE UNCHANGED <<page, frame, queue>>
  <2>1. \A d \in Conns : Stream(d)' = Stream(d)
    BY <1>4 DEF Stream
  <2>2. \A d \in Conns : Ordered(Stream(d))' = Ordered(Stream(d))
                         /\ Elements(Stream(d))' = Elements(Stream(d))
    BY <2>1 DEF Ordered, Elements
  <2>3. QED
    BY <1>1, <1>2, <1>3, <2>2 DEF Streamed, SerialOrder
<1>5. CASE Offer(m)
  <2> DEFINE c == Slot(m)
  <2>1. Sending(m) /\ c \in Conns
    BY <1>1, <1>5, CallSlots DEF HInv, Offer
  <2>2. /\ UNCHANGED <<page, frame>>
        /\ \A d \in Conns : queue'[d] = queue[d] \/ queue'[d] = Append(queue[d], m)
    BY <1>1, <1>5, <2>1 DEF Offer, TypeOK
  <2>3. cast[m].next > 0 /\ ~Returned(m) /\ cast'[m].next > 0
    <3>1. cast[m] \in Call
      BY <1>1 DEF TypeOK
    <3>2. cast[m].next > 0 /\ ~Returned(m)
      BY <2>1, <3>1 DEF Sending, Returned, Call
    <3>3. QED
      BY <1>2, <3>2
  <2>4. ASSUME NEW d \in Conns
        PROVE  Stream(d)' = Stream(d) \/ Stream(d)' = Append(Stream(d), m)
    <3>1. page[d] \in Seq(Messages) /\ frame[d] \in Seq(Messages) /\ queue[d] \in Seq(Messages)
      BY <1>1 DEF TypeOK
    <3>2. page[d] \o frame[d] \in Seq(Messages)
      BY <3>1
    <3>3. page[d] \o frame[d] \o Append(queue[d], m) = Append(page[d] \o frame[d] \o queue[d], m)
      BY <3>1, <3>2, AppendedStream
    <3>4. QED
      BY <2>2, <3>3 DEF Stream
  <2>5. ASSUME NEW d \in Conns
        PROVE  /\ Ordered(Stream(d))'
               /\ \A k \in Elements(Stream(d))' : cast'[k].next > 0
    <3>1. CASE Stream(d)' = Stream(d)
      <4>1. Ordered(Stream(d))' = Ordered(Stream(d)) /\ Elements(Stream(d))' = Elements(Stream(d))
        BY <3>1 DEF Ordered, Elements
      <4>2. QED
        BY <1>1, <1>2, <1>3, <4>1 DEF Streamed, SerialOrder
    <3>2. CASE Stream(d)' = Append(Stream(d), m)
      <4>1. PICK s : s = Stream(d)
        OBVIOUS
      <4>2. /\ s \in Seq(Messages) /\ Ordered(s)
            /\ \A i \in 1 .. Len(s) : s[i] \in Messages /\ cast[s[i]].next > 0
        BY <1>1, <1>3, <4>1 DEF Streamed, SerialOrder, Elements
      <4>3. \A i \in 1 .. Len(s) : m # After[s[i]]
        BY <1>1, <2>3, <4>2, NullAssumption DEF InTurn
      <4>4. Ordered(Append(s, m))
        BY <4>2, <4>3, OrderedAppend
      <4>5. \A i \in 1 .. Len(Append(s, m)) : cast'[Append(s, m)[i]].next > 0
        BY <1>2, <2>3, <4>2
      <4>6. DOMAIN Append(s, m) = 1 .. Len(Append(s, m))
        BY <4>2
      <4>7. PICK t : t = Append(s, m)
        OBVIOUS
      <4>8. Ordered(Stream(d))' = Ordered(t) /\ Elements(Stream(d))' = Elements(t)
        BY <3>2, <4>1, <4>7 DEF Ordered, Elements
      <4>9. QED
        BY <4>4, <4>5, <4>6, <4>7, <4>8 DEF Elements
    <3>3. QED
      BY <2>4, <3>1, <3>2
  <2>6. QED
    BY <1>2, <2>5 DEF Streamed, SerialOrder
<1>6. QED
  BY <1>4, <1>5 DEF Sender, BroadcastToUser, Panic, pumps

\* Serial broadcasts arrive in their order.
THEOREM SerialBroadcasts == Spec => []SerialOrder
<1>1. Init => OInv
  <2> SUFFICES ASSUME Init PROVE OInv
    OBVIOUS
  <2>1. \A c \in Conns : Stream(c) = <<>>
    BY ConcatEmptySeq DEF Init, Stream
  <2>2. InTurn
    BY DEF Init, InTurn, NotCalled
  <2>3. Streamed /\ SerialOrder
    BY <2>1 DEF Streamed, SerialOrder, Elements, Ordered
  <2>4. QED
    BY <2>2, <2>3, HInvInit DEF OInv
<1>2. OInv /\ [Next]_vars => OInv'
  <2> SUFFICES ASSUME OInv, [Next]_vars PROVE OInv'
    OBVIOUS
  <2>1. HInv'
    BY HInvNext DEF OInv
  <2>2. ASSUME Next PROVE InTurn' /\ Streamed' /\ SerialOrder'
    <3>1. CASE \E c \in Conns : Connection(c)
      BY <3>1, ConnectionKeepsOrder
    <3>2. CASE \E m \in Messages : Sender(m)
      BY <3>2, SenderKeepsOrder
    <3>3. QED
      BY <2>2, <3>1, <3>2 DEF Next
  <2>3. ASSUME UNCHANGED vars PROVE InTurn' /\ Streamed' /\ SerialOrder'
    <3>1. cast' = cast /\ \A c \in Conns : Stream(c)' = Stream(c)
      BY <2>3 DEF vars, pumps, Stream
    <3>2. \A c \in Conns : /\ Ordered(Stream(c))' = Ordered(Stream(c))
                           /\ Elements(Stream(c))' = Elements(Stream(c))
      BY <3>1 DEF Ordered, Elements
    <3>3. InTurn' = InTurn
      BY <3>1 DEF InTurn, Returned
    <3>4. Streamed' /\ SerialOrder'
      BY <3>1, <3>2 DEF OInv, Streamed, SerialOrder
    <3>5. QED
      BY <3>3, <3>4 DEF OInv
  <2>4. QED
    BY <2>1, <2>2, <2>3 DEF OInv
<1>3. OInv => SerialOrder
  BY DEF OInv
<1>4. QED
  BY <1>1, <1>2, <1>3, PTL DEF Spec

(***************************************************************************)
(* What the liveness properties rest on.  That a buffered message is       *)
(* written and that a broken connection ends follows, given fairness, from *)
(* what is proved here: the pump of a connection that lasts runs and loses *)
(* nothing, and the pump of one that was unregistered only drains.         *)
(***************************************************************************)

Lasting == Conns \ Leaving

\* A broadcast only ever meets clients that have been registered.
SlotsKnown == \A m \in Messages : \A i \in 1 .. cast[m].size :
    conn[arrays[cast[m].user][cast[m].array][i]] # "new"

\* Registered once, a client is never new again.
LEMMA NeverNew ==
    ASSUME TypeOK, [Next]_vars, NEW c \in Conns, conn[c] # "new"
    PROVE  conn'[c] # "new"
<1>1. ASSUME NEW d \in Conns, Connection(d) PROVE conn'[c] # "new"
  BY <1>1 DEF TypeOK, Connection, Register, ReadFails, Unregister, Take, Write, WriteFails, SeeClosed
<1>2. ASSUME NEW m \in Messages, Sender(m) PROVE conn' = conn
  BY <1>2 DEF Sender, BroadcastToUser, Offer, Panic, pumps
<1>3. QED
  BY <1>1, <1>2 DEF Next, vars, pumps

\* A registration puts a registered client into a slot, an unregistration moves
\* registered clients, and a call starts with the registered ones.
LEMMA SlotsKnownStep == HInv /\ SlotsKnown /\ [Next]_vars => SlotsKnown'
<1> SUFFICES ASSUME HInv, SlotsKnown, [Next]_vars, NEW m \in Messages, NEW i \in 1 .. cast'[m].size
             PROVE  conn'[arrays'[cast'[m].user][cast'[m].array][i]] # "new"
  BY DEF SlotsKnown
<1>0. TypeOK /\ MapsAgree /\ Calls
  BY DEF HInv
<1>1. ASSUME UNCHANGED <<arrays, cast>>
      PROVE  conn'[arrays'[cast'[m].user][cast'[m].array][i]] # "new"
  <2>1. cast[m].size > 0 /\ i \in 1 .. cast[m].size
    BY <1>0, <1>1 DEF TypeOK, Call
  <2>2. CallOK(m)
    BY <1>0, <2>1 DEF Calls, NotCalled
  <2>3. arrays[cast[m].user][cast[m].array][i] \in Conns
    BY <2>1, <2>2 DEF CallOK
  <2>4. conn[arrays[cast[m].user][cast[m].array][i]] # "new"
    BY <2>1 DEF SlotsKnown
  <2>5. QED
    BY <1>0, <1>1, <2>3, <2>4, NeverNew
<1>2. ASSUME NEW c \in Conns, cast' = cast,
             NEW u \in Users, NEW ar, arrays' = [arrays EXCEPT ![u] = ar],
             \A j \in 1 .. Len(arrays[u]) : \A k \in 1 .. Len(arrays[u][j]) :
                arrays[u][j][k] \in Conns =>
                  ar[j][k] = arrays[u][j][k] \/ (ar[j][k] \in Conns /\ conn'[ar[j][k]] # "new")
      PROVE  conn'[arrays'[cast'[m].user][cast'[m].array][i]] # "new"
  <2>1. cast[m].size > 0 /\ i \in 1 .. cast[m].size
    BY <1>0, <1>2 DEF TypeOK, Call
  <2>2. CallOK(m)
    BY <1>0, <2>1 DEF Calls, NotCalled
  <2>2a. PICK v \in Users : v = cast[m].user
    BY <2>2 DEF CallOK
  <2>3. PICK j, slot : v = cast[m].user /\ j = cast[m].array /\ slot = arrays[v][j][i]
    BY <2>2a
  <2>4. /\ slot \in Conns
        /\ j \in 1 .. Len(arrays[v])
        /\ i \in 1 .. Len(arrays[v][j])
    <3>1. cast[m].size \in Nat /\ j \in Nat
      BY <1>0, <2>3 DEF TypeOK, Call
    <3>2. arrays[v] \in Seq(Seq(Slots))
      BY <1>0 DEF TypeOK, Slots
    <3>3. j \in 1 .. Len(arrays[v])
      BY <2>1, <2>2, <2>3, <3>1 DEF CallOK
    <3>4. Len(arrays[v][j]) \in Nat
      BY <3>2, <3>3
    <3>5. QED
      BY <2>1, <2>2, <2>3, <3>1, <3>3, <3>4 DEF CallOK
  <2>5. conn[slot] # "new"
    BY <2>1, <2>3 DEF SlotsKnown
  <2>6. conn'[slot] # "new"
    BY <1>0, <2>4, <2>5, NeverNew
  <2>7. arrays'[cast'[m].user][cast'[m].array][i] = arrays'[v][j][i]
    BY <1>2, <2>3
  <2>8. CASE v # u
    <3>1. arrays'[v] = arrays[v]
      BY <1>0, <1>2, <2>8 DEF TypeOK
    <3>2. QED
      BY <2>3, <2>6, <2>7, <3>1
  <2>9. CASE v = u
    <3>1. arrays'[v] = ar
      BY <1>0, <1>2, <2>9 DEF TypeOK
    <3>2. ar[j][i] = slot \/ conn'[ar[j][i]] # "new"
      BY <1>2, <2>3, <2>4, <2>9
    <3>3. QED
      BY <2>6, <2>7, <3>1, <3>2
  <2>10. QED
    BY <2>8, <2>9
<1>3. ASSUME NEW c \in Conns, Register(c)
      PROVE  conn'[arrays'[cast'[m].user][cast'[m].array][i]] # "new"
  <2>0. PICK u \in Users : u = UserOf[c]
    BY UserOfAssumption
  <2>1. PICK ar : u = UserOf[c] /\ ar = Appended(u, c)
    BY <2>0
  <2>2. IsAppended(u, c, size[u], Len(arrays[u]), ar)
    BY <1>0, <2>1, AppendedSlots
  <2>3. /\ cast' = cast /\ arrays' = [arrays EXCEPT ![u] = ar]
        /\ conn' = [conn EXCEPT ![c] = "open"]
    BY <1>3, <2>1 DEF Register
  <2>4. conn'[c] = "open"
    BY <1>0, <2>3 DEF TypeOK
  <2>5. ASSUME NEW j \in 1 .. Len(arrays[u]), NEW k \in 1 .. Len(arrays[u][j])
        PROVE  ar[j][k] = arrays[u][j][k] \/ ar[j][k] = c
    BY <2>2 DEF IsAppended
  <2>6. QED
    BY <1>2, <2>3, <2>4, <2>5
<1>4. ASSUME NEW c \in Conns, Unregister(c)
      PROVE  conn'[arrays'[cast'[m].user][cast'[m].array][i]] # "new"
  <2>0. PICK u \in Users : u = UserOf[c]
    BY UserOfAssumption
  <2>1. PICK ar : u = UserOf[c] /\ ar = Removed(u, c)
    BY <2>0
  <2>2. /\ cast' = cast /\ arrays' = [arrays EXCEPT ![u] = ar]
        /\ conn[c] = "broken"
    BY <1>4, <2>1 DEF Unregister
  <2>3. c \in clients
    BY <1>0, <2>2 DEF MapsAgree
  <2>4. \E k \in 1 .. size[u] : Newest(u)[k] = c
    BY <1>0, <2>1, <2>3, SliceSlots
  <2>5. IsRemoved(u, c, size[u], Len(arrays[u]), ar)
    BY <1>0, <2>1, <2>4, RemovedSlots
  <2>6. \A k \in 1 .. size[u] : Newest(u)[k] \in Conns /\ conn'[Newest(u)[k]] # "new"
    <3>1. ASSUME NEW k \in 1 .. size[u]
          PROVE  Newest(u)[k] \in Conns /\ conn[Newest(u)[k]] # "new"
      <4>1. Newest(u)[k] \in clients
        BY <1>0, SliceSlots
      <4>2. QED
        BY <1>0, <4>1 DEF MapsAgree
    <3>2. QED
      BY <1>0, <3>1, NeverNew
  <2>7. ASSUME NEW j \in 1 .. Len(arrays[u]), NEW k \in 1 .. Len(arrays[u][j])
        PROVE  ar[j][k] = arrays[u][j][k] \/ (ar[j][k] \in Conns /\ conn'[ar[j][k]] # "new")
    <3>1. PICK n, L : n = size[u] /\ L = Len(arrays[u])
      OBVIOUS
    <3>2. CASE j # L
      BY <2>5, <3>1, <3>2 DEF IsRemoved
    <3>3. CASE j = L
      <4>0. size[u] \in Nat /\ size[u] > 0 /\ Len(Newest(u)) \in Nat /\ size[u] <= Len(Newest(u))
        <5>1. size[u] \in Nat \ {0}
          BY <2>5 DEF IsRemoved
        <5>2. Newest(u) \in Seq(Slots) /\ size[u] <= Len(Newest(u))
          BY <1>0, SliceSlots
        <5>3. QED
          BY <5>1, <5>2
      <4>1. arrays[u][j] = Newest(u) /\ k \in 1 .. Len(Newest(u))
        <5>1. Newest(u) = arrays[u][Len(arrays[u])]
          BY <1>0, <4>0, SliceSlots
        <5>2. QED
          BY <3>1, <3>3, <5>1
      <4>2. ar[j][k] = Newest(u)[k] \/ (k < n /\ ar[j][k] = Newest(u)[k + 1])
        BY <2>5, <3>1, <3>3, <4>1 DEF IsRemoved
      <4>3. k < n => k + 1 \in 1 .. size[u]
        BY <3>1, <4>0
      <4>4. QED
        BY <2>6, <4>1, <4>2, <4>3
    <3>4. QED
      BY <3>2, <3>3
  <2>8. QED
    BY <1>2, <2>2, <2>7
<1>5. ASSUME NEW c \in Conns, ReadFails(c) \/ Take(c) \/ Write(c) \/ WriteFails(c) \/ SeeClosed(c)
      PROVE  UNCHANGED <<arrays, cast>>
  BY <1>5 DEF ReadFails, Take, Write, WriteFails, SeeClosed, hub
<1>6. ASSUME NEW k \in Messages, NEW u \in Users, BroadcastToUser(k, u)
      PROVE  conn'[arrays'[cast'[m].user][cast'[m].array][i]] # "new"
  <2>1. arrays' = arrays /\ conn' = conn
    BY <1>6 DEF BroadcastToUser, hub, pumps
  <2>2. CASE m = k
    <3>1. cast'[m].user = u /\ cast'[m].array = Len(arrays[u]) /\ cast'[m].size = size[u]
      BY <1>0, <1>6, <2>2 DEF BroadcastToUser, TypeOK
    <3>2. i \in 1 .. size[u]
      BY <3>1
    <3>3. Newest(u) = arrays[u][Len(arrays[u])] /\ Newest(u)[i] \in clients
      BY <1>0, <3>2, SliceSlots
    <3>4. conn[Newest(u)[i]] # "new"
      BY <1>0, <3>3 DEF MapsAgree
    <3>5. QED
      BY <2>1, <3>1, <3>3, <3>4
  <2>3. CASE m # k
    <3>1. cast'[m] = cast[m]
      BY <1>0, <1>6, <2>3 DEF BroadcastToUser, TypeOK
    <3>2. QED
      BY <2>1, <3>1 DEF SlotsKnown
  <2>4. QED
    BY <2>2, <2>3
<1>7. ASSUME NEW k \in Messages, Offer(k) \/ Panic(k)
      PROVE  conn'[arrays'[cast'[m].user][cast'[m].array][i]] # "new"
  <2>1. arrays' = arrays /\ conn' = conn
    BY <1>7 DEF Offer, Panic, hub, pumps
  <2>2. cast[m] \in Call
    BY <1>0 DEF TypeOK
  <2>3. cast'[m].user = cast[m].user /\ cast'[m].array = cast[m].array /\ cast'[m].size = cast[m].size
    <3>1. PICK e : cast' = [cast EXCEPT ![k] = [cast[k] EXCEPT !.next = e]]
      BY <1>7 DEF Offer, Panic
    <3>2. m # k => cast'[m] = cast[m]
      BY <1>0, <3>1 DEF TypeOK
    <3>3. m = k => cast'[m] = [cast[m] EXCEPT !.next = e]
      BY <1>0, <3>1 DEF TypeOK
    <3>4. m = k => /\ cast'[m].user = cast[m].user /\ cast'[m].array = cast[m].array
                   /\ cast'[m].size = cast[m].size
      BY <2>2, <3>3 DEF Call
    <3>5. QED
      BY <3>2, <3>4
  <2>4. QED
    BY <2>1, <2>3 DEF SlotsKnown
<1>8. QED
  BY <1>1, <1>3, <1>4, <1>5, <1>6, <1>7 DEF Next, Connection, Sender, vars, hub

\* A connection that lasts has its write pump running from its registration on,
\* and nothing is given to it before.
Runs(c) ==
    \/ conn[c] = "new" /\ writer[c] = "off" /\ frame[c] = <<>> /\ queue[c] = <<>>
    \/ conn[c] = "open" /\ writer[c] = "on"

LastingRuns == \A c \in Lasting : Runs(c)

LEMMA LastingRunsStep == HInv /\ SlotsKnown /\ LastingRuns /\ [Next]_vars => LastingRuns'
<1> SUFFICES ASSUME HInv, SlotsKnown, LastingRuns, [Next]_vars, NEW c \in Conns, c \notin Leaving
             PROVE  Runs(c)'
  BY DEF LastingRuns, Lasting
<1>0. TypeOK /\ MapsAgree /\ Runs(c)
  BY DEF HInv, LastingRuns, Lasting
<1>1. ASSUME NEW d \in Conns, d # c, Connection(d)
      PROVE  Runs(c)'
  <2>1. conn'[c] = conn[c] /\ writer'[c] = writer[c] /\ frame'[c] = frame[c] /\ queue'[c] = queue[c]
    BY <1>0, <1>1 DEF TypeOK, Connection, Register, ReadFails, Unregister, Take, Write, WriteFails, SeeClosed
  <2>2. QED
    BY <1>0, <2>1 DEF Runs
<1>2. ASSUME Register(c) PROVE Runs(c)'
  BY <1>0, <1>2 DEF TypeOK, Register, Runs
<1>3. ASSUME Take(c) \/ Write(c) PROVE Runs(c)'
  BY <1>0, <1>3 DEF Take, Write, Runs
<1>4. ASSUME ReadFails(c) \/ Unregister(c) \/ WriteFails(c) PROVE FALSE
  BY <1>0, <1>4 DEF ReadFails, Unregister, WriteFails, Runs
<1>5. ~SeeClosed(c)
  BY <1>0 DEF SeeClosed, MapsAgree, Runs
<1>6. ASSUME NEW m \in Messages, Offer(m) PROVE Runs(c)'
  <2>1. conn' = conn /\ writer' = writer /\ frame' = frame
    BY <1>6 DEF Offer
  <2>2. CASE conn[c] = "new"
    <3>1. Slot(m) # c
      BY <1>6, <2>2 DEF SlotsKnown, Offer, Sending, Slot
    <3>2. queue'[c] = queue[c]
      BY <1>0, <1>6, <3>1 DEF Offer, TypeOK
    <3>3. QED
      BY <1>0, <2>1, <3>2 DEF Runs
  <2>3. CASE conn[c] # "new"
    BY <1>0, <2>1, <2>3 DEF Runs
  <2>4. QED
    BY <2>2, <2>3
<1>7. ASSUME \/ \E m \in Messages : Panic(m) \/ \E u \in Users : BroadcastToUser(m, u)
             \/ UNCHANGED vars
      PROVE  Runs(c)'
  BY <1>0, <1>7 DEF Panic, BroadcastToUser, vars, pumps, Runs
<1>8. QED
  BY <1>1, <1>2, <1>3, <1>4, <1>5, <1>6, <1>7 DEF Next, Connection, Sender

LEMMA LastingRunsHolds == Spec => []LastingRuns
<1>1. Init => SlotsKnown /\ LastingRuns
  BY DEF Init, SlotsKnown, LastingRuns, Lasting, Runs, NotCalled
<1>2. QED
  BY <1>1, SlotsKnownStep, LastingRunsStep, HubInvariant, PTL DEF Spec

\* What a connection that lasts has been given only grows, and at its end: no
\* message that got into its buffer is lost, moved or written twice, however
\* the pump mixes taking, collecting and writing with the broadcasts.
NothingLost ==
    [][\A c \in Lasting : \/ Stream(c)' = Stream(c)
                          \/ \E m \in Messages : Stream(c)' = Append(Stream(c), m)]_vars

LEMMA LastingStream ==
    ASSUME HInv, LastingRuns, NEW c \in Conns, c \notin Leaving, NEW d \in Conns, Connection(d)
    PROVE  Stream(c)' = Stream(c)
<1>0. TypeOK /\ Runs(c)
  BY DEF HInv, LastingRuns, Lasting
<1>1. /\ page[c] \in Seq(Messages) /\ frame[c] \in Seq(Messages) /\ queue[c] \in Seq(Messages)
      /\ page \in [Conns -> Seq(Messages)] /\ frame \in [Conns -> Seq(Messages)]
      /\ queue \in [Conns -> Seq(Messages)]
  BY <1>0 DEF TypeOK
<1>2. ASSUME page'[c] = page[c] /\ frame'[c] = frame[c] /\ queue'[c] = queue[c]
      PROVE  Stream(c)' = Stream(c)
  BY <1>2 DEF Stream
<1>3. CASE d # c
  BY <1>1, <1>2, <1>3 DEF Connection, Register, ReadFails, Unregister, Take, Write, WriteFails, SeeClosed
<1>4. CASE d = c /\ Take(c)
  <2>1. /\ frame[c] = <<>> /\ queue[c] # <<>>
        /\ page'[c] = page[c] /\ frame'[c] = <<Head(queue[c])>> /\ queue'[c] = Tail(queue[c])
    BY <1>1, <1>4 DEF Take
  <2>2. page[c] \o <<Head(queue[c])>> \o Tail(queue[c]) = page[c] \o <<>> \o queue[c]
    BY <1>1, <2>1, TakenStream
  <2>3. QED
    BY <2>1, <2>2 DEF Stream
<1>5. CASE d = c /\ Write(c)
  <2>1. frame'[c] = <<>> /\ queue'[c] = <<>> /\ page'[c] = page[c] \o frame[c] \o queue[c]
    BY <1>0, <1>1, <1>5 DEF Write, Runs
  <2>2. page'[c] \in Seq(Messages)
    <3>1. page[c] \o frame[c] \in Seq(Messages)
      BY <1>1
    <3>2. page[c] \o frame[c] \o queue[c] \in Seq(Messages)
      BY <1>1, <3>1
    <3>3. QED
      BY <2>1, <3>2
  <2>3. page'[c] \o <<>> \o <<>> = page'[c]
    BY <2>2, ConcatEmptySeq
  <2>4. QED
    BY <2>1, <2>3 DEF Stream
<1>6. CASE d = c /\ WriteFails(c)
  BY <1>0, <1>6 DEF WriteFails, Runs
<1>7. CASE Register(d) \/ ReadFails(d) \/ Unregister(d) \/ SeeClosed(d)
  BY <1>2, <1>7 DEF Register, ReadFails, Unregister, SeeClosed
<1>8. QED
  BY <1>3, <1>4, <1>5, <1>6, <1>7 DEF Connection

\* A broadcast adds its message behind everything else, or nothing.
LEMMA SenderStream ==
    ASSUME HInv, NEW c \in Conns, NEW m \in Messages, Sender(m)
    PROVE  Stream(c)' = Stream(c) \/ Stream(c)' = Append(Stream(c), m)
<1>0. TypeOK
  BY DEF HInv
<1>1. CASE UNCHANGED <<page, frame, queue>>
  BY <1>1 DEF Stream
<1>2. CASE Offer(m)
  <2>1. Slot(m) \in Conns
    BY <1>0, <1>2 DEF TypeOK, Offer
  <2>2. /\ UNCHANGED <<page, frame>>
        /\ queue'[c] = queue[c] \/ queue'[c] = Append(queue[c], m)
    BY <1>0, <1>2, <2>1 DEF Offer, TypeOK
  <2>3. page[c] \in Seq(Messages) /\ frame[c] \in Seq(Messages) /\ queue[c] \in Seq(Messages)
    BY <1>0 DEF TypeOK
  <2>4. page[c] \o frame[c] \in Seq(Messages)
    BY <2>3
  <2>5. page[c] \o frame[c] \o Append(queue[c], m) = Append(page[c] \o frame[c] \o queue[c], m)
    BY <2>3, <2>4, AppendedStream
  <2>6. QED
    BY <2>2, <2>5 DEF Stream
<1>3. QED
  BY <1>1, <1>2 DEF Sender, BroadcastToUser, Panic, pumps

\* Everything that gets into the buffer of a connection that lasts stays in
\* line until it is written.
THEOREM BufferedIsKept == Spec => NothingLost
<1>1. ASSUME HInv, LastingRuns, [Next]_vars, NEW c \in Lasting
      PROVE  Stream(c)' = Stream(c) \/ \E m \in Messages : Stream(c)' = Append(Stream(c), m)
  <2>1. c \in Conns /\ c \notin Leaving
    BY DEF Lasting
  <2>2. ASSUME UNCHANGED vars PROVE Stream(c)' = Stream(c)
    BY <2>2 DEF vars, pumps, Stream
  <2>3. QED
    BY <1>1, <2>1, <2>2, LastingStream, SenderStream DEF Next
<1>2. HInv /\ LastingRuns /\ [Next]_vars =>
        \A c \in Lasting : \/ Stream(c)' = Stream(c)
                           \/ \E m \in Messages : Stream(c)' = Append(Stream(c), m)
  BY <1>1
<1>3. QED
  BY <1>2, HubInvariant, LastingRunsHolds, PTL DEF Spec, NothingLost

\* What is left to do for the write pump of a connection whose channel is closed.
Ending(c) == IF writer[c] = "on" THEN 1 ELSE 0
Left(c) == 2 * Len(queue[c]) + Len(frame[c]) + Ending(c)

\* A channel that is closed stays closed and gets nothing more, and every step
\* of its pump brings the pump closer to its end.
ClosedDrains ==
    [][\A c \in closed : /\ c \in closed'
                         /\ UNCHANGED <<queue[c], frame[c], writer[c]>> \/ Left(c)' < Left(c)]_vars

\* An unregistered connection keeps its goroutine for no more than twice the
\* messages that were buffered, two steps for the last frame and one to end.
THEOREM ClosedPumpsEnd == Spec => ClosedDrains
<1>1. ASSUME HInv, [Next]_vars, NEW c \in Conns, c \in closed
      PROVE  c \in closed' /\ (UNCHANGED <<queue[c], frame[c], writer[c]>> \/ Left(c)' < Left(c))
  <2>0. TypeOK /\ conn[c] = "gone"
    BY <1>1 DEF HInv, TypeOK, MapsAgree
  <2>1. c \in closed'
    <3>1. ASSUME NEW d \in Conns, Connection(d) PROVE c \in closed'
      BY <1>1, <3>1 DEF Connection, Register, ReadFails, Unregister, Take, Write, WriteFails, SeeClosed
    <3>2. ASSUME NEW m \in Messages, Sender(m) PROVE c \in closed'
      BY <1>1, <3>2 DEF Sender, BroadcastToUser, Offer, Panic, pumps
    <3>3. QED
      BY <1>1, <3>1, <3>2 DEF Next, vars, pumps
  <2>2. /\ queue[c] \in Seq(Messages) /\ frame[c] \in Seq(Messages)
        /\ Len(queue[c]) \in Nat /\ Len(frame[c]) \in Nat
        /\ queue \in [Conns -> Seq(Messages)] /\ frame \in [Conns -> Seq(Messages)]
        /\ writer \in [Conns -> {"off", "on", "done"}]
    BY <2>0 DEF TypeOK
  <2>3. ASSUME NEW m \in Messages, Sender(m) PROVE UNCHANGED <<queue[c], frame[c], writer[c]>>
    <3>1. CASE UNCHANGED pumps
      BY <3>1 DEF pumps
    <3>2. CASE Offer(m)
      <4>1. PICK d : d = Slot(m) /\ d \notin closed /\ writer' = writer /\ frame' = frame
                     /\ (queue' = queue \/ queue' = [queue EXCEPT ![d] = Append(queue[d], m)])
        BY <3>2 DEF Offer
      <4>2. c # d
        BY <1>1, <4>1
      <4>3. QED
        BY <2>2, <4>1, <4>2
    <3>3. QED
      BY <2>3, <3>1, <3>2 DEF Sender, BroadcastToUser, Panic
  <2>4. ASSUME NEW d \in Conns, d # c, Connection(d) PROVE UNCHANGED <<queue[c], frame[c], writer[c]>>
    BY <2>2, <2>4 DEF Connection, Register, ReadFails, Unregister, Take, Write, WriteFails, SeeClosed
  <2>5. ASSUME Register(c) \/ ReadFails(c) \/ Unregister(c) PROVE FALSE
    BY <2>0, <2>5 DEF Register, ReadFails, Unregister
  <2>6. ASSUME Take(c) PROVE Left(c)' < Left(c)
    <3>1. /\ frame[c] = <<>> /\ frame'[c] = <<Head(queue[c])>> /\ writer'[c] = writer[c]
          /\ queue[c] # <<>> /\ queue'[c] = Tail(queue[c])
      BY <2>2, <2>6 DEF Take
    <3>2. PICK q \in Nat : q = Len(queue[c]) - 1
      <4>1. PICK l \in Nat : l = Len(queue[c])
        BY <2>2
      <4>2. l # 0
        BY <2>2, <3>1, <4>1
      <4>3. l - 1 \in Nat
        BY <4>2
      <4>4. QED
        BY <4>1, <4>3, Zenon
    <3>3. Len(queue[c]) = q + 1 /\ Len(queue'[c]) = q /\ Len(frame'[c]) = 1 /\ Len(frame[c]) = 0
      BY <2>2, <3>1, <3>2
    <3>4. PICK w \in Nat : w = Ending(c) /\ w = Ending(c)'
      BY <3>1 DEF Ending
    <3>5. 2 * q + 1 + w < 2 * (q + 1) + 0 + w
      <4>1. \A x, y \in Nat : 2 * x + 1 + y < 2 * (x + 1) + 0 + y
        OBVIOUS
      <4>2. QED
        BY <4>1, Zenon
    <3>6. QED
      BY <3>3, <3>4, <3>5, Zenon DEF Left
  <2>7. ASSUME Write(c) PROVE Left(c)' < Left(c)
    <3>1. frame[c] # <<>> /\ frame'[c] = <<>> /\ queue'[c] = <<>> /\ writer'[c] = writer[c]
      BY <2>2, <2>7 DEF Write
    <3>2. PICK q \in Nat, f \in Nat : q = Len(queue[c]) /\ f = Len(frame[c])
      BY <2>2
    <3>3. Len(queue'[c]) = 0 /\ Len(frame'[c]) = 0 /\ f > 0
      BY <2>2, <3>1, <3>2
    <3>4. PICK w \in Nat : w = Ending(c) /\ w = Ending(c)'
      BY <3>1 DEF Ending
    <3>5. 2 * 0 + 0 + w < 2 * q + f + w
      <4>1. \A x, y, z \in Nat : y > 0 => 2 * 0 + 0 + z < 2 * x + y + z
        OBVIOUS
      <4>2. QED
        BY <3>3, <4>1, Zenon
    <3>6. QED
      BY <3>2, <3>3, <3>4, <3>5, Zenon DEF Left
  <2>8. ASSUME WriteFails(c) \/ SeeClosed(c) PROVE Left(c)' < Left(c)
    <3>1. /\ frame'[c] = <<>> \/ frame'[c] = frame[c]
          /\ queue'[c] = queue[c] /\ writer[c] = "on" /\ writer'[c] = "done"
      BY <2>2, <2>8 DEF WriteFails, SeeClosed
    <3>2. PICK q \in Nat, f \in Nat : q = Len(queue[c]) /\ f = Len(frame[c])
      BY <2>2
    <3>3. PICK g \in Nat : g = Len(frame'[c]) /\ g <= f
      BY <2>2, <3>1, <3>2
    <3>4. Len(queue'[c]) = q /\ Ending(c) = 1 /\ Ending(c)' = 0
      BY <3>1, <3>2 DEF Ending
    <3>5. 2 * q + g + 0 < 2 * q + f + 1
      <4>1. \A x, y, z \in Nat : z <= y => 2 * x + z + 0 < 2 * x + y + 1
        OBVIOUS
      <4>2. QED
        BY <3>3, <4>1, Zenon
    <3>6. QED
      BY <3>2, <3>3, <3>4, <3>5, Zenon DEF Left
  <2>10. CASE UNCHANGED vars
    BY <2>1, <2>10 DEF vars, pumps
  <2>11. CASE Next
    BY <2>1, <2>3, <2>4, <2>5, <2>6, <2>7, <2>8, <2>11 DEF Next, Connection
  <2>12. QED
    BY <1>1, <2>10, <2>11
<1>2. HInv /\ [Next]_vars =>
        \A c \in closed : /\ c \in closed'
                          /\ UNCHANGED <<queue[c], frame[c], writer[c]>> \/ Left(c)' < Left(c)
  BY <1>1 DEF HInv, TypeOK
<1>3. QED
  BY <1>2, HubInvariant, PTL DEF Spec, ClosedDrains
=============================================================================

--------------------------------- MODULE MCHub ---------------------------------
(***************************************************************************)
(* Instances of Hub for TLC.                                               *)
(***************************************************************************)
EXTENDS Hub, TLC

CONSTANTS u1, c1, c2, c3, m1, m2

\* One user has all the connections.
AllOfOne == [c \in Conns |-> u1]

\* m1 and m2 come from one goroutine, one after the other.
Serial == [m \in Messages |-> IF m = m2 THEN m1 ELSE NULL]
=============================================================================

------------------------------ MODULE MCPayments ------------------------------
(***************************************************************************)
(* Instances of Payments for TLC.                                          *)
(***************************************************************************)
EXTENDS Payments, TLC

CONSTANTS u1, u2, r1, r2

\* Two riders, each with a ride.
OneRideEach == r1 :> u1 @@ r2 :> u2

Symmetry == Permutations(Payments) \cup Permutations(Handlers)
=============================================================================

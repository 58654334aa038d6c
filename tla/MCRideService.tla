---------------------------- MODULE MCRideService ----------------------------
(***************************************************************************)
(* Instances of RideService for TLC.                                       *)
(***************************************************************************)
EXTENDS RideService, TLC

CONSTANTS u1, d1, d2, p1, p2, h1, h2

\* Every drivers row carries its user's id: the only data on which a driver's
\* user id ever equals rides.driver_id.
SharedIds == [p \in Profiles |-> p]

\* DriverService.CreateProfile gives every drivers row an id of its own.
FreshIds == p1 :> d1 @@ p2 :> d2

\* HTTP handlers serve everybody.
AnyUser == [h \in Handlers |-> Riders \cup Drivers]

\* Every driver acts through one read pump only.
ReadPumps == h1 :> {d1} @@ h2 :> {u1}

HandlerSymmetry == Permutations(Handlers)
CodeSymmetry == Permutations(Codes)
Symmetry == HandlerSymmetry \cup CodeSymmetry
=============================================================================

----------------------- MODULE MCResolutionCoordinator -----------------------
(* Small instances of ResolutionCoordinator. *)
EXTENDS ResolutionCoordinator, TLC

CONSTANTS i1, i2, r1, r2, k1

\* One mention, asked for on two instances ...
MCRequests == {r1, r2}
MCInstanceOf == (r1 :> i1) @@ (r2 :> i2)
MCKeyOf == [r \in MCRequests |-> k1]

\* ... or on one of the two.
MCRequest == {r1}
MCInstance == r1 :> i1
MCKey == r1 :> k1

MCTimes == 1..MaxTime
=============================================================================

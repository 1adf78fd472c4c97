----------------------------- MODULE MCSpotWatch -----------------------------
(***************************************************************************)
(* Instances of SpotWatch for TLC.                                         *)
(***************************************************************************)
EXTENDS SpotWatch, TLC

CONSTANTS v1, r1, r2

OnePlate == {v1}
TwoRuns == {r1, r2}

\* No subscription concerns the spot, or it is reserved for somebody else, or the vehicle
\* has another spot.
FreeReservedElsewhere ==
    {[subscribed |-> {}, elsewhere |-> {}, reserved |-> FALSE, allowed |-> {}],
     [subscribed |-> {}, elsewhere |-> {}, reserved |-> TRUE, allowed |-> {}],
     [subscribed |-> {v1}, elsewhere |-> {v1}, reserved |-> FALSE, allowed |-> {}]}

\* What changes around the runs, few kinds of events at a time.
MeetingLoads ==
    {{"camera"}, {"rules", "restart"}, {"gate", "time"}, {"gate", "operator"},
     {"operator", "time"}}
=============================================================================

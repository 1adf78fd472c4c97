---------------------------- MODULE MCGateSession ----------------------------
(***************************************************************************)
(* Instances of GateSession for TLC.                                       *)
(***************************************************************************)
EXTENDS GateSession, TLC

CONSTANTS c1, c2, entryLane, exitLane, p1, p2, o1, o2

OneClient == {c1}
TwoClients == {c1, c2}
BothLanes == {entryLane, exitLane}
TheEntryLane == {entryLane}
NoPlates == {}
OnePlate == {p1}
GateEndpoints == {"open", "resolve", "confirm"}
AllEndpoints ==
    {"open", "resolve", "confirm", "cancel", "claim", "approve", "reject", "openBarrier"}
FlowEndpoints == AllEndpoints \ {"claim"}
\* A client may word a reason as an entry does, or as confirm-pass does by default.
OneWord == {"ENTRY_APPROVED"}
OtherWord == {"CONFIRM_PASS"}
OneOperator == {o1}
TwoOperators == {o1, o2}
Ids1 == {1}
Ids2 == 1..2
OneTime == {0}
Times2 == {0, 2}
Times3 == 0..2
OperatorSymmetry == Permutations(TwoOperators)
ClientSymmetry == Permutations(TwoClients)
=============================================================================

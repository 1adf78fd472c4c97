------------------------- MODULE MCIdempotentRequest -------------------------
(***************************************************************************)
(* Instances of IdempotentRequest for TLC.                                 *)
(***************************************************************************)
EXTENDS IdempotentRequest, TLC

CONSTANTS c1, c2, c3, session1, heartbeat1, capture1, capture2, entry, x, y

OneClient == {c1}
TwoClients == {c1, c2}
NoKeys == {}
OneSessionKey == {session1}
OneHeartbeatKey == {heartbeat1}
OneCaptureKey == {capture1}
TwoCaptureKeys == {capture1, capture2}
OneLane == {entry}
OneLaneOf == [k \in CaptureKeys |-> entry]
TwoPayloads == {x, y}
=============================================================================

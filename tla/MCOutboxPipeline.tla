--------------------------- MODULE MCOutboxPipeline ---------------------------
(***************************************************************************)
(* Instances of OutboxPipeline for TLC.                                    *)
(***************************************************************************)
EXTENDS OutboxPipeline, TLC

CONSTANTS e1, e2, w1, w2

OneEvent == {e1}
TwoEvents == {e1, e2}
OneProc == {w1}
TwoProcs == {w1, w2}
WorkerOnly == {"worker"}
WorkerAndDrain == {"worker", "drain"}
AllKinds == {"worker", "drain", "inline"}
=============================================================================

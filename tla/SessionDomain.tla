---------------------------- MODULE SessionDomain ----------------------------
(***************************************************************************)
(* The pure rules of a gate passage session, translated from               *)
(* apps/api/src/modules/gate/domain/session.ts: the statuses, the          *)
(* transition table, the actions a status allows, the status a device read *)
(* leads to and the reuse window.  Everything here is constant level, so   *)
(* the state machines and the proofs share one copy of the rules.          *)
(***************************************************************************)
EXTENDS Integers

ActiveStatuses ==
    {"OPEN", "WAITING_READ", "WAITING_DECISION", "APPROVED", "WAITING_PAYMENT"}

TerminalStatuses == {"DENIED", "PASSED", "TIMEOUT", "CANCELLED", "ERROR"}

Statuses == ActiveStatuses \cup TerminalStatuses

-----------------------------------------------------------------------------
(* The transition table that ensureSessionTransition consults.             *)

\* Every non-terminal status may be given up in these ways.
Abandon == {"DENIED", "TIMEOUT", "CANCELLED", "ERROR"}

Transitions ==
    [from \in Statuses |->
        CASE from = "OPEN" ->
               {"OPEN", "WAITING_READ", "WAITING_DECISION", "APPROVED",
                "WAITING_PAYMENT"} \cup Abandon
          [] from = "WAITING_READ" ->
               {"WAITING_READ", "WAITING_DECISION", "APPROVED",
                "WAITING_PAYMENT"} \cup Abandon
          [] from = "WAITING_DECISION" ->
               {"WAITING_DECISION", "APPROVED", "WAITING_PAYMENT"} \cup Abandon
          [] from = "APPROVED" -> {"APPROVED", "PASSED"} \cup Abandon
          [] from = "WAITING_PAYMENT" -> {"WAITING_PAYMENT", "APPROVED"} \cup Abandon
          [] OTHER -> {from}]

\* Variant: the table is not consulted.
CanMoveAnywhere(from, to) == from \in Statuses /\ to \in Statuses

\* ensureSessionTransition raises a conflict unless this holds.
CanMove(from, to) == to \in Transitions[from]

\* The operator actions each status offers; a terminal status offers none.
AllowedActions(status) ==
    CASE status \in {"OPEN", "WAITING_READ"} -> {"CANCEL"}
      [] status = "WAITING_DECISION" -> {"APPROVE", "REQUIRE_PAYMENT", "DENY", "CANCEL"}
      [] status = "APPROVED" -> {"CONFIRM_PASS", "DENY", "CANCEL"}
      [] status = "WAITING_PAYMENT" -> {"APPROVE", "DENY", "CANCEL"}
      [] OTHER -> {}

-----------------------------------------------------------------------------
(* Status after a device read that no decision accompanies.  readType is   *)
(* "SENSOR", "ALPR" (any identifying read) or "NONE"; present says that    *)
(* the loop sensor sees a vehicle; evidence that the request names one.    *)

ReadTypes == {"SENSOR", "ALPR", "NONE"}

DeriveStatusFromRead(status, readType, present, evidence) ==
    IF status \in {"APPROVED", "WAITING_PAYMENT"} THEN status
    ELSE IF readType = "SENSOR" /\ present THEN
        IF status \in {"OPEN", "WAITING_READ"} THEN "WAITING_READ" ELSE status
    ELSE IF /\ readType = "ALPR" \/ evidence
            /\ status \in {"OPEN", "WAITING_READ", "WAITING_DECISION"}
         THEN "WAITING_DECISION"
    ELSE status

FinalActions == {"APPROVE", "REVIEW", "DENY", "PAYMENT_HOLD"}

DecisionActionToStatus(action) ==
    CASE action = "APPROVE" -> "APPROVED"
      [] action = "PAYMENT_HOLD" -> "WAITING_PAYMENT"
      [] action = "DENY" -> "DENIED"
      [] OTHER -> "WAITING_DECISION"

-----------------------------------------------------------------------------
(* The reuse window: a read at time now may join a session whose last read *)
(* is at or after the cutoff, and expires those before it.                 *)

WindowCutoff(now, window) == now - (IF window > 1 THEN window ELSE 1)

\* Variant: the boundary of the window is excluded.
ShouldReuseStrictly(lastRead, now, window) == lastRead > WindowCutoff(now, window)

ShouldReuse(lastRead, now, window) == lastRead >= WindowCutoff(now, window)
=============================================================================

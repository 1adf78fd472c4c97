--------------------------- MODULE SessionLifecycle ---------------------------
(***************************************************************************)
(* What the gate promises about sessions, seen from outside: every session *)
(* follows the transition table of session.ts to a terminal status and     *)
(* stays there, and a lane works on one session at a time.  GateSession    *)
(* implements it when requests run one at a time.                          *)
(***************************************************************************)
EXTENDS SessionDomain

CONSTANTS Lanes, SessionIds

VARIABLES status, lane

vars == <<status, lane>>

IsActive(s) == status[s] \in ActiveStatuses

Init ==
    /\ status = [s \in SessionIds |-> "ABSENT"]
    /\ lane \in [SessionIds -> Lanes]

\* A lane starts a session: whatever it was still working on times out.
Start(s, l) ==
    /\ status[s] = "ABSENT"
    /\ \E first \in {"OPEN", "WAITING_READ", "WAITING_DECISION"} :
          status' = [k \in SessionIds |->
              CASE k = s -> first
                [] k # s /\ IsActive(k) /\ lane[k] = l -> "TIMEOUT"
                [] OTHER -> status[k]]
    /\ lane' = [lane EXCEPT ![s] = l]

\* A session moves along the table, or through its approval to PASSED at once (an exit
\* that is approved with an open ticket).
Move(s) ==
    /\ status[s] # "ABSENT"
    /\ \E to \in Statuses :
          /\ \/ to # "TIMEOUT" /\ CanMove(status[s], to)
             \/ to = "PASSED" /\ CanMove(status[s], "APPROVED")
          /\ status' = [status EXCEPT ![s] = to]
    /\ UNCHANGED lane

Next == \E s \in SessionIds : Move(s) \/ \E l \in Lanes : Start(s, l)

Spec == Init /\ [][Next]_vars
=============================================================================

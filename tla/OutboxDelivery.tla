---------------------------- MODULE OutboxDelivery ----------------------------
(***************************************************************************)
(* What the outbox promises about an event, seen from outside: it is       *)
(* attempted until MongoDB has it or the attempts run out, it is reported  *)
(* as SENT only when MongoDB has it, and SENT and FAILED are final.        *)
(* OutboxPipeline implements it while leases outlive the work they cover.  *)
(***************************************************************************)
EXTENDS Integers

CONSTANTS Ids, MaxAttempts

VARIABLES status, attempts, published

vars == <<status, attempts, published>>

Init ==
    /\ status = [i \in Ids |-> "ABSENT"]
    /\ attempts = [i \in Ids |-> 0]
    /\ published = [i \in Ids |-> FALSE]

Log(i) ==
    /\ status[i] = "ABSENT"
    /\ status' = [status EXCEPT ![i] = "PENDING"]
    /\ UNCHANGED <<attempts, published>>

Publish(i) ==
    /\ status[i] = "PENDING"
    /\ published' = [published EXCEPT ![i] = TRUE]
    /\ UNCHANGED <<status, attempts>>

Acknowledge(i) ==
    /\ status[i] = "PENDING" /\ published[i]
    /\ status' = [status EXCEPT ![i] = "SENT"]
    /\ UNCHANGED <<attempts, published>>

FailAttempt(i) ==
    /\ status[i] = "PENDING"
    /\ attempts' = [attempts EXCEPT ![i] = @ + 1]
    /\ status' = [status EXCEPT
           ![i] = IF attempts[i] + 1 >= MaxAttempts THEN "FAILED" ELSE "PENDING"]
    /\ UNCHANGED published

Next == \E i \in Ids : Log(i) \/ Publish(i) \/ Acknowledge(i) \/ FailAttempt(i)

Spec == Init /\ [][Next]_vars
=============================================================================

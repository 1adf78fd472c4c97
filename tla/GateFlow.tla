------------------------------- MODULE GateFlow -------------------------------
(***************************************************************************)
(* The decision engine over the tables of the gate: GateSession lets the   *)
(* engine give any answer; GateDecision says which it gives to which read. *)
(* Tickets and presence are those of GateSession here, and whatever else   *)
(* the engine looks up (payments, cards, subscriptions, the tariff) may    *)
(* say anything.                                                           *)
(***************************************************************************)
EXTENDS GateSession, GateDecision

ASSUME SlipAssumption == Slips = SessionIds

OpenSlips == {t \in SessionIds : tickets[t].status = "OPEN"}
SlipsInside ==
    {t \in SessionIds : \E i \in PresenceIds :
        presence[i].status = "ACTIVE" /\ presence[i].ticket = t}

\* The contents of tickets and presence with which the engine would approve an exit that
\* is not accounted for.
Unaccountable ==
    {[open |-> db.open, inside |-> db.inside] :
        db \in {db \in Tables :
            \E read \in Reads :
                /\ ~read.entry
                /\ \E d \in Decisions(read, db) : d.action = "APPROVE" /\ ~Accounted(db, d.slip)}}

\* No exit is approved by the engine, whatever a lane reads, but for an open ticket that
\* owes nothing, is paid in full or belongs to a subscription in force: the ticket is
\* looked up by card or plate, the payment by ticket and the subscription by plate and
\* card, in different queries that must not be put together across vehicles
\* (resolveSubscriptionDecisionContext, plateMatched).
ExitsAccounted == [open |-> OpenSlips, inside |-> SlipsInside] \notin Unaccountable
=============================================================================

----------------------------- MODULE GateDecision -----------------------------
(***************************************************************************)
(* What the decision engine answers to a read at a lane                    *)
(* (evaluateSessionDecision): the open ticket it finds for the plate and   *)
(* the card, what that ticket still owes, the rules of gate-core, and what *)
(* a subscription makes of their answer.  Pure: it reads rows and writes   *)
(* none.                                                                   *)
(*                                                                         *)
(* Where the order of rows decides among several and is not kept here, any *)
(* of them may come first; so an answer is a relation, not a function.     *)
(***************************************************************************)
EXTENDS Integers

CONSTANTS
    Vehicles,  \* vehicles, each with its plate
    Cards,     \* RFID credentials of the site
    Vips,      \* subscriptions
    Slips,     \* tickets
    None,      \* no plate, no card, no ticket, no subscription, no tariff
    Money,     \* bound: amounts paid for a ticket
    Minutes,   \* bound: durations of a stay
    Tariffs,   \* the tariffs considered
    Reads,     \* bound: the reads considered
    Tables     \* bound: the contents of the tables considered

Tariff == [free: Nat, perHour: Nat, cap: Nat]  \* a cap of 0 is none

\* CERTAIN: a strictly valid plate whose confidence is enough to approve.  UNSCORED: not
\* that, yet nothing the rules object to, such as a plate typed in.
Qualities == {"CERTAIN", "UNSCORED", "DOUBTFUL", "INVALID"}

\* conflict says that findActivePresenceConflicts leaves a presence, after those that are
\* stale, of this session or of this lane a moment ago.
Read == [entry: BOOLEAN, plate: Vehicles \cup {None}, card: Cards \cup {None},
         quality: Qualities, sensor: BOOLEAN,
         health: {"HEALTHY", "UNKNOWN", "DEGRADED", "OFFLINE"},
         conflict: BOOLEAN,
         spot: BOOLEAN,     \* no spot is requested, or it is the one assigned
         lookup: BOOLEAN]   \* DECISION_ENABLE_SUBSCRIPTIONS

Standings == {"ACTIVE", "OVERDUE", "SUSPENDED"}

Rows == [open: SUBSET Slips, owner: [Slips -> Vehicles], issued: [Slips -> Cards \cup {None}],
         loaded: SUBSET Slips,                   \* tickets getTicketTariffBridge can load
         stay: [Slips -> Minutes], paid: [Slips -> Money],
         inside: SUBSET Slips,                   \* tickets with an ACTIVE presence
         vip: [Cards -> Vips \cup {None}],       \* credentials.subscription_id
         card: [Cards -> {"ACTIVE", "BLOCKED", "LOST", "UNKNOWN"}],
         standing: [Vips -> Standings],
         bound: [Vips -> SUBSET Vehicles],       \* bindings in force
         former: [Vips -> SUBSET Vehicles],      \* other rows of subscription_vehicles
         tariff: Tariffs \cup {None},            \* in force when the ticket was opened
         vipTariff: BOOLEAN]                     \* a tariff for subscriptions exists

\* An UNKNOWN card is no credential of the site, and so of no subscription and no ticket.
Table == {db \in Rows : \A k \in Cards : db.card[k] = "UNKNOWN" =>
                           db.vip[k] = None /\ \A t \in Slips : db.issued[t] # k}

ASSUME AmountAssumption == Money \subseteq Nat /\ Minutes \subseteq Nat /\ Tariffs \subseteq Tariff
ASSUME NoneAssumption ==
    None \notin Vehicles /\ None \notin Cards /\ None \notin Vips /\ None \notin Slips
ASSUME CaseAssumption == Reads \subseteq Read /\ Tables \subseteq Table

-----------------------------------------------------------------------------
(* The fee.                                                                *)

Hours(minutes) == (minutes + 59) \div 60

Billable(stay, tariff) == IF stay > tariff.free THEN stay - tariff.free ELSE 0

Capped(amount, cap) == IF cap # 0 /\ amount > cap THEN cap ELSE amount

\* quoteTariff: one cap for the whole stay.
Quote(stay, tariff) == Capped(Hours(Billable(stay, tariff)) * tariff.perHour, tariff.cap)

Due(db, t) == IF db.tariff = None THEN 0 ELSE Quote(db.stay[t], db.tariff)

-----------------------------------------------------------------------------
(* The ticket and its payment.                                             *)

OneOf(S) == IF S = {} THEN {None} ELSE S

\* findOpenTicketByPlate, findOpenTicketByRfid.
PlateSlips(read, db) == {t \in db.open : db.owner[t] = read.plate}
CardSlips(read, db) == {t \in db.open : read.card # None /\ db.issued[t] = read.card}
Found(read, db) == [plate: OneOf(PlateSlips(read, db)), card: OneOf(CardSlips(read, db))]

\* resolveOpenTicketForDecision: at an exit the card's ticket comes first.
Selected(read, found) ==
    LET first == IF read.entry THEN found.plate ELSE found.card
        other == IF read.entry THEN found.card ELSE found.plate
    IN  IF first # None THEN first ELSE other

Mismatch(found) == found.plate # None /\ found.card # None /\ found.plate # found.card

InForce(db, v) == v # None /\ db.standing[v] = "ACTIVE"

\* The subscription of the card a ticket was issued with.
SlipVip(db, t) == IF db.issued[t] = None THEN None ELSE db.vip[db.issued[t]]

\* resolvePaymentStatusForTicket.
Payment(db, t) ==
    IF t \notin db.loaded THEN "UNKNOWN"
    ELSE IF InForce(db, SlipVip(db, t)) /\ db.vipTariff THEN "SUBSCRIPTION_COVERED"
    ELSE IF Due(db, t) = 0 THEN "WAIVED"
    ELSE IF db.paid[t] >= Due(db, t) THEN "PAID"
    ELSE IF db.paid[t] > 0 THEN "PENDING" ELSE "UNPAID"

-----------------------------------------------------------------------------
(* The rules, and anti-passback softened where the plate is not certain.   *)

CardStatus(read, db) == IF read.card = None THEN "UNKNOWN" ELSE db.card[read.card]

ExitAnswer(payment) ==
    CASE payment \in {"UNPAID", "PENDING"} -> "PAYMENT_HOLD"
      [] payment = "UNKNOWN" -> "REVIEW"
      [] OTHER -> "APPROVE"

\* evaluateGateDecision.
Answer(read, db, t, found) ==
    IF ~read.sensor \/ read.health \in {"OFFLINE", "DEGRADED"} THEN "REVIEW"
    ELSE IF CardStatus(read, db) \in {"LOST", "BLOCKED"} THEN "DENY"
    ELSE IF Mismatch(found) THEN "REVIEW"
    ELSE IF read.entry /\ read.conflict
         THEN IF read.quality = "CERTAIN" THEN "DENY" ELSE "REVIEW"
    ELSE IF ~read.entry /\ t = None THEN "REVIEW"
    ELSE IF read.quality = "INVALID" THEN "DENY"
    ELSE IF read.quality = "DOUBTFUL" THEN "REVIEW"
    ELSE IF read.entry THEN "APPROVE"
    ELSE ExitAnswer(Payment(db, t))

-----------------------------------------------------------------------------
(* The subscription.                                                       *)

PlateVips(read, db) == {v \in Vips : read.plate \in db.bound[v] \cup db.former[v]}
CardVips(read, db) == IF read.card = None THEN {} ELSE {db.vip[read.card]} \ {None}

\* selectSubscriptionCandidate: found by both, else by the card, else by the plate.
VipCandidates(read, db) ==
    LET both == PlateVips(read, db) \cap CardVips(read, db)
    IN  IF both # {} THEN both
        ELSE IF CardVips(read, db) # {} THEN CardVips(read, db)
        ELSE PlateVips(read, db)

\* Variant: the plate is not compared with the bindings.
MatchesCard(read, db, v) ==
    read.card # None => db.vip[read.card] = v /\ db.card[read.card] = "ACTIVE"

\* plateMatched and rfidMatched: what was read belongs to subscription v.
Matches(read, db, v) ==
    /\ read.plate # None => read.plate \in db.bound[v]
    /\ read.card # None => db.vip[read.card] = v /\ db.card[read.card] = "ACTIVE"

\* resolveSubscriptionDecisionContext: eligible, or else an operator has to look.
Eligible(read, db, v) == InForce(db, v) /\ Matches(read, db, v) /\ read.spot

\* applySubscriptionDecisionOverride.
WithVip(read, db, t, v, answer) ==
    IF ~read.lookup \/ v = None THEN answer
    ELSE IF ~Eligible(read, db, v)
         THEN IF answer \in {"APPROVE", "PAYMENT_HOLD"} THEN "REVIEW" ELSE answer
    ELSE IF answer = "PAYMENT_HOLD" /\ t \in db.inside THEN "APPROVE"
    ELSE answer

\* evaluateSessionDecision: the ticket it selects and its final action.
Decision(read, db, found, v) ==
    LET t == Selected(read, found)
    IN  [slip |-> t, action |-> WithVip(read, db, t, v, Answer(read, db, t, found))]

Decisions(read, db) ==
    {Decision(read, db, found, v) :
        found \in Found(read, db), v \in OneOf(VipCandidates(read, db))}

-----------------------------------------------------------------------------
(* What the decisions are held against.                                    *)

\* The ticket belongs to a subscription in force, by its card or by its vehicle.
CoveredByVip(db, t) ==
    \E v \in Vips : InForce(db, v) /\ (SlipVip(db, t) = v \/ db.owner[t] \in db.bound[v])

\* The ticket is open, and owes nothing, is paid in full or belongs to a subscription in
\* force.
Accounted(db, t) ==
    /\ t \in db.open
    /\ db.paid[t] >= Due(db, t) \/ CoveredByVip(db, t)
=============================================================================

------------------------------ MODULE SpotDomain ------------------------------
(***************************************************************************)
(* The pure decisions about a parking spot: what a camera event, the gate  *)
(* and the subscriptions make of it (reconciliation.ts), and when that is  *)
(* an incident (incident-noise-policy.ts).                                 *)
(***************************************************************************)
EXTENDS Integers

CONSTANTS
    Plates,    \* vehicles
    Nothing,   \* no event, no plate, no incident
    GraceHits  \* INCIDENT_STALE_SENSOR_GRACE_HITS and INCIDENT_GHOST_PRESENCE_GRACE_HITS

ASSUME GraceAssumption == GraceHits \in Nat \ {0}
ASSUME NothingAssumption == Nothing \notin Plates

\* A camera reports that a spot is taken, with a plate or without one; it never reports
\* that a spot is empty.
Event ==
    {e \in [taken: BOOLEAN, plate: Plates \cup {Nothing}, fresh: BOOLEAN] :
        e.taken \/ e.plate = Nothing}

\* What the subscriptions in force say: vehicles that have one, those of them with other
\* spots assigned, whether this spot is reserved, and for which vehicles.
Rules ==
    {r \in [subscribed: SUBSET Plates, elsewhere: SUBSET Plates,
            reserved: BOOLEAN, allowed: SUBSET Plates] :
        r.elsewhere \cup r.allowed \subseteq r.subscribed /\ (r.allowed # {} => r.reserved)}
NoRules == [subscribed |-> {}, elsewhere |-> {}, reserved |-> FALSE, allowed |-> {}]

Reasons == {"NO_SENSOR_EVENT", "SENSOR_STALE", "PLATE_UNAVAILABLE", "VIP_WRONG_SPOT",
            "RESERVED_SPOT_OCCUPIED_BY_OTHER", "MATCHED", "MISSING_GATE_PRESENCE"}
Healthy == {"NO_SENSOR_EVENT", "MATCHED"}
Graced == {"SENSOR_STALE", "PLATE_UNAVAILABLE", "MISSING_GATE_PRESENCE"}

\* A subscription is the observed vehicle's own or that of the spot's holder.
Whose == {"none", "vehicle", "spot"}

\* A decision and its fingerprint are one: the reason, the observed plate, whose plate was
\* expected, whose subscription was matched, and the presence row, 0 for none.
Decision == [reason: Reasons, plate: Plates \cup {Nothing}, expected: Whose,
             subscription: Whose, presence: Nat]
NoDecision == [reason |-> "NO_SENSOR_EVENT", plate |-> Nothing, expected |-> "none",
               subscription |-> "none", presence |-> 0]

Reason(event, inside, rules) ==
    IF ~event.taken THEN "NO_SENSOR_EVENT"
    ELSE IF ~event.fresh THEN "SENSOR_STALE"
    ELSE IF event.plate = Nothing THEN "PLATE_UNAVAILABLE"
    ELSE IF event.plate \in rules.elsewhere THEN "VIP_WRONG_SPOT"
    ELSE IF rules.reserved /\ event.plate \notin rules.allowed
         THEN "RESERVED_SPOT_OCCUPIED_BY_OTHER"
    ELSE IF inside[event.plate] # 0 THEN "MATCHED"
    ELSE "MISSING_GATE_PRESENCE"

\* reconcileSpotProjection.
Decide(event, inside, rules) ==
    LET reason == Reason(event, inside, rules)
        holder == IF rules.reserved THEN "spot" ELSE "none"
        matched == IF event.plate \in rules.subscribed
                      /\ reason # "RESERVED_SPOT_OCCUPIED_BY_OTHER"
                   THEN "vehicle" ELSE holder
    IN  [reason |-> reason, plate |-> event.plate,
         expected |-> IF reason = "SENSOR_STALE" /\ rules.reserved THEN holder ELSE matched,
         subscription |-> matched,
         presence |-> IF event.plate = Nothing THEN 0 ELSE inside[event.plate]]

-----------------------------------------------------------------------------
\* __noiseControl of an incident's snapshot: the last signal, how often it came in a row,
\* and whether that was within the cooldown or the reopen window.
Noise == [signal: Decision, hits: 0..GraceHits, recent: BOOLEAN]
NoNoise == [signal |-> NoDecision, hits |-> 0, recent |-> FALSE]

\* getSuppressionThreshold.
HitsNeeded(signal) == IF signal.reason \in Graced THEN GraceHits ELSE 1

\* Variant: the count of a repeated signal starts over with each run.
HitsForgotten(previous, signal) == 1

\* computeNoiseHitCount; beyond GraceHits the count only raises the severity.
HitCount(previous, signal) ==
    IF previous.signal # signal \/ ~previous.recent THEN 1
    ELSE IF previous.hits < GraceHits THEN previous.hits + 1 ELSE GraceHits
=============================================================================

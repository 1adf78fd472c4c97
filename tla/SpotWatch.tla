------------------------------- MODULE SpotWatch -------------------------------
(***************************************************************************)
(* One parking spot: the camera events accepted for it, its row of         *)
(* spot_occupancy_projection, and its incidents.  A reconciliation run     *)
(* (runReconciliation, started by every dashboard read that asks for fresh *)
(* data) reads its inputs, writes the projection and brings the incidents  *)
(* in line (syncIncidentFromSpotProjection), with an await between any two *)
(* statements and no lock.  Operators close incidents meanwhile.           *)
(*                                                                         *)
(* gate_incidents has no unique key but its id.                            *)
(***************************************************************************)
EXTENDS SpotDomain, FiniteSets

CONSTANTS
    RuleSets,      \* the subscription rules considered
    Procs,         \* bound: runs and operator requests at the same time
    MaxIncidents,  \* bound: incidents of the spot
    Loads,         \* bound: the sets of kinds of events that meet in one behaviour
    MaxEvents      \* bound: events in the world, operator requests, restarts

ASSUME BoundAssumption == MaxIncidents \in Nat \ {0} /\ MaxEvents \in Nat
EventKinds == {"camera", "gate", "rules", "time", "operator", "restart"}
ASSUME LoadAssumption == Loads \subseteq SUBSET EventKinds
ASSUME RulesAssumption == RuleSets \subseteq Rules /\ NoRules \in RuleSets
ASSUME ProcAssumption == IsFiniteSet(Procs)

VARIABLES
    load,       \* the kinds of events of this behaviour
    event,      \* the ACCEPTED row of internal_presence_events with the highest id
    inside,     \* the ACTIVE row of gate_active_presence of each plate, 0 for none
    rules,      \* the subscriptions in force
    projection, \* spot_occupancy_projection
    incidents,  \* gate_incidents of the spot, by id
    told,       \* the statuses gate_incident_history has for each incident
    pending,    \* pendingNoiseStateBySourceKey, in the memory of the API process
    procs,      \* runs and operator requests in flight
    overlaps,   \* incidents that became active on a reading that was out of date
    restarts,   \* restarts of the API process so far
    events      \* events so far

world == <<load, event, inside, rules>>
vars == <<world, projection, incidents, told, pending, procs, overlaps, restarts, events>>

-----------------------------------------------------------------------------
Ids == 1..MaxIncidents
Statuses == {"OPEN", "ACKED", "RESOLVED", "IGNORED"}
IsActive(status) == status \in {"OPEN", "ACKED"}

\* late says that resolved_at lies beyond the reopen window.
Incident == [status: Statuses \cup {"ABSENT"}, noise: Noise, late: BOOLEAN]
Absent == [status |-> "ABSENT", noise |-> NoNoise, late |-> FALSE]

Existing == {i \in Ids : incidents[i].status # "ABSENT"}
Active == {i \in Ids : IsActive(incidents[i].status)}

\* ORDER BY incident_id DESC LIMIT 1.
Newest(ids) == IF ids = {} THEN 0 ELSE CHOOSE i \in ids : \A j \in ids : j <= i

Acts == {"none", "resolve", "quiet", "reopen", "create", "update"}
Run == [phase: {"free", "upsert", "readBack", "active", "latest", "write", "tell", "call"},
        seen: Decision,         \* what the run decided, then what it read back
        id: 0..MaxIncidents, noise: Noise, act: Acts, status: Statuses,
        stale: BOOLEAN]         \* an incident changed its status since this one read it

Free == [phase |-> "free", seen |-> NoDecision, id |-> 0, noise |-> NoNoise,
         act |-> "none", status |-> "OPEN", stale |-> FALSE]

NoEvent == [taken |-> FALSE, plate |-> Nothing, fresh |-> FALSE]

Is(p, phase) == procs[p].phase = phase
Finish(p) == procs' = [procs EXCEPT ![p] = Free]
Now == Decide(event, inside, rules)

-----------------------------------------------------------------------------
(* A reconciliation run.                                                   *)

\* The inputs are read in parallel, before anything is written.
StartRun(p) ==
    /\ Is(p, "free")
    /\ procs' = [procs EXCEPT ![p] = [Free EXCEPT !.phase = "upsert", !.seen = Now]]
    /\ UNCHANGED <<world, projection, incidents, told, pending, overlaps, restarts, events>>

\* persistProjection: the upsert of what the run decided, whoever wrote meanwhile ...
Upsert(p) ==
    /\ Is(p, "upsert")
    /\ projection' = procs[p].seen
    /\ procs' = [procs EXCEPT ![p] = [Free EXCEPT !.phase = "readBack"]]
    /\ UNCHANGED <<world, incidents, told, pending, overlaps, restarts, events>>

\* ... and the row as it is by then.
ReadBack(p) ==
    /\ Is(p, "readBack")
    /\ procs' = [procs EXCEPT ![p] = [Free EXCEPT !.phase = "active", !.seen = projection]]
    /\ UNCHANGED <<world, projection, incidents, told, pending, overlaps, restarts, events>>

\* Variant: only OPEN incidents count as active.
NewestOpen == Newest({i \in Ids : incidents[i].status = "OPEN"})

\* findActiveBySourceKey.
NewestActive == Newest(Active)

ReadActive(p) ==
    LET i == NewestActive
    IN  /\ Is(p, "active")
        /\ procs' = [procs EXCEPT ![p] =
               [Free EXCEPT !.phase = "latest", !.seen = procs[p].seen, !.id = i,
                            !.noise = IF i = 0 THEN NoNoise ELSE incidents[i].noise]]
        /\ UNCHANGED <<world, projection, incidents, told, pending, overlaps, restarts, events>>

\* shouldReopenResolvedIncident.
Reopens(i, signal) ==
    /\ incidents[i].status \in {"RESOLVED", "IGNORED"}
    /\ incidents[i].noise.signal = signal /\ ~incidents[i].late

\* The state the hits are counted from: that of the active incident as it was read, else
\* of the latest incident, else the pending one.
Previous(p, latest) ==
    IF procs[p].id # 0 THEN procs[p].noise
    ELSE IF latest # 0 THEN incidents[latest].noise ELSE pending

Plan(p, act, id, noise) ==
    procs' = [procs EXCEPT ![p] =
        [Free EXCEPT !.phase = "write", !.act = act, !.id = id, !.noise = noise,
                     !.stale = procs[p].stale]]

\* The spot is in order: an active incident is resolved and keeps its fingerprint.
PlanResolve(p) ==
    /\ pending' = NoNoise
    /\ IF procs[p].id = 0 THEN Finish(p)
       ELSE Plan(p, "resolve", procs[p].id, [procs[p].noise EXCEPT !.recent = TRUE])

\* The signal has not come often enough: it is noted, in memory or in the incident.
PlanGrace(p, noise) ==
    IF procs[p].id = 0
    THEN pending' = noise /\ Finish(p)
    ELSE Plan(p, "quiet", procs[p].id, noise) /\ UNCHANGED pending

PlanOpen(p, latest, noise) ==
    /\ pending' = NoNoise
    /\ IF latest # 0 /\ Reopens(latest, noise.signal)
       THEN Plan(p, "reopen", latest, noise)
       ELSE Plan(p, "create", 0, noise)

\* shouldSuppressRecurringSignal: a repeated signal is noted quietly within the cooldown
\* while its severity stays; neither is kept here, so either may come.
PlanUpdate(p, noise) ==
    /\ UNCHANGED pending
    /\ \/ Plan(p, "update", procs[p].id, noise)
       \/ procs[p].noise.signal = noise.signal /\ Plan(p, "quiet", procs[p].id, noise)

\* findLatestBySourceKey, and what syncIncidentFromSpotProjection makes of its readings.
ReadLatest(p) ==
    LET signal == procs[p].seen
        latest == Newest(Existing)
        hits == HitCount(Previous(p, latest), signal)
        noise == [signal |-> signal, hits |-> hits, recent |-> TRUE]
    IN  /\ Is(p, "latest")
        /\ IF signal.reason \in Healthy THEN PlanResolve(p)
           ELSE IF hits < HitsNeeded(signal) THEN PlanGrace(p, noise)
           ELSE IF procs[p].id = 0 THEN PlanOpen(p, latest, noise)
           ELSE PlanUpdate(p, noise)
        /\ UNCHANGED <<world, projection, incidents, told, overlaps, restarts, events>>

\* Phases between a reading of the incidents and the write that rests on it.
Deciding == {"latest", "write", "call"}

\* The other requests' readings are out of date when incident i changes its status.
Moved(p, run, changed) ==
    [q \in Procs |->
        IF q = p THEN run
        ELSE [procs[q] EXCEPT !.stale = @ \/ (changed /\ procs[q].phase \in Deciding)]]

\* An incident that is not active becomes so.
Activation(p, i, status) ==
    overlaps' = IF procs[p].stale /\ IsActive(status) /\ i \notin Active
                /\ overlaps < MaxIncidents
                THEN overlaps + 1 ELSE overlaps

\* updateIncident by primary key, or an INSERT; only a quiet note has no history row.
Write(p, act, i, row) ==
    /\ Is(p, "write") /\ procs[p].act = act
    /\ incidents' = [incidents EXCEPT ![i] = row]
    /\ procs' = Moved(p, IF act = "quiet" THEN Free
                         ELSE [Free EXCEPT !.phase = "tell", !.id = i],
                      row.status # incidents[i].status)
    /\ Activation(p, i, row.status)
    /\ UNCHANGED <<world, projection, told, pending, restarts, events>>

\* Variant: an incident of a spot in order keeps its status.
ResolvedNot(p, i) == [incidents[i] EXCEPT !.noise = procs[p].noise, !.late = FALSE]

ResolvedRow(p, i) ==
    [incidents[i] EXCEPT !.status = "RESOLVED", !.noise = procs[p].noise, !.late = FALSE]
AutoResolve(p) == LET i == procs[p].id IN Write(p, "resolve", i, ResolvedRow(p, i))

Noted(p, i) == [incidents[i] EXCEPT !.noise = procs[p].noise]
Suppress(p) == LET i == procs[p].id IN Write(p, "quiet", i, Noted(p, i))
AutoUpdate(p) == LET i == procs[p].id IN Write(p, "update", i, Noted(p, i))

\* Variant: a status gate_incidents does not know.
OpenRowMisnamed(p) == [status |-> "ACTIVE", noise |-> procs[p].noise, late |-> FALSE]

OpenRow(p) == [status |-> "OPEN", noise |-> procs[p].noise, late |-> FALSE]
AutoReopen(p) == Write(p, "reopen", procs[p].id, OpenRow(p))
AutoOpen(p) ==
    LET i == Newest(Existing) + 1 IN i \in Ids /\ Write(p, "create", i, OpenRow(p))

\* Variant: the history row is left out.
Untold(i) == told[i]

\* The statuses in the history with the status the incident has now.
Told(i) == told[i] \cup {incidents[i].status}

\* The incident is read again for the history row (updated.status, gi.status).
Tell(p) ==
    LET i == procs[p].id
    IN  /\ Is(p, "tell")
        /\ told' = [told EXCEPT ![i] = Told(i)]
        /\ Finish(p)
        /\ UNCHANGED <<world, projection, incidents, pending, overlaps, restarts, events>>

-----------------------------------------------------------------------------
(* An operator decides (resolveGateIncident).                              *)

\* Events stop while there are still incidents left for what the runs make of them.
Happens(kind) ==
    /\ kind \in load /\ events < MaxEvents /\ events' = events + 1
    /\ Cardinality(Existing) + Cardinality(Procs) <= MaxIncidents

StartResolve(p, i, status) ==
    /\ Happens("operator") /\ Is(p, "free")
    /\ i \in Active
    /\ procs' = [procs EXCEPT ![p] =
           [Free EXCEPT !.phase = "call", !.id = i, !.status = status]]
    /\ UNCHANGED <<world, projection, incidents, told, pending, overlaps, restarts>>

\* pkg_incident_resolve, called without a transaction: an UPDATE, whatever the status is by
\* then, and later a history row with the status the incident has at that moment.
Resolve(p) ==
    LET i == procs[p].id
        status == procs[p].status
    IN  /\ Is(p, "call")
        /\ incidents' = [incidents EXCEPT ![i].status = status, ![i].late = FALSE]
        /\ procs' = Moved(p, [Free EXCEPT !.phase = "tell", !.id = i],
                          status # incidents[i].status)
        /\ Activation(p, i, status)
        /\ UNCHANGED <<world, projection, told, pending, restarts, events>>

-----------------------------------------------------------------------------
(* The world.                                                              *)

\* ingestZonePresenceEvent accepts an event.  The row with the highest id counts, which is
\* the last to arrive, not the last captured.
AcceptEvent(plate) ==
    /\ Happens("camera")
    /\ event' = [taken |-> TRUE, plate |-> plate, fresh |-> TRUE]
    /\ UNCHANGED <<load, inside, rules, projection, incidents, told, pending, procs, overlaps,
                   restarts>>

\* The newest event grows older than RECONCILIATION_SENSOR_STALE_SECONDS.
FeedStales ==
    /\ Happens("camera") /\ event.fresh
    /\ event' = [event EXCEPT !.fresh = FALSE]
    /\ UNCHANGED <<load, inside, rules, projection, incidents, told, pending, procs, overlaps,
                   restarts>>

\* A vehicle passes the gate, or its presence is purged; each entry is a row of its own.
PassGate(plate) ==
    /\ Happens("gate")
    /\ inside' = [inside EXCEPT ![plate] = IF @ = 0 THEN events + 1 ELSE 0]
    /\ UNCHANGED <<load, event, rules, projection, incidents, told, pending, procs, overlaps,
                   restarts>>

ChangeRules ==
    /\ Happens("rules")
    /\ rules' \in RuleSets \ {rules}
    /\ UNCHANGED <<load, event, inside, projection, incidents, told, pending, procs, overlaps,
                   restarts>>

\* The windows of an incident pass, or that of the pending signal.
WindowPasses(i) ==
    /\ Happens("time")
    /\ incidents' = [incidents EXCEPT ![i].noise.recent = FALSE, ![i].late = TRUE]
    /\ UNCHANGED <<world, projection, told, pending, procs, overlaps, restarts>>

\* The signal's window runs from the last signal, the reopen window from the resolution.
SignalAges(i) ==
    /\ Happens("time") /\ incidents[i].noise.recent
    /\ incidents' = [incidents EXCEPT ![i].noise.recent = FALSE]
    /\ UNCHANGED <<world, projection, told, pending, procs, overlaps, restarts>>

PendingAges ==
    /\ Happens("time") /\ pending.recent
    /\ pending' = [pending EXCEPT !.recent = FALSE]
    /\ UNCHANGED <<world, projection, incidents, told, procs, overlaps, restarts>>

\* The API process restarts: its requests and its memory are lost.
Restart ==
    /\ Happens("restart")
    /\ procs' = [p \in Procs |-> Free]
    /\ pending' = NoNoise
    /\ restarts' = restarts + 1
    /\ UNCHANGED <<world, projection, incidents, told, overlaps>>

-----------------------------------------------------------------------------
Init ==
    /\ load \in Loads
    /\ event \in {NoEvent} \cup [taken: {TRUE}, plate: Plates, fresh: {TRUE}]
    /\ inside = [plate \in Plates |-> 0]
    /\ rules = NoRules
    /\ projection = NoDecision
    /\ incidents = [i \in Ids |-> Absent]
    /\ told = [i \in Ids |-> {}]
    /\ pending = NoNoise
    /\ procs = [p \in Procs |-> Free]
    /\ overlaps = 0 /\ restarts = 0 /\ events = 0

\* What a run or an operator's request does once it has begun.
Proceed(p) ==
    \/ Upsert(p) \/ ReadBack(p) \/ ReadActive(p) \/ ReadLatest(p)
    \/ AutoResolve(p) \/ Suppress(p) \/ AutoUpdate(p) \/ AutoReopen(p) \/ AutoOpen(p)
    \/ Tell(p) \/ Resolve(p)

Next ==
    \/ \E p \in Procs : StartRun(p) \/ Proceed(p)
    \/ \E p \in Procs, i \in Ids, status \in Statuses \ {"OPEN"} : StartResolve(p, i, status)
    \/ \E plate \in Plates \cup {Nothing} : AcceptEvent(plate)
    \/ \E plate \in Plates : PassGate(plate)
    \/ \E i \in Existing : WindowPasses(i) \/ SignalAges(i)
    \/ FeedStales \/ ChangeRules \/ PendingAges \/ Restart

Spec == Init /\ [][Next]_vars

\* What has begun goes on, and somebody keeps looking at the spot: a run begins whenever
\* one can.
Fairness ==
    /\ \A p \in Procs : WF_vars(Proceed(p))
    /\ WF_vars(\E p \in Procs : StartRun(p))

FairSpec == Spec /\ Fairness

-----------------------------------------------------------------------------
(* Properties.                                                             *)

\* The projection, the incidents and the requests are well formed.
TypeOK ==
    /\ load \in Loads /\ event \in Event /\ inside \in [Plates -> Nat] /\ rules \in RuleSets
    /\ projection \in Decision
    /\ incidents \in [Ids -> Incident]
    /\ told \in [Ids -> SUBSET Statuses]
    /\ pending \in Noise
    /\ procs \in [Procs -> Run]
    /\ overlaps \in 0..MaxIncidents /\ restarts \in Nat /\ events \in Nat

\* A spot has one active incident, plus at most one for each time a run or an operator
\* made one active after its reading went out of date: runs that do not overlap never
\* double an incident (findActiveBySourceKey and findLatestBySourceKey are two readings,
\* and a closed incident may be set to ACKED by pkg_incident_resolve).
OneActivePerSpot == Cardinality(Active) <= 1 + overlaps

\* The status an incident has is in its history, unless the row is about to be written or
\* was lost in a restart, however runs and operators overtake each other.
StatusIsRecorded ==
    \A i \in Existing :
        \/ incidents[i].status \in told[i]
        \/ \E p \in Procs : Is(p, "tell") /\ procs[p].id = i
        \/ restarts > 0

\* When a spot stays in order, the projection says so in the end and no incident stays
\* active, not even one that overlapping runs had doubled.
OrderReturns ==
    <>[](Now.reason \in Healthy) =>
        <>[](projection.reason \in Healthy /\ Active = {})

\* The latest incident is closed and keeps a signal that needs grace from being counted.
Muted ==
    LET latest == Newest(Existing)
    IN  latest # 0 /\ HitCount(incidents[latest].noise, Now) < HitsNeeded(Now)

\* When something stays wrong with a spot, an incident is active in the end, whatever
\* operators did to it and although a signal that needs several hits is first kept in
\* memory that restarts wipe; but for a muted one (PlanGrace: previousSnapshot is the
\* latest incident's, the pending one is not looked at).
TroubleOpens ==
    <>[](Now.reason \notin Healthy) => <>[](Active # {} \/ Muted)
=============================================================================

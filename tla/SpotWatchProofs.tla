---------------------------- MODULE SpotWatchProofs ----------------------------
(***************************************************************************)
(* What runs and operators keep of a spot's incidents, however they        *)
(* overlap.                                                                *)
(***************************************************************************)
EXTENDS SpotWatch, FiniteSetTheorems, WellFoundedInduction, TLAPS

-----------------------------------------------------------------------------
(* The newest incident of a set is one of it.                              *)

LEMMA NewestIsOne ==
    ASSUME NEW ids \in SUBSET Ids, ids # {}
    PROVE  Newest(ids) \in ids
<1> DEFINE Below == OpToRel(<, Nat)
           Left == {MaxIncidents - i : i \in ids}
<1>1. Left \subseteq Nat /\ Left # {}
  <2>1. \A i \in ids : MaxIncidents - i \in Nat
    BY BoundAssumption DEF Ids
  <2> QED  BY <2>1
<1>2. PICK x \in Left : \A y \in Left : ~(<<y, x>> \in Below)
  <2>1. IsWellFoundedOn(Below, Nat)
    BY NatLessThanWellFounded
  <2> HIDE DEF Below, Left
  <2> QED  BY <1>1, <2>1, WFMin
<1>3. \A y \in Left : x <= y
  <2> SUFFICES ASSUME NEW y \in Left, ~(x <= y)  PROVE FALSE
    OBVIOUS
  <2> HIDE DEF Left
  <2>1. x \in Nat /\ y \in Nat
    BY <1>1, <1>2
  <2>3. y < x
    BY <2>1
  <2>2. <<y, x>> \in Below
    BY <2>1, <2>3 DEF OpToRel
  <2> QED  BY <1>2, <2>2
<1>4. PICK i \in ids : x = MaxIncidents - i
  BY <1>2
<1>5. \A j \in ids : j <= i
  <2> TAKE j \in ids
  <2>1. i \in Int /\ j \in Int /\ MaxIncidents \in Int
    BY BoundAssumption DEF Ids
  <2>2. x <= MaxIncidents - j
    BY <1>3
  <2> QED  BY <1>4, <2>1, <2>2
<1>6. \E k \in ids : \A j \in ids : j <= k
  BY <1>5
<1> QED  BY <1>6 DEF Newest

LEMMA NewestInRange ==
    ASSUME NEW ids \in SUBSET Ids
    PROVE  Newest(ids) \in ids \cup {0} /\ Newest(ids) \in 0..MaxIncidents
<1>1. CASE ids = {}
  BY <1>1, BoundAssumption DEF Newest
<1>2. CASE ids # {}
  <2>1. Newest(ids) \in ids
    BY <1>2, NewestIsOne
  <2>2. Newest(ids) \in 1..MaxIncidents
    BY <2>1 DEF Ids
  <2> HIDE DEF Newest
  <2> QED  BY <2>1, <2>2, BoundAssumption
<1> QED  BY <1>1, <1>2

\* Every incident the search for active ones can find is there, and it finds one if any is.
LEMMA NewestActiveIsActive ==
    /\ NewestActive \in 0..MaxIncidents
    /\ IF Active = {} THEN NewestActive = 0 ELSE NewestActive \in Active
<1>1. Active \in SUBSET Ids
  BY DEF Active
<1>2. Active = {} => NewestActive = 0
  BY DEF NewestActive, Newest
<1> QED  BY <1>1, <1>2, NewestIsOne, NewestInRange DEF NewestActive

LEMMA NewestExisting ==
    Newest(Existing) \in Existing \cup {0} /\ Newest(Existing) \in 0..MaxIncidents
<1>1. Existing \in SUBSET Ids
  BY DEF Existing
<1> QED  BY <1>1, NewestInRange

-----------------------------------------------------------------------------
(* Types.                                                                  *)

LEMMA NothingTyped ==
    /\ NoDecision \in Decision /\ NoNoise \in Noise /\ Absent \in Incident /\ Free \in Run
    /\ NoEvent \in Event
<1>1. NoDecision \in Decision
  BY DEF NoDecision, Decision, Reasons, Whose
<1>2. NoNoise \in Noise
  BY <1>1, GraceAssumption DEF NoNoise, Noise
<1>3. Absent \in Incident
  BY <1>2 DEF Absent, Incident
<1>4. Free \in Run
  BY <1>1, <1>2, BoundAssumption DEF Free, Run, Acts, Statuses
<1>5. NoEvent \in Event
  BY DEF NoEvent, Event
<1> QED  BY <1>1, <1>2, <1>3, <1>4, <1>5

\* What reconcileSpotProjection decides is a decision.
LEMMA NowTyped ==
    ASSUME TypeOK
    PROVE  Now \in Decision
<1>1. event.plate \in Plates \cup {Nothing} /\ inside \in [Plates -> Nat]
  BY DEF TypeOK, Event
<1>2. Reason(event, inside, rules) \in Reasons
  BY DEF Reason, Reasons
<1> QED  BY <1>1, <1>2 DEF Now, Decide, Decision, Whose

\* The hits stay in range, whichever state they are counted from.
LEMMA NoticeTyped ==
    ASSUME TypeOK, NEW p \in Procs, NEW signal \in Decision
    PROVE  [signal |-> signal, hits |-> HitCount(Previous(p, Newest(Existing)), signal),
            recent |-> TRUE] \in Noise
<1> DEFINE previous == Previous(p, Newest(Existing))
<1>1. Newest(Existing) # 0 => incidents[Newest(Existing)] \in Incident
  BY NewestExisting DEF TypeOK, Existing
<1>2. procs[p] \in Run /\ pending \in Noise
  BY DEF TypeOK
<1>3. previous \in Noise
  BY <1>1, <1>2 DEF Previous, Incident, Run
<1> HIDE DEF previous
<1>4. previous.hits \in 0..GraceHits
  BY <1>3 DEF Noise
<1>5. HitCount(previous, signal) \in 0..GraceHits
  BY <1>4, GraceAssumption DEF HitCount
<1> QED  BY <1>5 DEF Noise, previous

LEMMA MovedTyped ==
    ASSUME TypeOK, NEW p, NEW run \in Run, NEW changed \in BOOLEAN
    PROVE  Moved(p, run, changed) \in [Procs -> Run]
<1>1. \A q \in Procs : procs[q] \in Run
  BY DEF TypeOK
<1>2. \A q \in Procs :
        [procs[q] EXCEPT !.stale = @ \/ (changed /\ procs[q].phase \in Deciding)] \in Run
  <2> TAKE q \in Procs
  <2> DEFINE s == procs[q].stale \/ (changed /\ procs[q].phase \in Deciding)
  <2>1. s \in BOOLEAN
    OBVIOUS
  <2> HIDE DEF s
  <2>2. [procs[q] EXCEPT !.stale = s] \in Run
    BY <1>1, <2>1 DEF Run
  <2> QED  BY <2>2 DEF s
<1> QED  BY <1>2 DEF Moved

LEMMA OverlapsTyped ==
    ASSUME TypeOK, NEW p, NEW i, NEW status, Activation(p, i, status)
    PROVE  overlaps' \in 0..MaxIncidents /\ overlaps <= overlaps'
BY BoundAssumption DEF TypeOK, Activation

\* A write of a well-formed row leaves everything well formed.
LEMMA WriteTyped ==
    ASSUME TypeOK, NEW p \in Procs, NEW act \in Acts, NEW i \in 0..MaxIncidents,
           NEW row, i \in Ids => row \in Incident, Write(p, act, i, row)
    PROVE  TypeOK'
<1> DEFINE run == IF act = "quiet" THEN Free ELSE [Free EXCEPT !.phase = "tell", !.id = i]
           changed == row.status # incidents[i].status
<1>1. run \in Run
  BY NothingTyped DEF Run
<1>2. procs' = Moved(p, run, changed)
  BY DEF Write
<1>3. changed \in BOOLEAN
  OBVIOUS
<1> HIDE DEF run, changed
<1>4. procs' \in [Procs -> Run]
  BY <1>1, <1>2, <1>3, MovedTyped
<1>5. incidents' \in [Ids -> Incident]
  BY DEF TypeOK, Write
<1>6. overlaps' \in 0..MaxIncidents
  BY OverlapsTyped DEF Write
<1> QED  BY <1>4, <1>5, <1>6 DEF TypeOK, Write, world

LEMMA NotedTyped ==
    ASSUME TypeOK, NEW p \in Procs, NEW i \in Ids
    PROVE  Noted(p, i) \in Incident /\ ResolvedRow(p, i) \in Incident
<1>1. incidents[i] \in Incident /\ procs[p].noise \in Noise
  BY DEF TypeOK, Run
<1> QED  BY <1>1 DEF Noted, ResolvedRow, Incident, Statuses

LEMMA OpenRowTyped ==
    ASSUME TypeOK, NEW p \in Procs
    PROVE  OpenRow(p) \in Incident
<1>1. procs[p].noise \in Noise
  BY DEF TypeOK, Run
<1> QED  BY <1>1 DEF OpenRow, Incident, Statuses

LEMMA RunWritesTyped ==
    ASSUME TypeOK, NEW p \in Procs,
           \/ AutoResolve(p) \/ Suppress(p) \/ AutoUpdate(p) \/ AutoReopen(p) \/ AutoOpen(p)
    PROVE  TypeOK'
<1> DEFINE i == procs[p].id
           fresh == Newest(Existing) + 1
<1>1. i \in 0..MaxIncidents
  BY DEF TypeOK, Run
<1>2. i \in Ids => Noted(p, i) \in Incident /\ ResolvedRow(p, i) \in Incident
  BY NotedTyped
<1>3. OpenRow(p) \in Incident
  BY OpenRowTyped
<1> HIDE DEF i
<1>4. CASE AutoResolve(p)
  <2>1. Write(p, "resolve", i, ResolvedRow(p, i))
    BY <1>4 DEF AutoResolve, i
  <2> QED  BY <2>1, <1>1, <1>2, WriteTyped DEF Acts
<1>5. CASE Suppress(p)
  <2>1. Write(p, "quiet", i, Noted(p, i))
    BY <1>5 DEF Suppress, i
  <2> QED  BY <2>1, <1>1, <1>2, WriteTyped DEF Acts
<1>6. CASE AutoUpdate(p)
  <2>1. Write(p, "update", i, Noted(p, i))
    BY <1>6 DEF AutoUpdate, i
  <2> QED  BY <2>1, <1>1, <1>2, WriteTyped DEF Acts
<1>7. CASE AutoReopen(p)
  <2>1. Write(p, "reopen", i, OpenRow(p))
    BY <1>7 DEF AutoReopen, i
  <2> QED  BY <2>1, <1>1, <1>3, WriteTyped DEF Acts
<1>8. CASE AutoOpen(p)
  <2>1. fresh \in Ids /\ Write(p, "create", fresh, OpenRow(p))
    BY <1>8 DEF AutoOpen
  <2>2. fresh \in 0..MaxIncidents
    BY <2>1 DEF Ids
  <2> HIDE DEF fresh
  <2> QED  BY <2>1, <2>2, <1>3, WriteTyped DEF Acts
<1> QED  BY <1>4, <1>5, <1>6, <1>7, <1>8

\* One request changes and the incidents do not.
LEMMA RequestTyped ==
    ASSUME TypeOK, NEW p \in Procs, NEW run \in Run,
           procs' = [procs EXCEPT ![p] = run],
           projection' \in Decision, pending' \in Noise, told' \in [Ids -> SUBSET Statuses],
           events' \in Nat, UNCHANGED <<world, incidents, overlaps, restarts>>
    PROVE  TypeOK'
BY DEF TypeOK, world

LEMMA ReadsTyped ==
    ASSUME TypeOK, NEW p \in Procs,
           \/ StartRun(p) \/ Upsert(p) \/ ReadBack(p) \/ ReadActive(p)
    PROVE  TypeOK'
<1>1. procs[p].seen \in Decision /\ projection \in Decision /\ pending \in Noise
      /\ told \in [Ids -> SUBSET Statuses] /\ events \in Nat
  BY DEF TypeOK, Run
<1>2. CASE StartRun(p)
  <2> DEFINE run == [Free EXCEPT !.phase = "upsert", !.seen = Now]
  <2>1. run \in Run
    BY NothingTyped, NowTyped DEF Run
  <2> HIDE DEF run
  <2>2. procs' = [procs EXCEPT ![p] = run]
    BY <1>2 DEF StartRun, run
  <2> QED  BY <1>1, <1>2, <2>1, <2>2, RequestTyped DEF StartRun
<1>3. CASE Upsert(p)
  <2> DEFINE run == [Free EXCEPT !.phase = "readBack"]
  <2>1. run \in Run
    BY NothingTyped DEF Run
  <2> HIDE DEF run
  <2>2. procs' = [procs EXCEPT ![p] = run]
    BY <1>3 DEF Upsert, run
  <2> QED  BY <1>1, <1>3, <2>1, <2>2, RequestTyped DEF Upsert
<1>4. CASE ReadBack(p)
  <2> DEFINE run == [Free EXCEPT !.phase = "active", !.seen = projection]
  <2>1. run \in Run
    BY <1>1, NothingTyped DEF Run
  <2> HIDE DEF run
  <2>2. procs' = [procs EXCEPT ![p] = run]
    BY <1>4 DEF ReadBack, run
  <2> QED  BY <1>1, <1>4, <2>1, <2>2, RequestTyped DEF ReadBack
<1>5. CASE ReadActive(p)
  <2> DEFINE i == NewestActive
             noise == IF i = 0 THEN NoNoise ELSE incidents[i].noise
             run == [Free EXCEPT !.phase = "latest", !.seen = procs[p].seen, !.id = i,
                                 !.noise = noise]
  <2>1. i \in 0..MaxIncidents /\ (i # 0 => i \in Ids)
    BY NewestActiveIsActive DEF Active
  <2>2. noise \in Noise
    BY <2>1, NothingTyped DEF TypeOK, Incident
  <2> HIDE DEF noise, i
  <2>3. run \in Run
    BY <1>1, <2>1, <2>2, NothingTyped DEF Run
  <2> HIDE DEF run
  <2>4. procs' = [procs EXCEPT ![p] = run]
    BY <1>5 DEF ReadActive, run, noise, i
  <2> QED  BY <1>1, <1>5, <2>3, <2>4, RequestTyped DEF ReadActive
<1> QED  BY <1>2, <1>3, <1>4, <1>5

\* A run that has made its plan.
LEMMA PlanTyped ==
    ASSUME TypeOK, NEW p \in Procs, NEW act \in Acts, NEW id \in 0..MaxIncidents,
           NEW noise \in Noise, Plan(p, act, id, noise),
           pending' \in Noise, UNCHANGED <<world, projection, incidents, told, overlaps,
                                          restarts, events>>
    PROVE  TypeOK'
<1> DEFINE run == [Free EXCEPT !.phase = "write", !.act = act, !.id = id, !.noise = noise,
                               !.stale = procs[p].stale]
<1>1. procs[p].stale \in BOOLEAN
  BY DEF TypeOK, Run
<1>2. run \in Run
  BY <1>1, NothingTyped DEF Run
<1>3. procs' = [procs EXCEPT ![p] = run]
  BY DEF Plan
<1> HIDE DEF run
<1>4. projection' \in Decision /\ told' \in [Ids -> SUBSET Statuses] /\ events' \in Nat
  BY DEF TypeOK
<1> QED  BY <1>2, <1>3, <1>4, RequestTyped

LEMMA FinishTyped ==
    ASSUME TypeOK, NEW p \in Procs, Finish(p), pending' \in Noise,
           told' \in [Ids -> SUBSET Statuses],
           UNCHANGED <<world, projection, incidents, overlaps, restarts, events>>
    PROVE  TypeOK'
<1>1. projection' \in Decision /\ events' \in Nat
  BY DEF TypeOK
<1> QED  BY <1>1, NothingTyped, RequestTyped DEF Finish

LEMMA ReadLatestTyped ==
    ASSUME TypeOK, NEW p \in Procs, ReadLatest(p)
    PROVE  TypeOK'
<1> DEFINE signal == procs[p].seen
           latest == Newest(Existing)
           hits == HitCount(Previous(p, latest), signal)
           noise == [signal |-> signal, hits |-> hits, recent |-> TRUE]
           id == procs[p].id
<1>1. signal \in Decision /\ id \in 0..MaxIncidents /\ procs[p].noise \in Noise
  BY DEF TypeOK, Run
<1>2. noise \in Noise
  BY <1>1, NoticeTyped
<1>3. latest \in 0..MaxIncidents
  BY NewestExisting
<1>4. pending \in Noise /\ told \in [Ids -> SUBSET Statuses]
  BY DEF TypeOK
<1>5. UNCHANGED <<world, projection, incidents, told, overlaps, restarts, events>>
  BY DEF ReadLatest
<1>6. \/ PlanResolve(p) \/ PlanGrace(p, noise) \/ PlanOpen(p, latest, noise)
      \/ PlanUpdate(p, noise)
  BY DEF ReadLatest
<1> HIDE DEF noise, latest, signal, hits
<1>7. CASE PlanResolve(p)
  <2>1. [procs[p].noise EXCEPT !.recent = TRUE] \in Noise
    BY <1>1 DEF Noise
  <2>2. pending' \in Noise
    BY <1>7, NothingTyped DEF PlanResolve
  <2>3. \/ Finish(p)
        \/ Plan(p, "resolve", id, [procs[p].noise EXCEPT !.recent = TRUE])
    BY <1>7 DEF PlanResolve
  <2> HIDE DEF id
  <2> QED  BY <1>1, <1>4, <1>5, <2>1, <2>2, <2>3, FinishTyped, PlanTyped DEF Acts
<1>8. CASE PlanGrace(p, noise)
  <2>1. pending' \in Noise
    BY <1>2, <1>4, <1>8 DEF PlanGrace
  <2>2. Finish(p) \/ Plan(p, "quiet", id, noise)
    BY <1>8 DEF PlanGrace
  <2> HIDE DEF id
  <2> QED  BY <1>1, <1>2, <1>4, <1>5, <2>1, <2>2, FinishTyped, PlanTyped DEF Acts
<1>9. CASE PlanOpen(p, latest, noise)
  <2>1. pending' \in Noise
    BY <1>9, NothingTyped DEF PlanOpen
  <2>2. Plan(p, "reopen", latest, noise) \/ Plan(p, "create", 0, noise)
    BY <1>9 DEF PlanOpen
  <2> QED  BY <1>2, <1>3, <1>5, <2>1, <2>2, PlanTyped, BoundAssumption DEF Acts
<1>10. CASE PlanUpdate(p, noise)
  <2>1. pending' \in Noise
    BY <1>4, <1>10 DEF PlanUpdate
  <2>2. Plan(p, "update", id, noise) \/ Plan(p, "quiet", id, noise)
    BY <1>10 DEF PlanUpdate
  <2> HIDE DEF id
  <2> QED  BY <1>1, <1>2, <1>5, <2>1, <2>2, PlanTyped DEF Acts
<1> QED  BY <1>6, <1>7, <1>8, <1>9, <1>10

-----------------------------------------------------------------------------
(* Requests name incidents that exist, and no incident is ever deleted.    *)

Known == \A p \in Procs : procs[p].id \in Existing \cup {0}

\* What a step owes: the status of an incident is never taken back to none, and requests
\* name incidents that are there.
LEMMA KnownKept ==
    ASSUME Known, Existing \subseteq Existing',
           \A q \in Procs : \/ procs'[q].id = procs[q].id
                            \/ procs'[q].id = 0
                            \/ procs'[q].id \in Existing'
    PROVE  Known'
BY DEF Known

LEMMA SameIncidents ==
    ASSUME UNCHANGED incidents
    PROVE  Existing' = Existing /\ Active' = Active
BY DEF Existing, Active

LEMMA WriteKnown ==
    ASSUME TypeOK, Known, NEW p \in Procs, NEW act, NEW i \in 0..MaxIncidents, NEW row,
           i \in Ids => row.status # "ABSENT", Write(p, act, i, row)
    PROVE  Known'
<1> DEFINE run == IF act = "quiet" THEN Free ELSE [Free EXCEPT !.phase = "tell", !.id = i]
<1>1. \A j \in Ids : incidents'[j] = IF j = i THEN row ELSE incidents[j]
  BY DEF TypeOK, Write
<1>2. Existing \subseteq Existing' /\ (i \in Ids => i \in Existing')
  BY <1>1 DEF Existing
<1>3. i = 0 \/ i \in Existing'
  BY <1>2 DEF Ids
<1>4. run.id = 0 \/ run.id = i
  BY DEF Free
<1>5. \A q \in Procs : procs'[q].id = IF q = p THEN run.id ELSE procs[q].id
  <2>1. \A q \in Procs : procs[q] \in Run
    BY DEF TypeOK
  <2> QED  BY <2>1 DEF Write, Moved, Run
<1> HIDE DEF run
<1> QED  BY <1>2, <1>3, <1>4, <1>5, KnownKept

LEMMA RunWritesKnown ==
    ASSUME TypeOK, Known, NEW p \in Procs,
           \/ AutoResolve(p) \/ Suppress(p) \/ AutoUpdate(p) \/ AutoReopen(p) \/ AutoOpen(p)
    PROVE  Known'
<1> DEFINE i == procs[p].id
           fresh == Newest(Existing) + 1
<1>1. i \in 0..MaxIncidents /\ (i \in Ids => i \in Existing)
  BY DEF TypeOK, Run, Known, Ids
<1>2. i \in Ids => Noted(p, i).status # "ABSENT" /\ ResolvedRow(p, i).status # "ABSENT"
  <2>1. i \in Ids => incidents[i] \in Incident /\ incidents[i].status # "ABSENT"
    BY <1>1 DEF TypeOK, Existing
  <2> QED  BY <2>1 DEF Noted, ResolvedRow, Incident
<1>3. OpenRow(p).status # "ABSENT"
  BY DEF OpenRow
<1> HIDE DEF i
<1>4. CASE AutoResolve(p)
  <2>1. Write(p, "resolve", i, ResolvedRow(p, i))
    BY <1>4 DEF AutoResolve, i
  <2> QED  BY <2>1, <1>1, <1>2, WriteKnown
<1>5. CASE Suppress(p)
  <2>1. Write(p, "quiet", i, Noted(p, i))
    BY <1>5 DEF Suppress, i
  <2> QED  BY <2>1, <1>1, <1>2, WriteKnown
<1>6. CASE AutoUpdate(p)
  <2>1. Write(p, "update", i, Noted(p, i))
    BY <1>6 DEF AutoUpdate, i
  <2> QED  BY <2>1, <1>1, <1>2, WriteKnown
<1>7. CASE AutoReopen(p)
  <2>1. Write(p, "reopen", i, OpenRow(p))
    BY <1>7 DEF AutoReopen, i
  <2> QED  BY <2>1, <1>1, <1>3, WriteKnown
<1>8. CASE AutoOpen(p)
  <2>1. fresh \in Ids /\ Write(p, "create", fresh, OpenRow(p))
    BY <1>8 DEF AutoOpen
  <2>2. fresh \in 0..MaxIncidents
    BY <2>1 DEF Ids
  <2> HIDE DEF fresh
  <2> QED  BY <2>1, <2>2, <1>3, WriteKnown
<1> QED  BY <1>4, <1>5, <1>6, <1>7, <1>8

LEMMA RequestKnown ==
    ASSUME TypeOK, Known, NEW p \in Procs, NEW run,
           procs' = [procs EXCEPT ![p] = run], UNCHANGED incidents,
           run.id = 0 \/ run.id = procs[p].id \/ run.id \in Existing
    PROVE  Known'
<1>1. \A q \in Procs : procs'[q] = IF q = p THEN run ELSE procs[q]
  BY DEF TypeOK
<1> QED  BY <1>1, SameIncidents, KnownKept

LEMMA ReadsKnown ==
    ASSUME TypeOK, Known, NEW p \in Procs,
           \/ StartRun(p) \/ Upsert(p) \/ ReadBack(p) \/ ReadActive(p) \/ Tell(p)
    PROVE  Known'
<1>1. NewestActive \in Existing \cup {0}
  <2>1. Active \subseteq Existing
    BY DEF Active, Existing, IsActive
  <2> QED  BY <2>1, NewestActiveIsActive
<1>2. UNCHANGED incidents
  BY DEF StartRun, Upsert, ReadBack, ReadActive, Tell
<1>3. ASSUME NEW run, procs' = [procs EXCEPT ![p] = run], run.id \in {0, NewestActive}
      PROVE  Known'
  BY <1>1, <1>2, <1>3, RequestKnown
<1> HIDE DEF Known
<1>4. CASE StartRun(p)
  BY <1>3, <1>4 DEF StartRun, Free
<1>5. CASE Upsert(p)
  BY <1>3, <1>5 DEF Upsert, Free
<1>6. CASE ReadBack(p)
  BY <1>3, <1>6 DEF ReadBack, Free
<1>7. CASE ReadActive(p)
  <2> DEFINE noise == IF NewestActive = 0 THEN NoNoise ELSE incidents[NewestActive].noise
             run == [Free EXCEPT !.phase = "latest", !.seen = procs[p].seen,
                                 !.id = NewestActive, !.noise = noise]
  <2>1. procs' = [procs EXCEPT ![p] = run] /\ run.id = NewestActive
    BY <1>7 DEF ReadActive, Free
  <2> HIDE DEF run
  <2> QED  BY <1>3, <2>1
<1>8. CASE Tell(p)
  BY <1>3, <1>8 DEF Tell, Finish, Free
<1> QED  BY <1>4, <1>5, <1>6, <1>7, <1>8

LEMMA ReadLatestKnown ==
    ASSUME TypeOK, Known, NEW p \in Procs, ReadLatest(p)
    PROVE  Known'
<1> DEFINE latest == Newest(Existing)
<1>1. latest \in Existing \cup {0}
  BY NewestExisting
<1>2. \/ Finish(p)
      \/ \E act, noise : Plan(p, act, procs[p].id, noise)
      \/ \E act, noise : Plan(p, act, latest, noise)
      \/ \E act, noise : Plan(p, act, 0, noise)
  BY DEF ReadLatest, PlanResolve, PlanGrace, PlanOpen, PlanUpdate
<1> HIDE DEF latest
<1>3. ASSUME NEW act, NEW id, NEW noise, Plan(p, act, id, noise),
             id = 0 \/ id = procs[p].id \/ id = latest
      PROVE  Known'
  <2> DEFINE run == [Free EXCEPT !.phase = "write", !.act = act, !.id = id, !.noise = noise,
                                 !.stale = procs[p].stale]
  <2>1. procs' = [procs EXCEPT ![p] = run] /\ run.id = id
    BY <1>3 DEF Plan, Free
  <2>2. UNCHANGED incidents
    BY DEF ReadLatest
  <2> HIDE DEF run
  <2> QED  BY <1>1, <1>3, <2>1, <2>2, RequestKnown
<1>4. CASE Finish(p)
  <2>1. procs' = [procs EXCEPT ![p] = Free] /\ Free.id = 0
    BY <1>4 DEF Finish, Free
  <2>2. UNCHANGED incidents
    BY DEF ReadLatest
  <2> QED  BY <2>1, <2>2, RequestKnown
<1> QED  BY <1>2, <1>3, <1>4

-----------------------------------------------------------------------------
(* Everything stays well formed.                                           *)

IInv == TypeOK /\ Known

\* The history gains a status an incident has.
LEMMA TellTyped ==
    ASSUME TypeOK, Known, NEW p \in Procs, Tell(p)
    PROVE  TypeOK'
<1> DEFINE i == procs[p].id
<1>1. i \in Ids => Told(i) \subseteq Statuses
  <2>1. i \in Ids => incidents[i] \in Incident /\ incidents[i].status # "ABSENT"
    BY DEF Known, TypeOK, Existing, Ids
  <2> QED  BY <2>1 DEF TypeOK, Told, Incident
<1>2. told' \in [Ids -> SUBSET Statuses]
  BY <1>1 DEF TypeOK, Tell
<1>3. pending' \in Noise
  BY DEF TypeOK, Tell
<1> QED  BY <1>2, <1>3, FinishTyped DEF Tell

LEMMA OperatorTyped ==
    ASSUME TypeOK, Known, NEW p \in Procs,
           \/ Resolve(p)
           \/ \E i \in Ids, status \in Statuses \ {"OPEN"} : StartResolve(p, i, status)
    PROVE  TypeOK'
<1>1. CASE Resolve(p)
  <2> DEFINE i == procs[p].id
             status == procs[p].status
             run == [Free EXCEPT !.phase = "tell", !.id = i]
             changed == status # incidents[i].status
  <2>1. i \in 0..MaxIncidents /\ status \in Statuses
    BY DEF TypeOK, Run
  <2>2. run \in Run
    BY <2>1, NothingTyped DEF Run
  <2>3. changed \in BOOLEAN
    OBVIOUS
  <2>4. procs' = Moved(p, run, changed) /\ Activation(p, i, status)
    BY <1>1 DEF Resolve
  <2>5. i \in Ids => [incidents[i] EXCEPT !.status = status, !.late = FALSE] \in Incident
    BY <2>1 DEF TypeOK, Incident
  <2>6. incidents' = [incidents EXCEPT ![i] =
                         [incidents[i] EXCEPT !.status = status, !.late = FALSE]]
    BY <1>1 DEF Resolve, TypeOK, Incident
  <2> HIDE DEF i, status, run, changed
  <2>7. procs' \in [Procs -> Run] /\ overlaps' \in 0..MaxIncidents
    BY <2>2, <2>3, <2>4, MovedTyped, OverlapsTyped
  <2>8. incidents' \in [Ids -> Incident]
    BY <2>5, <2>6 DEF TypeOK
  <2> QED  BY <1>1, <2>7, <2>8 DEF Resolve, TypeOK, world
<1>2. CASE \E i \in Ids, status \in Statuses \ {"OPEN"} : StartResolve(p, i, status)
  <2> PICK i \in Ids, status \in Statuses \ {"OPEN"} : StartResolve(p, i, status)
    BY <1>2
  <2> DEFINE run == [Free EXCEPT !.phase = "call", !.id = i, !.status = status]
  <2>1. run \in Run
    <3>1. i \in 0..MaxIncidents /\ status \in Statuses
      BY BoundAssumption DEF Ids
    <3> QED  BY <3>1, NothingTyped DEF Run
  <2>2. procs' = [procs EXCEPT ![p] = run]
    BY DEF StartResolve
  <2>3. projection' \in Decision /\ pending' \in Noise /\ told' \in [Ids -> SUBSET Statuses]
    BY DEF StartResolve, TypeOK
  <2>4. events' \in Nat
    <3>1. events \in Nat
      BY DEF TypeOK
    <3>2. Happens("operator")
      BY DEF StartResolve
    <3> QED  BY <3>1, <3>2 DEF Happens
  <2> HIDE DEF run
  <2> QED  BY <2>1, <2>2, <2>3, <2>4, RequestTyped DEF StartResolve
<1> QED  BY <1>1, <1>2

LEMMA OperatorKnown ==
    ASSUME TypeOK, Known, NEW p \in Procs,
           \/ Resolve(p)
           \/ \E i \in Ids, status \in Statuses \ {"OPEN"} : StartResolve(p, i, status)
    PROVE  Known'
<1>1. CASE Resolve(p)
  <2> DEFINE i == procs[p].id
             run == [Free EXCEPT !.phase = "tell", !.id = i]
  <2>1. Existing \subseteq Existing'
    <3>1. procs[p].status # "ABSENT"
      BY DEF TypeOK, Run, Statuses
    <3>2. \A j \in Ids : incidents'[j].status \in {incidents[j].status, procs[p].status}
      BY <1>1 DEF Resolve, TypeOK, Incident
    <3> QED  BY <3>1, <3>2 DEF Existing
  <2>2. \A q \in Procs : procs'[q].id = procs[q].id
    <3>1. \A q \in Procs : procs[q] \in Run
      BY DEF TypeOK
    <3>2. run.id = i
      BY DEF Free
    <3>3. \A q \in Procs : q # p => procs'[q].id = procs[q].id
      BY <1>1, <3>1 DEF Resolve, Moved, Run
    <3>4. procs'[p] = run
      BY <1>1 DEF Resolve, Moved
    <3> QED  BY <3>2, <3>3, <3>4
  <2> QED  BY <2>1, <2>2, KnownKept
<1>2. CASE \E i \in Ids, status \in Statuses \ {"OPEN"} : StartResolve(p, i, status)
  <2> PICK i \in Ids, status \in Statuses \ {"OPEN"} : StartResolve(p, i, status)
    BY <1>2
  <2> DEFINE run == [Free EXCEPT !.phase = "call", !.id = i, !.status = status]
  <2>1. procs' = [procs EXCEPT ![p] = run] /\ run.id = i
    BY DEF StartResolve, Free
  <2> HIDE DEF run
  <2>2. i \in Existing /\ UNCHANGED incidents
    BY DEF StartResolve, Active, Existing, IsActive
  <2> QED  BY <2>1, <2>2, RequestKnown
<1> QED  BY <1>1, <1>2

\* The world moves: no request but those a restart ends, no status of an incident.
WorldSteps ==
    \/ \E plate \in Plates \cup {Nothing} : AcceptEvent(plate)
    \/ \E plate \in Plates : PassGate(plate)
    \/ \E i \in Existing : WindowPasses(i) \/ SignalAges(i)
    \/ FeedStales \/ ChangeRules \/ PendingAges \/ Restart

LEMMA WorldTyped ==
    ASSUME TypeOK, WorldSteps
    PROVE  TypeOK'
<1>1. events' \in Nat
  <2>1. \E kind : Happens(kind)
    BY DEF WorldSteps, AcceptEvent, PassGate, WindowPasses, SignalAges, FeedStales, ChangeRules,
           PendingAges, Restart
  <2> QED  BY <2>1 DEF Happens, TypeOK
<1>2. ASSUME NEW plate \in Plates \cup {Nothing}, AcceptEvent(plate)  PROVE TypeOK'
  BY <1>1, <1>2 DEF AcceptEvent, TypeOK, Event
<1>3. ASSUME NEW plate \in Plates, PassGate(plate)  PROVE TypeOK'
  <2>1. inside' \in [Plates -> Nat]
    BY <1>3 DEF PassGate, TypeOK
  <2> QED  BY <1>1, <1>3, <2>1 DEF PassGate, TypeOK
<1>4. ASSUME NEW i \in Existing, WindowPasses(i) \/ SignalAges(i)  PROVE TypeOK'
  <2>1. i \in Ids /\ incidents[i] \in Incident
    BY DEF TypeOK, Existing
  <2>2. /\ [incidents[i] EXCEPT !.noise.recent = FALSE, !.late = TRUE] \in Incident
        /\ [incidents[i] EXCEPT !.noise.recent = FALSE] \in Incident
    BY <2>1 DEF Incident, Noise
  <2>3. incidents' \in [Ids -> Incident]
    BY <1>4, <2>1, <2>2 DEF WindowPasses, SignalAges, TypeOK
  <2> QED  BY <1>1, <1>4, <2>3 DEF WindowPasses, SignalAges, TypeOK, world
<1>5. CASE FeedStales
  BY <1>1, <1>5 DEF FeedStales, TypeOK, Event
<1>6. CASE ChangeRules
  BY <1>1, <1>6 DEF ChangeRules, TypeOK
<1>7. CASE PendingAges
  BY <1>1, <1>7 DEF PendingAges, TypeOK, Noise, world
<1>8. CASE Restart
  <2>1. procs' \in [Procs -> Run] /\ pending' \in Noise /\ restarts' \in Nat
    BY <1>8, NothingTyped DEF Restart, TypeOK
  <2> QED  BY <1>1, <1>8, <2>1 DEF Restart, TypeOK, world
<1> QED  BY <1>2, <1>3, <1>4, <1>5, <1>6, <1>7, <1>8 DEF WorldSteps

\* What all steps of the world have in common.
LEMMA WorldKeepsStatuses ==
    ASSUME TypeOK, WorldSteps
    PROVE  /\ \A i \in Ids : incidents'[i].status = incidents[i].status
           /\ \/ procs' = procs /\ restarts' = restarts
              \/ procs' = [p \in Procs |-> Free] /\ restarts' = restarts + 1
           /\ UNCHANGED <<told, overlaps>>
<1> DEFINE Goal == /\ \A i \in Ids : incidents'[i].status = incidents[i].status
                   /\ \/ procs' = procs /\ restarts' = restarts
                      \/ procs' = [p \in Procs |-> Free] /\ restarts' = restarts + 1
                   /\ UNCHANGED <<told, overlaps>>
<1>1. ASSUME NEW plate, AcceptEvent(plate) \/ PassGate(plate)  PROVE Goal
  BY <1>1 DEF AcceptEvent, PassGate
<1>2. ASSUME NEW i \in Existing, WindowPasses(i) \/ SignalAges(i)  PROVE Goal
  <2>1. \A j \in Ids : incidents[j] \in Incident
    BY DEF TypeOK
  <2>2. \A j \in Ids : incidents'[j].status = incidents[j].status
    BY <1>2, <2>1 DEF WindowPasses, SignalAges, TypeOK, Incident
  <2> QED  BY <1>2, <2>2 DEF WindowPasses, SignalAges
<1>3. CASE FeedStales \/ ChangeRules \/ PendingAges \/ Restart
  BY <1>3 DEF FeedStales, ChangeRules, PendingAges, Restart
<1>4. CASE \E plate \in Plates \cup {Nothing} : AcceptEvent(plate)
  BY <1>1, <1>4
<1>5. CASE \E plate \in Plates : PassGate(plate)
  BY <1>1, <1>5
<1>6. CASE \E i \in Existing : WindowPasses(i) \/ SignalAges(i)
  BY <1>2, <1>6
<1> QED  BY <1>3, <1>4, <1>5, <1>6 DEF WorldSteps

LEMMA WorldKnown ==
    ASSUME TypeOK, Known, WorldSteps
    PROVE  Known'
<1>1. Existing' = Existing
  BY WorldKeepsStatuses DEF Existing
<1>2. \A q \in Procs : procs'[q].id = procs[q].id \/ procs'[q].id = 0
  BY WorldKeepsStatuses DEF Free
<1> QED  BY <1>1, <1>2, KnownKept

\* A step is a request's, an operator's or the world's.
LEMMA NextCases ==
    ASSUME Next
    PROVE  \/ \E p \in Procs :
                \/ StartRun(p) \/ Upsert(p) \/ ReadBack(p) \/ ReadActive(p) \/ Tell(p)
                \/ ReadLatest(p)
                \/ AutoResolve(p) \/ Suppress(p) \/ AutoUpdate(p) \/ AutoReopen(p) \/ AutoOpen(p)
                \/ Resolve(p)
                \/ \E i \in Ids, status \in Statuses \ {"OPEN"} : StartResolve(p, i, status)
           \/ WorldSteps
BY DEF Next, Proceed, WorldSteps

LEMMA InitHolds == Init => IInv
<1> SUFFICES ASSUME Init  PROVE IInv
  OBVIOUS
<1>1. event \in Event
  <2>1. event = NoEvent \/ event \in [taken: {TRUE}, plate: Plates, fresh: {TRUE}]
    BY DEF Init
  <2>2. [taken: {TRUE}, plate: Plates, fresh: {TRUE}] \subseteq Event
    BY DEF Event
  <2> QED  BY <2>1, <2>2, NothingTyped
<1>2. TypeOK
  BY <1>1, NothingTyped, RulesAssumption, BoundAssumption DEF Init, TypeOK
<1>3. Known
  BY DEF Init, Known, Free
<1> QED  BY <1>2, <1>3 DEF IInv

LEMMA NextKeeps == IInv /\ [Next]_vars => IInv'
<1> SUFFICES ASSUME TypeOK, Known, [Next]_vars  PROVE TypeOK' /\ Known'
  BY DEF IInv
<1>1. CASE UNCHANGED vars
  BY <1>1 DEF vars, world, TypeOK, Known, Existing
<1>2. ASSUME NEW p \in Procs,
             StartRun(p) \/ Upsert(p) \/ ReadBack(p) \/ ReadActive(p) \/ Tell(p)
      PROVE  TypeOK' /\ Known'
  BY <1>2, ReadsTyped, TellTyped, ReadsKnown
<1>3. ASSUME NEW p \in Procs, ReadLatest(p)  PROVE TypeOK' /\ Known'
  BY <1>3, ReadLatestTyped, ReadLatestKnown
<1>4. ASSUME NEW p \in Procs,
             \/ AutoResolve(p) \/ Suppress(p) \/ AutoUpdate(p) \/ AutoReopen(p) \/ AutoOpen(p)
      PROVE  TypeOK' /\ Known'
  BY <1>4, RunWritesTyped, RunWritesKnown
<1>5. ASSUME NEW p \in Procs,
             \/ Resolve(p)
             \/ \E i \in Ids, status \in Statuses \ {"OPEN"} : StartResolve(p, i, status)
      PROVE  TypeOK' /\ Known'
  BY <1>5, OperatorTyped, OperatorKnown
<1>6. CASE WorldSteps
  BY <1>6, WorldTyped, WorldKnown
<1> QED  BY <1>1, <1>2, <1>3, <1>4, <1>5, <1>6, NextCases

\* The projection, the incidents and the requests stay well formed.
THEOREM TypeCorrect == Spec => []TypeOK
<1>1. IInv => TypeOK
  BY DEF IInv
<1> QED  BY <1>1, InitHolds, NextKeeps, PTL DEF Spec

-----------------------------------------------------------------------------
(* The history.                                                            *)

Telling(i) == \E p \in Procs : Is(p, "tell") /\ procs[p].id = i

\* The history of incident i is told, is being told, or was lost.
Recorded(i) == incidents[i].status \in told[i] \/ Telling(i) \/ restarts > 0

\* A write of a run or an operator: the one incident it changes is told of next, the
\* others lose nobody who tells of them.
LEMMA ChangeRecorded ==
    ASSUME TypeOK, StatusIsRecorded, NEW p \in Procs, NEW i, NEW run, NEW changed,
           procs' = Moved(p, run, changed), ~Is(p, "tell"),
           \A j \in Ids : j # i => incidents'[j] = incidents[j],
           \/ run.phase = "tell" /\ run.id = i
           \/ i \in Ids => incidents'[i].status = incidents[i].status,
           UNCHANGED <<told, restarts>>
    PROVE  StatusIsRecorded'
<1>1. \A q \in Procs : q # p => procs'[q].phase = procs[q].phase /\ procs'[q].id = procs[q].id
  <2>1. \A q \in Procs : procs[q] \in Run
    BY DEF TypeOK
  <2> QED  BY <2>1 DEF Moved, Run
<1>2. \A j : Telling(j) => Telling(j)'
  BY <1>1 DEF Telling, Is
<1>3. procs'[p] = run
  BY DEF Moved
<1>4. ASSUME NEW j \in Existing', j # i \/ incidents'[j].status = incidents[j].status
      PROVE  Recorded(j)'
  <2>1. j \in Ids /\ incidents'[j].status = incidents[j].status
    BY <1>4 DEF Existing
  <2>2. j \in Existing
    BY <1>4, <2>1 DEF Existing
  <2>3. Recorded(j)
    BY <2>2 DEF StatusIsRecorded, Recorded, Telling
  <2> QED  BY <1>2, <2>1, <2>3 DEF Recorded
<1>5. ASSUME run.phase = "tell" /\ run.id = i  PROVE Telling(i)'
  BY <1>3, <1>5 DEF Telling, Is
<1>6. \A j \in Existing' : Recorded(j)'
  BY <1>4, <1>5 DEF Recorded, Existing
<1> QED  BY <1>6 DEF StatusIsRecorded, Recorded, Telling

LEMMA WriteRecorded ==
    ASSUME TypeOK, StatusIsRecorded, NEW p \in Procs, NEW act, NEW i, NEW row,
           Write(p, act, i, row),
           act = "quiet" /\ i \in Ids => row.status = incidents[i].status
    PROVE  StatusIsRecorded'
<1> DEFINE run == IF act = "quiet" THEN Free ELSE [Free EXCEPT !.phase = "tell", !.id = i]
           changed == row.status # incidents[i].status
<1>1. procs' = Moved(p, run, changed) /\ ~Is(p, "tell") /\ UNCHANGED <<told, restarts>>
  BY DEF Write, Is
<1>2. \A j \in Ids : incidents'[j] = IF j = i THEN row ELSE incidents[j]
  BY DEF Write, TypeOK
<1>3. act # "quiet" => run.phase = "tell" /\ run.id = i
  BY DEF Free
<1> HIDE DEF run, changed
<1> QED  BY <1>1, <1>2, <1>3, ChangeRecorded

\* Between its writes a request tells nobody of anything.
LEMMA ReadRecorded ==
    ASSUME TypeOK, StatusIsRecorded, NEW p \in Procs, ~Is(p, "tell"),
           \A q \in Procs : q # p => procs'[q] = procs[q],
           UNCHANGED <<incidents, told, restarts>>
    PROVE  StatusIsRecorded'
BY DEF StatusIsRecorded, Existing, Is

LEMMA RunRecorded ==
    ASSUME TypeOK, StatusIsRecorded, NEW p \in Procs,
           \/ AutoResolve(p) \/ Suppress(p) \/ AutoUpdate(p) \/ AutoReopen(p) \/ AutoOpen(p)
    PROVE  StatusIsRecorded'
<1>1. \A i \in Ids : Noted(p, i).status = incidents[i].status
  BY DEF Noted, TypeOK, Incident
<1>2. PICK act, i, row : /\ Write(p, act, i, row)
                         /\ act = "quiet" => row = Noted(p, i)
  BY DEF AutoResolve, Suppress, AutoUpdate, AutoReopen, AutoOpen
<1> QED  BY <1>1, <1>2, WriteRecorded

LEMMA ResolveRecorded ==
    ASSUME TypeOK, StatusIsRecorded, NEW p \in Procs, Resolve(p)
    PROVE  StatusIsRecorded'
<1> DEFINE i == procs[p].id
           run == [Free EXCEPT !.phase = "tell", !.id = i]
           changed == procs[p].status # incidents[i].status
<1>1. procs' = Moved(p, run, changed) /\ ~Is(p, "tell") /\ UNCHANGED <<told, restarts>>
  BY DEF Resolve, Is
<1>2. \A j \in Ids : j # i => incidents'[j] = incidents[j]
  BY DEF Resolve, TypeOK
<1>3. run.phase = "tell" /\ run.id = i
  BY DEF Free
<1> HIDE DEF run, changed, i
<1>4. \A j : j \notin Ids => j \notin Existing'
  BY DEF Existing
<1> QED  BY <1>1, <1>2, <1>3, ChangeRecorded

LEMMA TellRecorded ==
    ASSUME TypeOK, StatusIsRecorded, NEW p \in Procs, Tell(p)
    PROVE  StatusIsRecorded'
<1> SUFFICES ASSUME NEW j \in Existing  PROVE Recorded(j)'
  BY DEF StatusIsRecorded, Recorded, Telling, Existing, Tell
<1>1. j \in Ids /\ incidents' = incidents /\ restarts' = restarts
  BY DEF Existing, Tell
<1>2. CASE j = procs[p].id
  <2>1. told'[j] = Told(j)
    BY <1>1, <1>2 DEF Tell, TypeOK
  <2> QED  BY <1>1, <2>1 DEF Recorded, Told
<1>3. CASE j # procs[p].id
  <2>1. told'[j] = told[j]
    BY <1>1, <1>3 DEF Tell, TypeOK
  <2>2. Telling(j) => Telling(j)'
    BY <1>3 DEF Telling, Is, Tell, Finish, TypeOK
  <2>3. Recorded(j)
    BY DEF StatusIsRecorded, Recorded, Telling
  <2> QED  BY <1>1, <2>1, <2>2, <2>3 DEF Recorded
<1> QED  BY <1>2, <1>3

LEMMA WorldRecorded ==
    ASSUME TypeOK, StatusIsRecorded, WorldSteps
    PROVE  StatusIsRecorded'
<1>1. Existing' = Existing /\ told' = told
  BY WorldKeepsStatuses DEF Existing
<1>2. CASE procs' = procs /\ restarts' = restarts
  BY <1>1, <1>2, WorldKeepsStatuses DEF StatusIsRecorded, Existing, Is
<1>3. CASE restarts' = restarts + 1
  BY <1>3 DEF StatusIsRecorded, TypeOK
<1> QED  BY <1>2, <1>3, WorldKeepsStatuses

LEMMA NextRecorded == TypeOK /\ StatusIsRecorded /\ [Next]_vars => StatusIsRecorded'
<1> SUFFICES ASSUME TypeOK, StatusIsRecorded, [Next]_vars  PROVE StatusIsRecorded'
  OBVIOUS
<1>1. CASE UNCHANGED vars
  BY <1>1 DEF vars, StatusIsRecorded, Existing, Is
<1>2. ASSUME NEW p \in Procs, StartRun(p) \/ Upsert(p) \/ ReadBack(p) \/ ReadActive(p)
      PROVE  StatusIsRecorded'
  <2>1. ~Is(p, "tell") /\ UNCHANGED <<incidents, told, restarts>>
    BY <1>2 DEF StartRun, Upsert, ReadBack, ReadActive, Is
  <2>2. \A q \in Procs : q # p => procs'[q] = procs[q]
    BY <1>2 DEF StartRun, Upsert, ReadBack, ReadActive, TypeOK
  <2> QED  BY <2>1, <2>2, ReadRecorded
<1>3. ASSUME NEW p \in Procs, ReadLatest(p)
      PROVE  StatusIsRecorded'
  <2>1. ~Is(p, "tell") /\ UNCHANGED <<incidents, told, restarts>>
    BY <1>3 DEF ReadLatest, Is
  <2>2. \A q \in Procs : q # p => procs'[q] = procs[q]
    BY <1>3 DEF ReadLatest, PlanResolve, PlanGrace, PlanOpen, PlanUpdate, Plan, Finish, TypeOK
  <2> QED  BY <2>1, <2>2, ReadRecorded
<1>4. ASSUME NEW p \in Procs, NEW i, NEW status, StartResolve(p, i, status)
      PROVE  StatusIsRecorded'
  <2>1. ~Is(p, "tell") /\ UNCHANGED <<incidents, told, restarts>>
    BY <1>4 DEF StartResolve, Is
  <2>2. \A q \in Procs : q # p => procs'[q] = procs[q]
    BY <1>4 DEF StartResolve, TypeOK
  <2> QED  BY <2>1, <2>2, ReadRecorded
<1>5. ASSUME NEW p \in Procs, Tell(p)  PROVE StatusIsRecorded'
  BY <1>5, TellRecorded
<1>6. ASSUME NEW p \in Procs,
             \/ AutoResolve(p) \/ Suppress(p) \/ AutoUpdate(p) \/ AutoReopen(p) \/ AutoOpen(p)
             \/ Resolve(p)
      PROVE  StatusIsRecorded'
  BY <1>6, RunRecorded, ResolveRecorded
<1>7. CASE WorldSteps
  BY <1>7, WorldRecorded
<1> QED  BY <1>1, <1>2, <1>3, <1>4, <1>5, <1>6, <1>7, NextCases

\* However runs and operators overtake each other, the status an incident has is in its
\* history, is being written there, or a restart lost it.
THEOREM HistoryComplete == Spec => []StatusIsRecorded
<1>1. Init => StatusIsRecorded
  BY DEF Init, StatusIsRecorded, Existing, Absent
<1> QED  BY <1>1, TypeCorrect, NextRecorded, PTL DEF Spec

-----------------------------------------------------------------------------
(* One active incident, but for stale readings.                            *)

\* A reading that is not out of date says what is so: no incident is active when the run
\* found none and will open one, and the operator's incident is.
Current(p) ==
    \/ procs[p].stale
    \/ /\ Is(p, "latest") /\ procs[p].id = 0 => Active = {}
       /\ Is(p, "write") /\ procs[p].act \in {"create", "reopen"} => Active = {}
       /\ Is(p, "call") => procs[p].id \in Active
Fresh == \A p \in Procs : Current(p)

OneInv == Fresh /\ OneActivePerSpot

LEMMA FewIncidents ==
    ASSUME NEW ids \in SUBSET Ids
    PROVE  IsFiniteSet(ids) /\ Cardinality(ids) \in Nat /\ Cardinality(ids) <= MaxIncidents
<1>1. IsFiniteSet(Ids) /\ Cardinality(Ids) = MaxIncidents
  BY FS_Interval, BoundAssumption DEF Ids
<1> QED  BY <1>1, FS_Subset, FS_CardinalityType

LEMMA OneIsFew ==
    ASSUME NEW n, NEW k \in Nat, n = 1  PROVE n <= 1 + k
OBVIOUS

\* A step that changes the status of incident i, and the activity of no other.
LEMMA StatusStep ==
    ASSUME TypeOK, TypeOK', OneInv, NEW p \in Procs, NEW i, NEW status, NEW run, NEW changed,
           \A j \in Ids : j # i => incidents'[j].status = incidents[j].status,
           i \in Ids => incidents'[i].status = status,
           changed = (status # incidents[i].status),
           procs' = Moved(p, run, changed), run.phase \in {"free", "tell"},
           Activation(p, i, status),
           (IsActive(status) /\ i \in Ids \ Active /\ ~procs[p].stale) => Active = {}
    PROVE  OneInv'
<1>0. /\ IsFiniteSet(Active) /\ IsFiniteSet(Active')
      /\ Cardinality(Active) \in Nat /\ Cardinality(Active') \in Nat
      /\ Cardinality(Active') <= MaxIncidents
  <2>1. Active \subseteq Ids /\ Active' \subseteq Ids
    BY DEF Active
  <2> QED  BY <2>1, FewIncidents
<1>1. Active' = IF i \notin Ids THEN Active
                ELSE IF IsActive(status) THEN Active \cup {i} ELSE Active \ {i}
  BY DEF Active
<1>2. ~changed => Active' = Active
  BY <1>1 DEF Active
<1>3. Cardinality(Active) \in Nat /\ Cardinality(Active') \in Nat /\ overlaps \in 0..MaxIncidents
      /\ overlaps' \in 0..MaxIncidents /\ MaxIncidents \in Nat
  BY <1>0, BoundAssumption DEF TypeOK
<1>4. Cardinality(Active') <= 1 + overlaps'
  <2>1. overlaps <= overlaps' /\ Cardinality(Active) <= 1 + overlaps
    BY OverlapsTyped DEF OneInv, OneActivePerSpot
  <2>2. CASE Active' \subseteq Active
    <3>1. Cardinality(Active') <= Cardinality(Active)
      BY <1>0, <2>2, FS_Subset
    <3> QED  BY <1>3, <2>1, <3>1
  <2>3. CASE ~(Active' \subseteq Active)
    <3>1. i \in Ids \ Active /\ IsActive(status) /\ Active' = Active \cup {i}
      BY <1>1, <2>3
    <3>2. Cardinality(Active') = Cardinality(Active) + 1
      BY <1>0, <3>1, FS_AddElement
    <3>3. CASE ~procs[p].stale
      <4>1. Cardinality(Active) = 0
        BY <3>1, <3>3, FS_EmptySet
      <4>2. Cardinality(Active') = 1
        BY <3>2, <4>1
      <4>3. overlaps' \in Nat
        BY <1>3
      <4> QED  BY <4>2, <4>3, OneIsFew
    <3>4. CASE procs[p].stale /\ overlaps < MaxIncidents
      <4>1. overlaps' = overlaps + 1
        BY <3>1, <3>4 DEF Activation
      <4> QED  BY <1>3, <2>1, <3>2, <4>1
    <3>5. CASE procs[p].stale /\ ~(overlaps < MaxIncidents)
      <4>1. overlaps' = overlaps
        BY <3>5 DEF Activation
      <4> QED  BY <1>0, <1>3, <3>5, <4>1
    <3> QED  BY <3>3, <3>4, <3>5
  <2> QED  BY <2>2, <2>3
<1>5. ASSUME NEW q \in Procs  PROVE Current(q)'
  <2>1. CASE q = p
    <3>1. procs'[q] = run
      BY <2>1 DEF Moved
    <3> QED  BY <3>1 DEF Current, Is
  <2>2. CASE q # p
    <3> DEFINE s == procs[q].stale \/ (changed /\ procs[q].phase \in Deciding)
    <3>1. /\ procs'[q].stale = s /\ procs'[q].phase = procs[q].phase
          /\ procs'[q].id = procs[q].id /\ procs'[q].act = procs[q].act
      <4>1. procs[q] \in Run
        BY DEF TypeOK
      <4>2. procs'[q] = [procs[q] EXCEPT !.stale = s]
        BY <2>2 DEF Moved, Run, TypeOK
      <4> HIDE DEF s
      <4> QED  BY <4>1, <4>2 DEF Run
    <3>2. CASE s
      BY <3>1, <3>2 DEF Current
    <3>3. CASE ~s /\ changed
      BY <3>1, <3>3 DEF Current, Is, Deciding
    <3>4. CASE ~s /\ ~changed
      BY <1>2, <3>1, <3>4 DEF Current, Is, OneInv, Fresh
    <3> QED  BY <3>2, <3>3, <3>4
  <2> QED  BY <2>1, <2>2
<1> QED  BY <1>4, <1>5 DEF OneInv, Fresh, OneActivePerSpot

LEMMA WriteOne ==
    ASSUME TypeOK, TypeOK', OneInv, NEW p \in Procs, NEW act, NEW i, NEW row,
           Write(p, act, i, row),
           \/ i \in Ids => ~IsActive(row.status)
           \/ i \in Ids => row.status = incidents[i].status
           \/ act \in {"create", "reopen"}
    PROVE  OneInv'
<1> DEFINE run == IF act = "quiet" THEN Free ELSE [Free EXCEPT !.phase = "tell", !.id = i]
           changed == row.status # incidents[i].status
<1>1. procs' = Moved(p, run, changed) /\ Activation(p, i, row.status)
  BY DEF Write
<1>2. \A j \in Ids : incidents'[j] = IF j = i THEN row ELSE incidents[j]
  BY DEF Write, TypeOK
<1>3. run.phase \in {"free", "tell"}
  BY DEF Free
<1>4. (IsActive(row.status) /\ i \in Ids \ Active /\ ~procs[p].stale) => Active = {}
  BY DEF Write, Is, OneInv, Fresh, Current, Active
<1>5. changed = (row.status # incidents[i].status)
  OBVIOUS
<1> HIDE DEF run, changed
<1> QED  BY <1>1, <1>2, <1>3, <1>4, <1>5, StatusStep

LEMMA RunOne ==
    ASSUME TypeOK, TypeOK', OneInv, NEW p \in Procs,
           \/ AutoResolve(p) \/ Suppress(p) \/ AutoUpdate(p) \/ AutoReopen(p) \/ AutoOpen(p)
    PROVE  OneInv'
<1>1. \A i \in Ids : Noted(p, i).status = incidents[i].status
  BY DEF Noted, TypeOK, Incident
<1>2. \A i \in Ids : ~IsActive(ResolvedRow(p, i).status)
  BY DEF ResolvedRow, IsActive, TypeOK, Incident
<1>3. PICK act, i, row : /\ Write(p, act, i, row)
                         /\ \/ row = ResolvedRow(p, i)
                            \/ row = Noted(p, i)
                            \/ act \in {"create", "reopen"}
  BY DEF AutoResolve, Suppress, AutoUpdate, AutoReopen, AutoOpen
<1> QED  BY <1>1, <1>2, <1>3, WriteOne

LEMMA ResolveOne ==
    ASSUME TypeOK, TypeOK', OneInv, NEW p \in Procs, Resolve(p)
    PROVE  OneInv'
<1> DEFINE i == procs[p].id
           status == procs[p].status
           run == [Free EXCEPT !.phase = "tell", !.id = i]
           changed == status # incidents[i].status
<1>1. procs' = Moved(p, run, changed) /\ Activation(p, i, status)
  BY DEF Resolve
<1>2. \A j \in Ids : j # i => incidents'[j].status = incidents[j].status
  BY DEF Resolve, TypeOK
<1>3. i \in Ids => incidents'[i].status = status
  BY DEF Resolve, TypeOK, Incident
<1>4. run.phase \in {"free", "tell"}
  BY DEF Free
<1>5. i \in Ids \ Active => procs[p].stale
  BY DEF Resolve, Is, OneInv, Fresh, Current
<1>6. changed = (status # incidents[i].status)
  OBVIOUS
<1> HIDE DEF run, changed, i, status
<1> QED  BY <1>1, <1>2, <1>3, <1>4, <1>5, <1>6, StatusStep

\* A step of one request that leaves the incidents alone.
LEMMA ReadOne ==
    ASSUME OneInv, NEW p \in Procs, UNCHANGED <<incidents, overlaps>>,
           \A q \in Procs : q # p => procs'[q] = procs[q],
           Current(p)'
    PROVE  OneInv'
<1>1. Active' = Active
  BY DEF Active
<1>2. ASSUME NEW q \in Procs  PROVE Current(q)'
  BY <1>1 DEF Current, Is, OneInv, Fresh
<1> QED  BY <1>1, <1>2 DEF OneInv, Fresh, OneActivePerSpot

LEMMA QuietReadOne ==
    ASSUME TypeOK, OneInv, NEW p \in Procs,
           StartRun(p) \/ Upsert(p) \/ ReadBack(p) \/ Tell(p)
    PROVE  OneInv'
<1>1. UNCHANGED <<incidents, overlaps>>
  BY DEF StartRun, Upsert, ReadBack, Tell
<1>2. \A q \in Procs : q # p => procs'[q] = procs[q]
  BY DEF StartRun, Upsert, ReadBack, Tell, Finish, TypeOK
<1>3. procs'[p].phase \in {"upsert", "readBack", "active", "free"}
  <2>1. StartRun(p) => procs'[p].phase = "upsert"
    BY DEF StartRun, TypeOK, Free
  <2>2. Upsert(p) => procs'[p].phase = "readBack"
    BY DEF Upsert, TypeOK, Free
  <2>3. ReadBack(p) => procs'[p].phase = "active"
    BY DEF ReadBack, TypeOK, Free
  <2>4. Tell(p) => procs'[p].phase = "free"
    BY DEF Tell, Finish, TypeOK, Free
  <2> QED  BY <2>1, <2>2, <2>3, <2>4
<1>4. Current(p)'
  BY <1>3 DEF Current, Is
<1> QED  BY <1>1, <1>2, <1>4, ReadOne

LEMMA ReadActiveOne ==
    ASSUME TypeOK, OneInv, NEW p \in Procs, ReadActive(p)
    PROVE  OneInv'
<1>1. UNCHANGED <<incidents, overlaps>>
  BY DEF ReadActive
<1>2. \A q \in Procs : q # p => procs'[q] = procs[q]
  BY DEF ReadActive, TypeOK
<1>3. procs'[p].phase = "latest" /\ procs'[p].id = NewestActive
  BY DEF ReadActive, TypeOK, Free
<1>4. NewestActive = 0 => Active = {}
  <2>1. 0 \notin Active
    BY DEF Active, Ids
  <2> QED  BY <2>1, NewestActiveIsActive
<1>5. Active' = Active
  BY <1>1 DEF Active
<1>6. Current(p)'
  BY <1>3, <1>4, <1>5 DEF Current, Is
<1> QED  BY <1>1, <1>2, <1>6, ReadOne

LEMMA ReadLatestOne ==
    ASSUME TypeOK, OneInv, NEW p \in Procs, ReadLatest(p)
    PROVE  OneInv'
<1>1. UNCHANGED <<incidents, overlaps>>
  BY DEF ReadLatest
<1>2. \A q \in Procs : q # p => procs'[q] = procs[q]
  BY DEF ReadLatest, PlanResolve, PlanGrace, PlanOpen, PlanUpdate, Plan, Finish, TypeOK
<1>3. \/ procs'[p].phase = "free"
      \/ procs'[p].phase = "write" /\ procs'[p].act \notin {"create", "reopen"}
      \/ procs'[p].stale = procs[p].stale /\ procs[p].id = 0 /\ procs'[p].phase = "write"
  <2> DEFINE latest == Newest(Existing)
             signal == procs[p].seen
             noise == [signal |-> signal, hits |-> HitCount(Previous(p, latest), signal),
                       recent |-> TRUE]
  <2>1. \/ PlanResolve(p) \/ PlanGrace(p, noise)
        \/ PlanOpen(p, latest, noise) /\ procs[p].id = 0
        \/ PlanUpdate(p, noise)
    BY DEF ReadLatest
  <2> HIDE DEF noise, latest, signal
  <2>2. ASSUME NEW act, NEW id, NEW n, Plan(p, act, id, n)
        PROVE  /\ procs'[p].phase = "write" /\ procs'[p].act = act
               /\ procs'[p].stale = procs[p].stale
    BY <2>2 DEF Plan, TypeOK, Free
  <2>3. Finish(p) => procs'[p].phase = "free"
    BY DEF Finish, TypeOK, Free
  <2>4. CASE PlanResolve(p)
    BY <2>2, <2>3, <2>4 DEF PlanResolve
  <2>5. CASE PlanGrace(p, noise)
    BY <2>2, <2>3, <2>5 DEF PlanGrace
  <2>6. CASE PlanOpen(p, latest, noise) /\ procs[p].id = 0
    BY <2>2, <2>6 DEF PlanOpen
  <2>7. CASE PlanUpdate(p, noise)
    BY <2>2, <2>7 DEF PlanUpdate
  <2> QED  BY <2>1, <2>4, <2>5, <2>6, <2>7
<1>4. Active' = Active /\ Is(p, "latest")
  BY <1>1 DEF Active, ReadLatest
<1>5. Current(p)
  BY DEF OneInv, Fresh
<1>6. Current(p)'
  BY <1>3, <1>4, <1>5 DEF Current, Is
<1> QED  BY <1>1, <1>2, <1>6, ReadOne

LEMMA StartResolveOne ==
    ASSUME TypeOK, OneInv, NEW p \in Procs, NEW i, NEW status, StartResolve(p, i, status)
    PROVE  OneInv'
<1>1. UNCHANGED <<incidents, overlaps>>
  BY DEF StartResolve
<1>2. \A q \in Procs : q # p => procs'[q] = procs[q]
  BY DEF StartResolve, TypeOK
<1>3. procs'[p].phase = "call" /\ procs'[p].id = i /\ i \in Active
  BY DEF StartResolve, TypeOK, Free
<1>4. Active' = Active
  BY <1>1 DEF Active
<1>5. Current(p)'
  BY <1>3, <1>4 DEF Current, Is
<1> QED  BY <1>1, <1>2, <1>5, ReadOne

LEMMA WorldOne ==
    ASSUME TypeOK, OneInv, WorldSteps
    PROVE  OneInv'
<1>1. Active' = Active
  BY WorldKeepsStatuses DEF Active
<1>2. CASE procs' = procs
  BY <1>1, <1>2, WorldKeepsStatuses DEF OneInv, Fresh, Current, Is, OneActivePerSpot
<1>3. CASE procs' = [p \in Procs |-> Free]
  <2>1. \A q \in Procs : procs'[q].phase = "free"
    BY <1>3 DEF Free
  <2>2. \A q \in Procs : Current(q)'
    BY <2>1 DEF Current, Is
  <2> QED  BY <1>1, <2>2, WorldKeepsStatuses DEF OneInv, Fresh, OneActivePerSpot
<1> QED  BY <1>2, <1>3, WorldKeepsStatuses

LEMMA NextOne == TypeOK /\ TypeOK' /\ OneInv /\ [Next]_vars => OneInv'
<1> SUFFICES ASSUME TypeOK, TypeOK', OneInv, [Next]_vars  PROVE OneInv'
  OBVIOUS
<1>1. CASE UNCHANGED vars
  <2>1. Active' = Active /\ procs' = procs /\ overlaps' = overlaps
    BY <1>1 DEF vars, Active
  <2> QED  BY <2>1 DEF OneInv, Fresh, Current, Is, OneActivePerSpot
<1>2. ASSUME NEW p \in Procs,
             \/ StartRun(p) \/ Upsert(p) \/ ReadBack(p) \/ ReadActive(p) \/ ReadLatest(p)
             \/ Tell(p)
      PROVE  OneInv'
  BY <1>2, QuietReadOne, ReadActiveOne, ReadLatestOne
<1>3. ASSUME NEW p \in Procs, NEW i, NEW status, StartResolve(p, i, status)
      PROVE  OneInv'
  BY <1>3, StartResolveOne
<1>4. ASSUME NEW p \in Procs,
             \/ AutoResolve(p) \/ Suppress(p) \/ AutoUpdate(p) \/ AutoReopen(p) \/ AutoOpen(p)
             \/ Resolve(p)
      PROVE  OneInv'
  BY <1>4, RunOne, ResolveOne
<1>5. CASE WorldSteps
  BY <1>5, WorldOne
<1> QED  BY <1>1, <1>2, <1>3, <1>4, <1>5, NextCases

\* Two incidents of a spot are active at the same time only when a run or an operator made
\* one active on a reading that had gone out of date, one more for each such time.
THEOREM OneActiveButStale == Spec => []OneActivePerSpot
<1>1. Init => OneInv
  <2> SUFFICES ASSUME Init  PROVE OneInv
    OBVIOUS
  <2>1. Active = {} /\ overlaps = 0
    BY DEF Init, Active, Absent, IsActive
  <2>2. Cardinality(Active) = 0
    BY <2>1, FS_EmptySet
  <2>3. \A p \in Procs : procs[p].phase = "free"
    BY DEF Init, Free
  <2> QED  BY <2>1, <2>2, <2>3 DEF OneInv, Fresh, Current, Is, OneActivePerSpot
<1>2. OneInv => OneActivePerSpot
  BY DEF OneInv
<1> QED  BY <1>1, <1>2, TypeCorrect, NextOne, PTL DEF Spec
=============================================================================

------------------------------ MODULE MCGateFlow ------------------------------
(***************************************************************************)
(* The instance of GateFlow for TLC.                                       *)
(***************************************************************************)
EXTENDS MCGateSession, GateFlow

CONSTANTS v1, v2, k1, vipA, vipB

TwoVehicles == {v1, v2}
OneCard == {k1}
TwoVips == {vipA, vipB}
PaidSums == {0, 1, 2}
StayMinutes == {0, 90}

\* Ten minutes free, one unit an hour, at most two.
HourlyCapped == {[free |-> 10, perHour |-> 1, cap |-> 2]}

Clear == [entry |-> FALSE, plate |-> v1, card |-> k1, quality |-> "CERTAIN", sensor |-> TRUE,
          health |-> "HEALTHY", conflict |-> FALSE, spot |-> TRUE, lookup |-> TRUE]

\* Plate or card or both at either lane, and each thing that can be wrong with a read.
SomeReads ==
    {[Clear EXCEPT !.entry = e, !.plate = p, !.card = c] :
        e \in BOOLEAN, p \in {v1, None}, c \in {k1, None}}
    \cup {[Clear EXCEPT !.entry = e, !.quality = q, !.conflict = e] :
            e \in BOOLEAN, q \in Qualities}
    \cup {[Clear EXCEPT !.sensor = FALSE], [Clear EXCEPT !.health = "OFFLINE"],
          [Clear EXCEPT !.spot = FALSE], [Clear EXCEPT !.lookup = FALSE]}

\* Each vehicle has a ticket, which may be open and issued with the card.  That of v1 is
\* free, paid in part or paid in full; that of v2 is unpaid.  Either subscription may
\* hold the card and the vehicles, now or formerly.
Filled(opens, insides, statuses, tariffs) ==
    {[open |-> o, loaded |-> {1, 2}, owner |-> 1 :> v1 @@ 2 :> v2, issued |-> 1 :> i @@ 2 :> j,
      stay |-> 1 :> s[1] @@ 2 :> 90, paid |-> 1 :> s[2] @@ 2 :> 0, inside |-> in,
      vip |-> k1 :> m, card |-> k1 :> c, standing |-> vipA :> "ACTIVE" @@ vipB :> d,
      bound |-> vipA :> a @@ vipB :> b, former |-> vipA :> {} @@ vipB :> {v1} \ b,
      tariff |-> r, vipTariff |-> x] :
        o \in opens, in \in insides, c \in statuses, r \in tariffs,
        i \in {k1, None}, j \in {k1, None}, s \in {<<0, 0>>, <<90, 1>>, <<90, 2>>},
        m \in {vipA, vipB, None}, d \in {"ACTIVE", "OVERDUE"},
        a \in {{v1}, {v2}}, b \in {{}, {v1}}, x \in BOOLEAN}

\* Only the ticket of v1 is open and v1 is inside; the card may be lost.
Single == Filled({{1}}, {{1}}, {"ACTIVE", "LOST"}, HourlyCapped)

\* That ticket does not load, or the card is no credential of the site.
Odd == {[db EXCEPT !.loaded = {2}] : db \in Filled({{1}}, {{1}}, {"ACTIVE"}, HourlyCapped)}
       \cup {db \in Filled({{1}}, {{1}}, {"UNKNOWN"}, HourlyCapped) :
               db.vip[k1] = None /\ db.issued[1] = None /\ db.issued[2] = None}

\* Any tickets are open and the vehicles that hold them may be inside.
SomeTables ==
    Single \cup Odd \cup Filled({{1}}, {{1}}, {"ACTIVE"}, {None})
           \cup Filled({{}, {1}, {2}, {1, 2}}, {{}}, {"ACTIVE"}, HourlyCapped)
           \cup UNION {Filled({o}, {o}, {"ACTIVE"}, HourlyCapped) : o \in {{1}, {2}, {1, 2}}}

\* The final actions GateSession takes the engine to give are those GateDecision computes.
ASSUME EngineAssumption ==
    \A e \in BOOLEAN, found \in BOOLEAN, action \in FinalActions :
        action \in EngineActions(e, IF found THEN 1 ELSE 0) <=>
            \E db \in Single, read \in SomeReads :
                /\ read.entry = e
                /\ \E d \in Decisions(read, db) : d.action = action /\ (d.slip # None) = found
=============================================================================

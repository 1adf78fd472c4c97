---------------------------- MODULE GateFlowProofs ----------------------------
(***************************************************************************)
(* What the decision engine approves at an exit, for every set of          *)
(* vehicles, cards, subscriptions, tariffs, reads and table contents.      *)
(***************************************************************************)
EXTENDS GateFlow, TLAPS

\* A longer stay never owes less, whatever the tariff (quoteTariff).
THEOREM FeeGrows ==
    ASSUME NEW tariff \in Tariff, NEW short \in Nat, NEW long \in Nat, short <= long
    PROVE  Quote(short, tariff) <= Quote(long, tariff)
<1> DEFINE a == Hours(Billable(short, tariff))
           b == Hours(Billable(long, tariff))
           k == tariff.perHour
<1>1. a \in Nat /\ b \in Nat /\ a <= b
  <2>1. /\ Billable(short, tariff) \in Nat /\ Billable(long, tariff) \in Nat
        /\ Billable(short, tariff) <= Billable(long, tariff)
    BY DEF Billable, Tariff
  <2> QED  BY <2>1 DEF Hours
<1>2. k \in Nat /\ tariff.cap \in Nat
  BY DEF Tariff
<1> HIDE DEF a, b, k
<1>3. a * k <= b * k /\ a * k \in Nat /\ b * k \in Nat
  BY <1>1, <1>2
<1>4. Capped(a * k, tariff.cap) <= Capped(b * k, tariff.cap)
  BY <1>2, <1>3 DEF Capped
<1> QED  BY <1>4 DEF Quote, a, b, k

-----------------------------------------------------------------------------

\* A ticket that was found is open, and carries the plate or the card that was read.
LEMMA FoundIsOpen ==
    ASSUME NEW db \in Tables, NEW read, NEW found \in Found(read, db),
           ~read.entry, Selected(read, found) # None
    PROVE  LET t == Selected(read, found)
           IN  /\ t \in db.open
               /\ \/ read.card # None /\ db.issued[t] = read.card
                  \/ db.owner[t] = read.plate
<1>1. /\ found.plate # None => found.plate \in PlateSlips(read, db)
      /\ found.card # None => found.card \in CardSlips(read, db)
  BY DEF Found, OneOf
<1>2. Selected(read, found) \in PlateSlips(read, db) \cup CardSlips(read, db)
  BY <1>1 DEF Selected
<1> QED  BY <1>2 DEF PlateSlips, CardSlips

\* The rules let out, or hold for payment, nobody without a ticket, and let out nobody
\* whose ticket still owes (evaluateGateDecision, resolvePaymentStatusForTicket).
LEMMA RulesAccount ==
    ASSUME NEW db \in Tables, NEW read, NEW found, NEW t \in Slips \cup {None}, ~read.entry,
           Answer(read, db, t, found) \in {"APPROVE", "PAYMENT_HOLD"}
    PROVE  /\ t # None
           /\ Answer(read, db, t, found) = "APPROVE" =>
                 db.paid[t] >= Due(db, t) \/ InForce(db, SlipVip(db, t))
<1>1. t # None /\ Answer(read, db, t, found) = ExitAnswer(Payment(db, t))
  BY DEF Answer
<1>2. SUFFICES ASSUME Payment(db, t) \notin {"UNPAID", "PENDING", "UNKNOWN"}
               PROVE  db.paid[t] >= Due(db, t) \/ InForce(db, SlipVip(db, t))
  BY <1>1 DEF ExitAnswer
<1>3. db.paid[t] \in Nat
  BY <1>1, CaseAssumption, AmountAssumption DEF Table, Rows
<1>4. CASE Due(db, t) = 0
  BY <1>3, <1>4
<1>5. CASE Due(db, t) # 0
  BY <1>2, <1>5 DEF Payment
<1> QED  BY <1>4, <1>5

\* A subscription the engine goes by is one of the site's.
LEMMA CandidateIsVip ==
    ASSUME NEW db \in Tables, NEW read, read.card \in Cards \cup {None},
           NEW v \in OneOf(VipCandidates(read, db)), v # None
    PROVE  v \in Vips
<1>1. PlateVips(read, db) \subseteq Vips
  BY DEF PlateVips
<1>2. CardVips(read, db) \subseteq Vips
  BY CaseAssumption DEF CardVips, Table, Rows
<1> QED  BY <1>1, <1>2 DEF VipCandidates, OneOf

\* What was read belongs to an eligible subscription, and so does the ticket found by it
\* (plateMatched, rfidMatched).
LEMMA EligibleCovers ==
    ASSUME NEW db \in Tables, NEW read \in Reads, NEW found \in Found(read, db), ~read.entry,
           NEW v \in Vips, Eligible(read, db, v), Selected(read, found) # None
    PROVE  CoveredByVip(db, Selected(read, found))
<1> DEFINE t == Selected(read, found)
<1>1. /\ t \in db.open
      /\ \/ read.card # None /\ db.issued[t] = read.card
         \/ db.owner[t] = read.plate
  BY FoundIsOpen
<1>2. db.owner[t] \in Vehicles
  BY <1>1, CaseAssumption DEF Table, Rows
<1> HIDE DEF t
<1>3. SlipVip(db, t) = v \/ db.owner[t] \in db.bound[v]
  BY <1>1, <1>2, NoneAssumption DEF Eligible, Matches, SlipVip
<1> QED  BY <1>3 DEF CoveredByVip, Eligible, t

\* The engine approves no exit but for a ticket that is open and owes nothing, is paid in
\* full or belongs to a subscription in force (evaluateSessionDecision).
THEOREM ApprovedExitIsAccounted ==
    ASSUME NEW db \in Tables, NEW read \in Reads, NEW d \in Decisions(read, db),
           ~read.entry, d.action = "APPROVE"
    PROVE  Accounted(db, d.slip)
<1>1. PICK found \in Found(read, db), v \in OneOf(VipCandidates(read, db)) :
          d = Decision(read, db, found, v)
  BY DEF Decisions
<1> DEFINE t == Selected(read, found)
           answer == Answer(read, db, t, found)
<1>2. d.slip = t /\ d.action = WithVip(read, db, t, v, answer)
  BY <1>1 DEF Decision
<1>3. t \in Slips \cup {None}
  BY FoundIsOpen, CaseAssumption DEF Table, Rows
<1> HIDE DEF t, answer
<1>4. \/ answer = "APPROVE"
      \/ answer = "PAYMENT_HOLD" /\ v # None /\ Eligible(read, db, v)
  BY <1>2 DEF WithVip
<1>5. t # None /\ t \in db.open
  <2>1. t # None
    BY <1>3, <1>4, RulesAccount DEF answer
  <2> QED  BY <2>1, FoundIsOpen DEF t
<1>6. db.paid[t] >= Due(db, t) \/ CoveredByVip(db, t)
  <2>1. CASE answer = "APPROVE"
    <3>1. db.paid[t] >= Due(db, t) \/ InForce(db, SlipVip(db, t))
      BY <1>3, <2>1, RulesAccount DEF answer
    <3>2. ASSUME InForce(db, SlipVip(db, t))  PROVE SlipVip(db, t) \in Vips
      <4>1. t \in Slips /\ db \in Table
        BY <1>3, <1>5, CaseAssumption
      <4> QED  BY <4>1, <3>2 DEF Table, Rows, SlipVip, InForce
    <3> QED  BY <3>1, <3>2 DEF CoveredByVip
  <2>2. CASE answer = "PAYMENT_HOLD" /\ v # None /\ Eligible(read, db, v)
    <3>1. v \in Vips
      BY <2>2, CandidateIsVip, CaseAssumption DEF Read
    <3> QED  BY <2>2, <3>1, <1>5, EligibleCovers DEF t
  <2> QED  BY <1>4, <2>1, <2>2
<1> QED  BY <1>2, <1>5, <1>6 DEF Accounted

\* Whatever the tickets and the presence of the gate become, no exit the engine approves
\* is unaccounted for: those contents of the tables are none.
THEOREM EngineKeepsAccounts == Spec => []ExitsAccounted
<1>1. ExitsAccounted
  BY ApprovedExitIsAccounted DEF ExitsAccounted, Unaccountable
<1> QED  BY <1>1, PTL

-----------------------------------------------------------------------------
(* What GateSession lets the engine answer.                                *)

\* The engine answers only what EngineActions lists for the direction and the ticket.
LEMMA AnswersListed ==
    ASSUME NEW read, read.entry \in BOOLEAN, NEW db, NEW found, NEW v
    PROVE  LET d == Decision(read, db, found, v)
           IN  d.action \in EngineActions(read.entry, IF d.slip = None THEN 0 ELSE 1)
<1> DEFINE t == Selected(read, found)
           answer == Answer(read, db, t, found)
           action == WithVip(read, db, t, v, answer)
<1>1. /\ answer \in FinalActions
      /\ read.entry => answer # "PAYMENT_HOLD"
      /\ ~read.entry /\ t = None => answer \in {"REVIEW", "DENY"}
  BY DEF Answer, ExitAnswer, FinalActions
<1> HIDE DEF answer
<1>2. action = answer \/ (action = "REVIEW") \/ (answer = "PAYMENT_HOLD" /\ action = "APPROVE")
  BY DEF WithVip
<1> HIDE DEF action
<1>3. action \in EngineActions(read.entry, IF t = None THEN 0 ELSE 1)
  BY <1>1, <1>2 DEF EngineActions, FinalActions
<1> QED  BY <1>3 DEF Decision, action, answer

\* Where vehicles are known by their plates, a read of a plate over the tickets that
\* GateSession has is decided in a way, and with a ticket, that GateSession offers the
\* session: what is proved there of any answer holds of the answers that
\* evaluateSessionDecision computes.
THEOREM EngineDecides ==
    ASSUME NEW db \in Tables, NEW read \in Reads, NEW d \in Decisions(read, db),
           NEW s \in SessionIds, NEW lane \in Lanes, read.entry = (lane \in EntryLanes),
           Vehicles \subseteq Plates, read.plate # None, read.card = None,
           db.open = OpenSlips, \A t \in OpenSlips : db.owner[t] = tickets[t].plate
    PROVE  LET t == IF d.slip = None THEN 0 ELSE d.slip
           IN  /\ EngineGives(s, read.entry, read.plate, d.action, t)
               /\ DecisionReasons(s, lane, read.plate, d.action, t) # {}
<1>1. PICK found \in Found(read, db), v \in OneOf(VipCandidates(read, db)) :
          d = Decision(read, db, found, v)
  BY DEF Decisions
<1> DEFINE t == IF d.slip = None THEN 0 ELSE d.slip
<1>2. d.slip = found.plate /\ found.plate \in OneOf(PlateSlips(read, db))
  <2>1. found.card = None /\ found.plate \in OneOf(PlateSlips(read, db))
    BY DEF Found, CardSlips, OneOf
  <2> QED  BY <1>1, <2>1 DEF Decision, Selected
<1>3. /\ read.plate # NoPlate
      /\ PlateSlips(read, db) = {k \in SessionIds : IsOpenTicket(s, read.plate, k)}
  <2>1. read.plate # NoPlate
    BY NullAssumption, CaseAssumption DEF Read
  <2> QED  BY <2>1 DEF PlateSlips, OpenSlips, IsOpenTicket
<1>4. None \notin SessionIds /\ 0 \notin SessionIds
  BY SlipAssumption, NoneAssumption, IdAssumption
<1>5. IsOpenTicketOf(s, read.plate, t)
  <2>1. CASE PlateSlips(read, db) = {}
    <3>1. t = 0
      BY <1>2, <2>1 DEF OneOf
    <3> QED  BY <1>3, <2>1, <3>1 DEF IsOpenTicketOf
  <2>2. CASE PlateSlips(read, db) # {}
    <3>1. t \in PlateSlips(read, db) /\ t # 0
      BY <1>2, <1>3, <1>4, <2>2 DEF OneOf
    <3> QED  BY <1>3, <3>1 DEF IsOpenTicketOf
  <2> QED  BY <2>1, <2>2
<1>6. d.action \in EngineActions(read.entry, t)
  <2>1. d.action \in EngineActions(read.entry, IF d.slip = None THEN 0 ELSE 1)
    BY <1>1, AnswersListed, CaseAssumption DEF Read
  <2>2. d.slip # None => d.slip # 0
    BY <1>2, <1>3, <1>4 DEF OneOf
  <2> QED  BY <2>1, <2>2 DEF EngineActions
<1> HIDE DEF t
<1>7. EngineGives(s, read.entry, read.plate, d.action, t)
  BY <1>3, <1>5, <1>6 DEF EngineGives
<1>8. DecisionReasons(s, lane, read.plate, d.action, t) # {}
  BY <1>7 DEF DecisionReasons, EngineCodes
<1> QED  BY <1>7, <1>8 DEF t

\* Whatever the subscription says, nothing is approved that the rules doubt: the sensor
\* is up, the card is not blocked or lost, the plate is good enough, the plate and the
\* card do not point to different tickets, and no entry has a presence elsewhere
\* (applySubscriptionDecisionOverride lifts payment holds only).
THEOREM ApprovalsAreClear ==
    ASSUME NEW db \in Tables, NEW read \in Reads, NEW d \in Decisions(read, db),
           d.action = "APPROVE"
    PROVE  /\ read.sensor /\ read.health \notin {"OFFLINE", "DEGRADED"}
           /\ read.card # None => db.card[read.card] \notin {"LOST", "BLOCKED"}
           /\ read.quality \notin {"INVALID", "DOUBTFUL"}
           /\ read.entry => ~read.conflict
           /\ \/ PlateSlips(read, db) = {} \/ CardSlips(read, db) = {}
              \/ PlateSlips(read, db) \cap CardSlips(read, db) # {}
<1>1. PICK found \in Found(read, db), v \in OneOf(VipCandidates(read, db)) :
          d = Decision(read, db, found, v)
  BY DEF Decisions
<1> DEFINE t == Selected(read, found)
           answer == Answer(read, db, t, found)
<1>2. answer \in {"APPROVE", "PAYMENT_HOLD"}
  BY <1>1 DEF Decision, WithVip
<1>3. /\ read.sensor /\ read.health \notin {"OFFLINE", "DEGRADED"}
      /\ CardStatus(read, db) \notin {"LOST", "BLOCKED"} /\ ~Mismatch(found)
      /\ read.quality \notin {"INVALID", "DOUBTFUL"}
      /\ read.entry => ~read.conflict
  BY <1>2 DEF Answer
<1>4. \/ PlateSlips(read, db) = {} \/ CardSlips(read, db) = {}
      \/ PlateSlips(read, db) \cap CardSlips(read, db) # {}
  <2> SUFFICES ASSUME PlateSlips(read, db) # {}, CardSlips(read, db) # {}
               PROVE  PlateSlips(read, db) \cap CardSlips(read, db) # {}
    OBVIOUS
  <2>1. found.plate \in PlateSlips(read, db) /\ found.card \in CardSlips(read, db)
    BY DEF Found, OneOf
  <2>2. found.plate # None /\ found.card # None
    BY <2>1, NoneAssumption, CaseAssumption DEF PlateSlips, CardSlips, Table, Rows
  <2> QED  BY <1>3, <2>1, <2>2 DEF Mismatch
<1> QED  BY <1>3, <1>4 DEF CardStatus
=============================================================================

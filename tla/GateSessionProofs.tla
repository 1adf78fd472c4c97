-------------------------- MODULE GateSessionProofs --------------------------
(***************************************************************************)
(* Proofs about GateSession for any number of clients, lanes, plates and   *)
(* rows: the type invariant, and the two guarantees that survive every     *)
(* interleaving of the handlers.                                           *)
(*                                                                         *)
(* Handlers act on what they read before.  What makes the guarantees hold  *)
(* is that nothing they rely on is ever taken back: a session row stays    *)
(* and keeps its lane (Targets), a barrier command stays (Opened), and a   *)
(* session seen as passed had its command (Passing).                       *)
(***************************************************************************)
EXTENDS GateSession, TLAPS

Commanded(s) == \E reason \in Reasons : commands[s][reason] > 0

\* A request works on a row that exists.
Targets ==
    \A c \in Clients :
        /\ req[c].op \notin {"idle", "open", "claim"} =>
               /\ req[c].session \in SessionIds
               /\ sessions[req[c].session].status # "ABSENT"
        /\ req[c].op = "claim" => req[c].review \in ReviewIds

\* The reason of the command that a request will give fits what it approves.
ReasonFits(r) ==
    /\ r.op = "resolve" /\ ApprovesEntry(r) => r.reason \in EntryReasons
    /\ r.op = "resolve" /\ ApprovesExit(r) => r.reason \in ExitReasons
    /\ r.op = "approve" /\ IsEntry(r.session) => r.reason \in EntryReasons
    /\ r.op = "approve" /\ ~IsEntry(r.session) /\ r.exitTicket # 0 => r.reason \in ExitReasons
    /\ r.op \in {"openBarrier", "confirm"} => r.reason \in Reasons
ReasonsFit == \A c \in Clients : ReasonFits(req[c])

\* A command that the snapshot showed is still there.
Shown(r) ==
    /\ r.session \in SessionIds /\ r.reason \in Reasons
    /\ commands[r.session][r.reason] > 0
Opened == \A c \in Clients : req[c].seen.opened => Shown(req[c])

\* Only a session that was read as passed is written as passed without a command.
Passing ==
    \A c \in Clients :
        req[c].op = "resolve" /\ req[c].next = "PASSED" => Commanded(req[c].session)

\* A presence row belongs to a session.
Entered == \A i \in PresenceIds :
    presence[i].status # "ABSENT" => presence[i].session \in SessionIds

\* What every step keeps.
IInv ==
    /\ TypeOK /\ Targets /\ ReasonsFit /\ Opened /\ Passing /\ Entered
    /\ PassedHasBarrier /\ EntryRowsHaveBarrier

-----------------------------------------------------------------------------
(* Types of the values that handlers build.                                *)

LEMMA IdleTyped == Idle \in Request /\ NothingSeen \in Seen
<1>1. AnyLane \in Lanes /\ AnyTime \in Times
  BY LaneAssumption, TimeAssumption DEF AnyLane, AnyTime
<1>2. NothingSeen \in Seen
  BY DEF NothingSeen, Seen, OrNull
<1> QED
  BY <1>1, <1>2 DEF Idle, Request, Operations, AnyPlate, OrNull, Statuses, ActiveStatuses,
                    ReadTypes, Actors

\* The rows and requests a typed state holds.
LEMMA Typed ==
    ASSUME TypeOK
    PROVE  /\ \A s \in SessionIds :
                 /\ sessions[s] \in SessionRow
                 /\ sessions[s].status \in Statuses \cup {"ABSENT"} /\ sessions[s].lane \in Lanes
                 /\ sessions[s].plate \in AnyPlate /\ sessions[s].ticket \in OrNull(SessionIds)
           /\ \A c \in Clients :
                 /\ req[c] \in Request
                 /\ req[c].session \in OrNull(SessionIds) /\ req[c].now \in Times
                 /\ req[c].plate \in AnyPlate /\ req[c].ticket \in OrNull(SessionIds)
                 /\ req[c].exitTicket \in OrNull(SessionIds) /\ req[c].next \in Statuses
                 /\ req[c].seen \in Seen /\ req[c].actor \in Actors
                 /\ req[c].lane \in Lanes /\ req[c].stale \subseteq SessionIds
                 /\ req[c].seen.ticket \in OrNull(SessionIds)
                 /\ req[c].seen.review \in OrNull(ReviewIds)
                 /\ req[c].seen.presence \in OrNull(PresenceIds)
                 /\ req[c].seen.opened \in BOOLEAN
  BY DEF TypeOK, SessionRow, Request, Seen

LEMMA StatusDerived ==
    ASSUME NEW status \in Statuses, NEW type, NEW present, NEW evidence
    PROVE  DeriveStatusFromRead(status, type, present, evidence)
               \in {status, "WAITING_READ", "WAITING_DECISION"}
  BY DEF DeriveStatusFromRead

LEMMA StatusDecided ==
    ASSUME NEW action \in FinalActions
    PROVE  DecisionActionToStatus(action) \in Statuses \ {"PASSED"}
  BY DEF DecisionActionToStatus, FinalActions, Statuses, ActiveStatuses, TerminalStatuses

-----------------------------------------------------------------------------
(* The two kinds of step.                                                  *)

\* A step that changes no table: request c becomes r.
LEMMA ReadStep ==
    ASSUME IInv, NEW c \in Clients, NEW r \in Request,
           req' = [req EXCEPT ![c] = r], UNCHANGED tables,
           r.op \notin {"idle", "open", "claim"} =>
               r.session \in SessionIds /\ sessions[r.session].status # "ABSENT",
           r.op = "claim" => r.review \in ReviewIds,
           ReasonFits(r), r.seen.opened => Shown(r),
           r.op = "resolve" /\ r.next = "PASSED" => Commanded(r.session)
    PROVE  IInv'
<1>1. /\ req'[c] = r /\ \A d \in Clients \ {c} : req'[d] = req[d]
      /\ req' \in [Clients -> Request]
  BY DEF IInv, TypeOK
<1>2. UNCHANGED <<sessions, reviews, tickets, presence, commands>>
  BY DEF tables
<1>3. TypeOK'
  BY <1>1, <1>2 DEF IInv, TypeOK
<1>4. Targets'
  BY <1>1, <1>2 DEF IInv, Targets
<1>5. ReasonsFit' /\ Opened'
  <2> SUFFICES ASSUME NEW d \in Clients
               PROVE  ReasonFits(req[d])' /\ (req[d].seen.opened => Shown(req[d]))'
    BY DEF ReasonsFit, Opened
  <2> DEFINE q == IF d = c THEN r ELSE req[d]
  <2>1. req'[d] = q /\ ReasonFits(q) /\ (q.seen.opened => Shown(q))
    BY <1>1 DEF IInv, ReasonsFit, Opened
  <2> HIDE DEF q
  <2> QED
    BY <1>2, <2>1 DEF ReasonFits, Shown, ApprovesEntry, ApprovesExit, IsEntry
<1>6. Passing'
  BY <1>1, <1>2 DEF IInv, Passing, Commanded
<1>7. Entered' /\ PassedHasBarrier' /\ EntryRowsHaveBarrier'
  BY <1>2 DEF IInv, Entered, PassedHasBarrier, EntryRowsHaveBarrier, EntryCommanded
<1> QED
  BY <1>3, <1>4, <1>5, <1>6, <1>7 DEF IInv

\* A step that ends request c and changes tables, taking nothing back.
LEMMA CommitStep ==
    ASSUME IInv, NEW c \in Clients, Finish(c),
           sessions' \in [SessionIds -> SessionRow],
           reviews' \in [ReviewIds -> ReviewRow],
           tickets' \in [SessionIds -> TicketRow],
           presence' \in [PresenceIds -> PresenceRow],
           commands' \in [SessionIds -> [Reasons -> 0..MaxCommands]],
           \A s \in SessionIds : sessions[s].status # "ABSENT" =>
               sessions'[s].status # "ABSENT" /\ sessions'[s].lane = sessions[s].lane,
           \A s \in SessionIds : \A reason \in Reasons :
               commands[s][reason] > 0 => commands'[s][reason] > 0,
           \A s \in SessionIds : sessions'[s].status = "PASSED" =>
               sessions[s].status = "PASSED" \/ Commanded(s)',
           \A i \in PresenceIds : presence'[i].status # "ABSENT" =>
               \/ presence[i].status # "ABSENT" /\ presence'[i].session = presence[i].session
               \/ presence'[i].session \in SessionIds /\ EntryCommanded(presence[i].session)',
           \A t \in SessionIds : tickets'[t].status # "ABSENT" =>
               tickets[t].status # "ABSENT" \/ EntryCommanded(t)'
    PROVE  IInv'
<1>1. /\ req'[c] = Idle /\ \A d \in Clients \ {c} : req'[d] = req[d]
      /\ req' \in [Clients -> Request]
  BY IdleTyped DEF IInv, TypeOK, Finish
<1>2. TypeOK'
  BY <1>1 DEF TypeOK
<1>3. Targets'
  BY <1>1 DEF IInv, Targets, Idle
<1>4. \A s \in SessionIds : Commanded(s) => Commanded(s)'
  BY DEF Commanded
<1>5. \A s \in SessionIds : EntryCommanded(s) => EntryCommanded(s)'
  BY DEF EntryCommanded, Reasons
<1>6. ReasonsFit' /\ Opened'
  <2> SUFFICES ASSUME NEW d \in Clients
               PROVE  ReasonFits(req[d])' /\ (req[d].seen.opened => Shown(req[d]))'
    BY DEF ReasonsFit, Opened
  <2>1. CASE d = c
    BY <1>1, <2>1 DEF ReasonFits, Idle, NothingSeen
  <2>2. CASE d # c
    <3>1. req'[d] = req[d] /\ ReasonFits(req[d]) /\ (req[d].seen.opened => Shown(req[d]))
      BY <1>1, <2>2 DEF IInv, ReasonsFit, Opened
    <3>2. req[d].op = "approve" =>
              sessions'[req[d].session].lane = sessions[req[d].session].lane
      BY DEF IInv, Targets
    <3>3. ReasonFits(req[d])'
      BY <3>1, <3>2 DEF ReasonFits, ApprovesEntry, ApprovesExit, IsEntry
    <3> QED
      BY <3>1, <3>3 DEF Shown
  <2> QED
    BY <2>1, <2>2
<1>7. Passing'
  BY <1>1, <1>4 DEF IInv, Passing, Targets, Idle
<1>8. PassedHasBarrier'
  BY <1>4 DEF IInv, PassedHasBarrier, Commanded
<1>9. Entered' /\ EntryRowsHaveBarrier'
  BY <1>5 DEF IInv, Entered, EntryRowsHaveBarrier
<1> QED
  BY <1>2, <1>3, <1>6, <1>7, <1>8, <1>9 DEF IInv

-----------------------------------------------------------------------------
(* What the writes do to the tables.                                       *)

\* A command is added or already there; none goes away.
LEMMA CommandAddedFacts ==
    ASSUME TypeOK, NEW s \in SessionIds, NEW reason \in Reasons
    PROVE  /\ CommandAdded(s, reason) \in [SessionIds -> [Reasons -> 0..MaxCommands]]
           /\ \A k \in SessionIds : \A any \in Reasons :
                 commands[k][any] > 0 => CommandAdded(s, reason)[k][any] > 0
           /\ CommandAdded(s, reason)[s][reason] > 0
<1> DEFINE n == IF commands[s][reason] < MaxCommands THEN commands[s][reason] + 1
                                                     ELSE commands[s][reason]
<1>1. /\ commands \in [SessionIds -> [Reasons -> 0..MaxCommands]]
      /\ commands[s] \in [Reasons -> 0..MaxCommands] /\ commands[s][reason] \in 0..MaxCommands
  BY DEF TypeOK
<1>2. n \in 0..MaxCommands /\ n > 0
  BY <1>1, CommandAssumption
<1>3. CommandAdded(s, reason) = [commands EXCEPT ![s] = [commands[s] EXCEPT ![reason] = n]]
  BY <1>1 DEF CommandAdded
<1> HIDE DEF n
<1>4. [commands[s] EXCEPT ![reason] = n] \in [Reasons -> 0..MaxCommands]
  BY <1>1, <1>2
<1> QED
  BY <1>1, <1>2, <1>3, <1>4

LEMMA CommandEnsuredFacts ==
    ASSUME TypeOK, NEW s \in SessionIds, NEW reason \in Reasons, NEW seen,
           seen.opened => commands[s][reason] > 0
    PROVE  /\ CommandEnsured(s, reason, seen) \in [SessionIds -> [Reasons -> 0..MaxCommands]]
           /\ \A k \in SessionIds : \A any \in Reasons :
                 commands[k][any] > 0 => CommandEnsured(s, reason, seen)[k][any] > 0
           /\ CommandEnsured(s, reason, seen)[s][reason] > 0
<1>1. CASE seen.opened
  BY <1>1 DEF CommandEnsured, TypeOK
<1>2. CASE ~seen.opened
  BY <1>2, CommandAddedFacts DEF CommandEnsured
<1> QED
  BY <1>1, <1>2

\* Closing a ticket creates none.
LEMMA TicketClosedFacts ==
    ASSUME TypeOK, NEW t \in OrNull(SessionIds)
    PROVE  /\ TicketClosed(t) \in [SessionIds -> TicketRow]
           /\ \A k \in SessionIds :
                 TicketClosed(t)[k].status # "ABSENT" => tickets[k].status # "ABSENT"
<1>1. tickets \in [SessionIds -> TicketRow]
  BY DEF TypeOK
<1>2. CASE t # 0 /\ tickets[t].status = "OPEN"
  <2>1. t \in SessionIds /\ tickets[t] \in TicketRow
    BY <1>1, <1>2 DEF OrNull
  <2>2. [tickets[t] EXCEPT !.status = "CLOSED"] \in TicketRow
    BY <2>1 DEF TicketRow
  <2>3. TicketClosed(t) = [tickets EXCEPT ![t] = [tickets[t] EXCEPT !.status = "CLOSED"]]
    BY <1>2 DEF TicketClosed
  <2> QED
    BY <1>1, <1>2, <2>1, <2>2, <2>3
<1>3. CASE ~(t # 0 /\ tickets[t].status = "OPEN")
  BY <1>1, <1>3 DEF TicketClosed
<1> QED
  BY <1>2, <1>3

\* Only the session's own ticket is ever created.
LEMMA EntryTicketFacts ==
    ASSUME TypeOK, NEW s \in SessionIds, NEW plate \in AnyPlate, NEW seen \in Seen,
           CreateOrGetTicket(s, plate, seen)
    PROVE  /\ tickets' \in [SessionIds -> TicketRow]
           /\ \A k \in SessionIds :
                 tickets'[k].status # "ABSENT" => tickets[k].status # "ABSENT" \/ k = s
           /\ EntryTicket(s, seen) \in OrNull(SessionIds)
<1>1. tickets \in [SessionIds -> TicketRow]
  BY DEF TypeOK
<1>2. EntryTicket(s, seen) \in OrNull(SessionIds)
  BY DEF EntryTicket, Seen, OrNull
<1>3. CASE seen.ticket # 0
  BY <1>1, <1>2, <1>3 DEF CreateOrGetTicket
<1>4. CASE seen.ticket = 0
  <2>1. tickets' = [tickets EXCEPT ![s] = [status |-> "OPEN", plate |-> plate]]
    BY <1>4 DEF CreateOrGetTicket
  <2>2. [status |-> "OPEN", plate |-> plate] \in TicketRow
    BY DEF TicketRow
  <2> QED
    BY <1>1, <1>2, <2>1, <2>2
<1> QED
  BY <1>3, <1>4

\* A presence row is left alone or becomes the session's.
LEMMA UpsertFacts ==
    ASSUME TypeOK, NEW s \in SessionIds, NEW t \in OrNull(SessionIds),
           NEW plate \in AnyPlate, NEW seenRow \in OrNull(PresenceIds),
           UpsertPresence(s, t, plate, seenRow)
    PROVE  /\ presence' \in [PresenceIds -> PresenceRow]
           /\ \A i \in PresenceIds : presence'[i] = presence[i] \/ presence'[i].session = s
<1>1. presence \in [PresenceIds -> PresenceRow]
  BY DEF TypeOK
<1>2. PICK i \in PresenceIds :
          presence' = [presence EXCEPT ![i] =
              [status |-> "ACTIVE", session |-> s, ticket |-> t,
               plate |-> IF plate # NoPlate THEN plate ELSE presence[i].plate]]
  BY DEF UpsertPresence
<1>3. presence[i].plate \in AnyPlate
  BY <1>1 DEF PresenceRow
<1> DEFINE row == [status |-> "ACTIVE", session |-> s, ticket |-> t,
                   plate |-> IF plate # NoPlate THEN plate ELSE presence[i].plate]
<1>4. row \in PresenceRow
  BY <1>3 DEF PresenceRow, OrNull
<1>5. row.session = s /\ presence' = [presence EXCEPT ![i] = row]
  BY <1>2
<1> HIDE DEF row
<1> QED
  BY <1>1, <1>4, <1>5

\* Clearing presence leaves every row with its session and creates none.
LEMMA ClearFacts ==
    ASSUME TypeOK, NEW t, NEW plate, ClearPresence(t, plate)
    PROVE  /\ presence' \in [PresenceIds -> PresenceRow]
           /\ \A i \in PresenceIds :
                 presence'[i].session = presence[i].session
                 /\ (presence'[i].status # "ABSENT" => presence[i].status # "ABSENT")
<1>1. presence \in [PresenceIds -> PresenceRow]
  BY DEF TypeOK
<1>2. presence' = [i \in PresenceIds |->
          IF PresenceMatches(i, t, plate)
          THEN [presence[i] EXCEPT !.status = "EXITED"] ELSE presence[i]]
  BY DEF ClearPresence, PresenceCleared
<1>3. ASSUME NEW i \in PresenceIds
      PROVE  /\ presence'[i] \in PresenceRow /\ presence'[i].session = presence[i].session
             /\ presence'[i].status # "ABSENT" => presence[i].status # "ABSENT"
  <2>1. presence[i] \in PresenceRow
    BY <1>1
  <2>2. CASE PresenceMatches(i, t, plate)
    <3>1. presence'[i] = [presence[i] EXCEPT !.status = "EXITED"]
      BY <1>2, <2>2
    <3>2. presence[i].status = "ACTIVE"
      BY <2>2 DEF PresenceMatches
    <3> QED
      BY <2>1, <3>1, <3>2 DEF PresenceRow
  <2>3. CASE ~PresenceMatches(i, t, plate)
    BY <1>2, <2>1, <2>3
  <2> QED
    BY <2>2, <2>3
<1> QED
  BY <1>2, <1>3

LEMMA ReviewFacts ==
    ASSUME TypeOK, NEW s \in SessionIds, NEW seen \in Seen,
           QueueReview(s, seen) \/ ResolveReview(s, seen)
    PROVE  reviews' \in [ReviewIds -> ReviewRow]
<1>1. reviews \in [ReviewIds -> ReviewRow]
  BY DEF TypeOK
<1>2. ASSUME NEW status \in {"OPEN", "RESOLVED"}, CreateReview(s, status)
      PROVE  reviews' \in [ReviewIds -> ReviewRow]
  <2>1. PICK v \in ReviewIds : reviews' = [reviews EXCEPT ![v] =
                                   [status |-> status, session |-> s, by |-> Nobody]]
    BY <1>2 DEF CreateReview
  <2>2. [status |-> status, session |-> s, by |-> Nobody] \in ReviewRow
    BY DEF ReviewRow, OrNull
  <2> QED
    BY <1>1, <2>1, <2>2
<1>3. CASE seen.review = 0
  BY <1>2, <1>3 DEF QueueReview, ResolveReview
<1>4. CASE seen.review # 0 /\ ResolveReview(s, seen)
  <2>1. seen.review \in ReviewIds
    BY <1>4 DEF Seen, OrNull
  <2>2. [reviews[seen.review] EXCEPT !.status = "RESOLVED"] \in ReviewRow
    BY <1>1, <2>1 DEF ReviewRow
  <2>3. reviews' = [reviews EXCEPT ![seen.review] =
                        [reviews[seen.review] EXCEPT !.status = "RESOLVED"]]
    BY <1>4 DEF ResolveReview
  <2> QED
    BY <1>1, <2>1, <2>2, <2>3
<1>5. CASE seen.review # 0 /\ QueueReview(s, seen)
  BY <1>1, <1>5 DEF QueueReview
<1> QED
  BY <1>3, <1>4, <1>5

-----------------------------------------------------------------------------
(* Steps that write one session row, by what else they write.              *)

\* The part of CommitStep that concerns sessions, for one row.
LEMMA SessionWritten ==
    ASSUME TypeOK, NEW s \in SessionIds, NEW row \in SessionRow,
           sessions' = SessionSet(s, row), row.status # "ABSENT",
           row.lane = sessions[s].lane
    PROVE  /\ sessions' \in [SessionIds -> SessionRow]
           /\ \A k \in SessionIds : sessions[k].status # "ABSENT" =>
                 sessions'[k].status # "ABSENT" /\ sessions'[k].lane = sessions[k].lane
           /\ sessions'[s] = row
           /\ \A k \in SessionIds \ {s} : sessions'[k] = sessions[k]
  BY DEF TypeOK, SessionSet

\* Nothing but the session row and the reviews.
LEMMA PlainCommit ==
    ASSUME IInv, NEW c \in Clients, Finish(c),
           NEW s \in SessionIds, NEW row \in SessionRow,
           sessions' = SessionSet(s, row), row.status # "ABSENT",
           row.lane = sessions[s].lane, row.status = "PASSED" => Commanded(s),
           reviews' \in [ReviewIds -> ReviewRow],
           UNCHANGED <<tickets, presence, commands>>
    PROVE  IInv'
<1>1. /\ TypeOK
      /\ \A i \in PresenceIds : presence[i].status # "ABSENT" => presence[i].session \in SessionIds
  BY DEF IInv, Entered
<1>2. /\ tickets' \in [SessionIds -> TicketRow] /\ presence' \in [PresenceIds -> PresenceRow]
      /\ commands' \in [SessionIds -> [Reasons -> 0..MaxCommands]]
  BY <1>1 DEF TypeOK
<1>3. \A k \in SessionIds : sessions'[k].status = "PASSED" =>
          sessions[k].status = "PASSED" \/ Commanded(k)'
  BY <1>1, SessionWritten DEF Commanded
<1> QED
  BY <1>1, <1>2, <1>3, SessionWritten, CommitStep

\* The ticket, the presence and the command of an approved entry as well.
LEMMA EntryCommit ==
    ASSUME IInv, NEW c \in Clients, Finish(c),
           NEW s \in SessionIds, NEW row \in SessionRow,
           sessions' = SessionSet(s, row), row.status # "ABSENT",
           row.lane = sessions[s].lane,
           NEW plate \in AnyPlate, NEW reason \in EntryReasons, NEW seen \in Seen,
           seen.opened => commands[s][reason] > 0,
           ProcessApprovedEntry(s, plate, reason, seen),
           reviews' \in [ReviewIds -> ReviewRow]
    PROVE  IInv'
<1>1. TypeOK /\ reason \in Reasons /\ seen.presence \in OrNull(PresenceIds)
  BY DEF IInv, Reasons, Seen
<1>2. /\ CreateOrGetTicket(s, plate, seen)
      /\ UpsertPresence(s, EntryTicket(s, seen), plate, seen.presence)
      /\ commands' = CommandEnsured(s, reason, seen)
  BY DEF ProcessApprovedEntry
<1>3. /\ commands' \in [SessionIds -> [Reasons -> 0..MaxCommands]]
      /\ \A k \in SessionIds : \A any \in Reasons :
            commands[k][any] > 0 => commands'[k][any] > 0
      /\ commands'[s][reason] > 0
  BY <1>1, <1>2, CommandEnsuredFacts
<1>4. /\ tickets' \in [SessionIds -> TicketRow]
      /\ \A k \in SessionIds :
            tickets'[k].status # "ABSENT" => tickets[k].status # "ABSENT" \/ k = s
      /\ EntryTicket(s, seen) \in OrNull(SessionIds)
  BY <1>1, <1>2, EntryTicketFacts
<1>5. /\ presence' \in [PresenceIds -> PresenceRow]
      /\ \A i \in PresenceIds : presence'[i] = presence[i] \/ presence'[i].session = s
  BY <1>1, <1>2, <1>4, UpsertFacts
<1>6. EntryCommanded(s)' /\ Commanded(s)'
  BY <1>1, <1>3 DEF EntryCommanded, Commanded
<1>7. \A k \in SessionIds : sessions'[k].status = "PASSED" =>
          sessions[k].status = "PASSED" \/ Commanded(k)'
  BY <1>1, <1>6, SessionWritten
<1>8. \A i \in PresenceIds : presence'[i].status # "ABSENT" =>
          \/ presence[i].status # "ABSENT" /\ presence'[i].session = presence[i].session
          \/ presence'[i].session \in SessionIds /\ EntryCommanded(presence[i].session)'
  <2> SUFFICES ASSUME NEW i \in PresenceIds, presence'[i].status # "ABSENT",
                      presence'[i] # presence[i]
               PROVE  presence'[i].session \in SessionIds /\ EntryCommanded(presence[i].session)'
    OBVIOUS
  <2>1. presence'[i].session = s
    BY <1>5
  <2> QED
    BY <1>6, <2>1 DEF EntryCommanded
<1>9. \A t \in SessionIds : tickets'[t].status # "ABSENT" =>
          tickets[t].status # "ABSENT" \/ EntryCommanded(t)'
  BY <1>4, <1>6
<1> QED
  BY <1>1, <1>3, <1>4, <1>5, <1>7, <1>8, <1>9, SessionWritten, CommitStep

\* A command, a ticket closed or not, presence cleared or not.
LEMMA ExitCommit ==
    ASSUME IInv, NEW c \in Clients, Finish(c),
           NEW s \in SessionIds, NEW row \in SessionRow,
           sessions' = SessionSet(s, row), row.status # "ABSENT",
           row.lane = sessions[s].lane,
           NEW t \in OrNull(SessionIds), NEW plate \in AnyPlate, NEW reason \in Reasons,
           \/ commands' = CommandAdded(s, reason)
           \/ \E seen \in Seen : /\ seen.opened => commands[s][reason] > 0
                                 /\ commands' = CommandEnsured(s, reason, seen),
           tickets' = TicketClosed(t) \/ UNCHANGED tickets,
           ClearPresence(t, plate) \/ UNCHANGED presence,
           reviews' \in [ReviewIds -> ReviewRow]
    PROVE  IInv'
<1>1. TypeOK /\ Entered
  BY DEF IInv
<1>2. /\ commands' \in [SessionIds -> [Reasons -> 0..MaxCommands]]
      /\ \A k \in SessionIds : \A any \in Reasons :
            commands[k][any] > 0 => commands'[k][any] > 0
      /\ commands'[s][reason] > 0
  BY <1>1, CommandAddedFacts, CommandEnsuredFacts
<1>3. /\ tickets' \in [SessionIds -> TicketRow]
      /\ \A k \in SessionIds : tickets'[k].status # "ABSENT" => tickets[k].status # "ABSENT"
  BY <1>1, TicketClosedFacts DEF TypeOK
<1>4. /\ presence' \in [PresenceIds -> PresenceRow]
      /\ \A i \in PresenceIds :
            /\ presence'[i].session = presence[i].session
            /\ presence'[i].status # "ABSENT" => presence[i].status # "ABSENT"
  BY <1>1, ClearFacts DEF TypeOK
<1>5. \A k \in SessionIds : sessions'[k].status = "PASSED" =>
          sessions[k].status = "PASSED" \/ Commanded(k)'
  BY <1>1, <1>2, SessionWritten DEF Commanded
<1> QED
  BY <1>1, <1>2, <1>3, <1>4, <1>5, SessionWritten, CommitStep

-----------------------------------------------------------------------------
(* One lemma per action, the steps that only read first.                   *)

\* The request of a read step is built from Idle, whose snapshot shows no command.
LEMMA IdleFields ==
    Idle \in Request /\ Idle.seen.opened = FALSE /\ Idle.phase = "read"
  BY IdleTyped DEF Idle, NothingSeen

LEMMA OpenBeginKeeps ==
    ASSUME IInv, NEW c \in Clients, OpenBegin(c)
    PROVE  IInv'
<1>1. PICK lane \in Lanes, now \in Times, plate \in AnyPlate, type \in {"SENSOR", "NONE"},
           present \in BOOLEAN :
          /\ type = "NONE" => ~present
          /\ req' = [req EXCEPT ![c] =
              [Idle EXCEPT !.op = "open", !.lane = lane, !.now = now, !.plate = plate,
                           !.readType = type, !.present = present,
                           !.stale = {s \in SessionIds :
                               /\ IsActive(s) /\ sessions[s].lane = lane
                               /\ ~ShouldReuse(sessions[s].lastRead, now, Window)}]]
  BY Zenon DEF OpenBegin
<1> DEFINE stale == {s \in SessionIds :
                       /\ IsActive(s) /\ sessions[s].lane = lane
                       /\ ~ShouldReuse(sessions[s].lastRead, now, Window)}
           r == [Idle EXCEPT !.op = "open", !.lane = lane, !.now = now, !.plate = plate,
                             !.readType = type, !.present = present, !.stale = stale]
<1>2. stale \in SUBSET SessionIds
  OBVIOUS
<1>3. req' = [req EXCEPT ![c] = r]
  BY <1>1
<1> HIDE DEF stale
<1>4. r \in Request /\ r.op = "open" /\ r.seen.opened = FALSE
  BY <1>2, IdleFields DEF Request, Operations, ReadTypes
<1> HIDE DEF r
<1>5. UNCHANGED tables /\ ReasonFits(r)
  BY <1>4 DEF OpenBegin, ReasonFits
<1> QED
  BY <1>3, <1>4, <1>5, ReadStep

\* The plate and the ticket that a resolve will write.
LEMMA ResolveCarries ==
    ASSUME TypeOK, NEW s \in SessionIds, NEW plate \in AnyPlate, NEW t \in OrNull(SessionIds)
    PROVE  /\ (IF plate # NoPlate THEN plate ELSE sessions[s].plate) \in AnyPlate
           /\ (IF t # 0 THEN t ELSE sessions[s].ticket) \in OrNull(SessionIds)
           /\ s \in OrNull(SessionIds)
  BY Typed DEF OrNull

\* The reason of an approval is one of its direction.
LEMMA ApprovalReasonFacts ==
    ASSUME NEW lane, NEW t, NEW code
    PROVE  LET reason == ApprovalReason(lane \in EntryLanes, t, code)
           IN  /\ lane \in EntryLanes => reason \in EntryReasons
               /\ lane \notin EntryLanes /\ t # 0 => reason \in ExitReasons
               /\ reason \in Reasons \cup {"NONE"}
  BY DEF ApprovalReason, CommandReason, EntryReasons, ExitReasons, Reasons

LEMMA DecisionReasonFacts ==
    ASSUME NEW s, NEW lane, NEW plate, NEW action, NEW t,
           NEW reason \in DecisionReasons(s, lane, plate, action, t)
    PROVE  /\ reason \in Reasons \cup {"NONE"}
           /\ action = "APPROVE" /\ lane \in EntryLanes => reason \in EntryReasons
           /\ action = "APPROVE" /\ lane \notin EntryLanes /\ t # 0 => reason \in ExitReasons
<1>1. PICK code : reason = IF action = "APPROVE"
                           THEN ApprovalReason(lane \in EntryLanes, t, code) ELSE "NONE"
  BY DEF DecisionReasons
<1> QED
  BY <1>1, ApprovalReasonFacts

LEMMA ResolveDecideKeeps ==
    ASSUME IInv, NEW c \in Clients, ResolveDecide(c)
    PROVE  IInv'
<1>1. PICK s \in SessionIds, action \in FinalActions, lane \in Lanes, plate \in AnyPlate,
           t \in OrNull(SessionIds) :
          /\ sessions[s].status # "ABSENT"
          /\ \E reason \in DecisionReasons(s, lane, plate, action, t), now \in Times :
                req' = [req EXCEPT ![c] =
                    ResolveRequest(s, lane, now, plate, DecisionActionToStatus(action),
                                   action, reason, t)]
  BY Zenon DEF ResolveDecide
<1>0. PICK reason \in DecisionReasons(s, lane, plate, action, t), now \in Times :
          req' = [req EXCEPT ![c] =
              ResolveRequest(s, lane, now, plate, DecisionActionToStatus(action),
                             action, reason, t)]
  BY <1>1
<1> DEFINE next == DecisionActionToStatus(action)
           carried == IF plate # NoPlate THEN plate ELSE sessions[s].plate
           ticket == IF t # 0 THEN t ELSE sessions[s].ticket
           r == [Idle EXCEPT !.op = "resolve", !.session = s, !.lane = lane, !.now = now,
                             !.next = next, !.action = action, !.reason = reason,
                             !.exitTicket = t, !.plate = carried, !.ticket = ticket]
<1>2. next \in Statuses \ {"PASSED"}
  BY StatusDecided
<1>3. carried \in AnyPlate /\ ticket \in OrNull(SessionIds) /\ s \in OrNull(SessionIds)
  BY ResolveCarries DEF IInv
<1>4. req' = [req EXCEPT ![c] = r] /\ UNCHANGED tables
  BY <1>0 DEF ResolveDecide, ResolveRequest
<1>5. /\ reason \in Reasons \cup {"NONE"}
      /\ action = "APPROVE" /\ lane \in EntryLanes => reason \in EntryReasons
      /\ action = "APPROVE" /\ lane \notin EntryLanes /\ t # 0 => reason \in ExitReasons
  BY DecisionReasonFacts
<1> HIDE DEF next, carried, ticket
<1>6. /\ r \in Request /\ r.op = "resolve" /\ r.session = s /\ r.lane = lane
      /\ r.action = action /\ r.reason = reason /\ r.exitTicket = t
      /\ r.next # "PASSED" /\ r.seen.opened = FALSE
  BY <1>2, <1>3, <1>5, IdleFields DEF Request, Operations
<1> HIDE DEF r
<1>7. ReasonFits(r)
  BY <1>5, <1>6 DEF ReasonFits, ApprovesEntry, ApprovesExit
<1> QED
  BY <1>1, <1>4, <1>6, <1>7, ReadStep

\* A read without a decision writes PASSED only over PASSED.
LEMMA ResolveSenseKeeps ==
    ASSUME IInv, NEW c \in Clients, ResolveSense(c)
    PROVE  IInv'
<1>1. PICK s \in SessionIds, now \in Times, type \in {"SENSOR", "NONE"}, present \in BOOLEAN :
          /\ sessions[s].status # "ABSENT"
          /\ req' = [req EXCEPT ![c] =
                 ResolveRequest(s, AnyLane, now, NoPlate,
                     DeriveStatusFromRead(sessions[s].status, type, present, FALSE),
                     "NONE", "NONE", 0)]
  BY DEF ResolveSense
<1> DEFINE next == DeriveStatusFromRead(sessions[s].status, type, present, FALSE)
           r == [Idle EXCEPT !.op = "resolve", !.session = s, !.lane = AnyLane, !.now = now,
                             !.next = next, !.action = "NONE", !.reason = "NONE",
                             !.exitTicket = 0, !.plate = sessions[s].plate,
                             !.ticket = sessions[s].ticket]
<1>2. sessions[s].status \in Statuses
  BY <1>1, Typed DEF IInv
<1>3. next \in {sessions[s].status, "WAITING_READ", "WAITING_DECISION"}
  BY <1>2, StatusDerived
<1>4. next \in Statuses /\ (next = "PASSED" => Commanded(s))
  BY <1>2, <1>3 DEF IInv, PassedHasBarrier, Commanded, Statuses, ActiveStatuses
<1>5. /\ sessions[s].plate \in AnyPlate /\ sessions[s].ticket \in OrNull(SessionIds)
      /\ s \in OrNull(SessionIds) /\ 0 \in OrNull(SessionIds)
  BY Typed DEF IInv, OrNull
<1>6. req' = [req EXCEPT ![c] = r] /\ UNCHANGED tables
  BY <1>1 DEF ResolveSense, ResolveRequest
<1> HIDE DEF next
<1>7. /\ r \in Request /\ r.op = "resolve" /\ r.session = s /\ r.action = "NONE"
      /\ r.next = next /\ r.seen.opened = FALSE
  BY <1>4, <1>5, IdleFields, LaneAssumption DEF Request, Operations, AnyLane
<1> HIDE DEF r
<1>8. ReasonFits(r)
  BY <1>7 DEF ReasonFits, ApprovesEntry, ApprovesExit
<1> QED
  BY <1>1, <1>4, <1>6, <1>7, <1>8, ReadStep

\* What the snapshot shows was true when it was taken.
LEMMA SnapshotFacts ==
    ASSUME NEW s, NEW plate, NEW reason, NEW withReview, NEW withEntry, NEW seen,
           SnapshotOf(s, plate, reason, withReview, withEntry, seen), seen.opened
    PROVE  reason \in Reasons /\ commands[s][reason] > 0
  BY DEF SnapshotOf

LEMMA ResolveBeginKeeps ==
    ASSUME IInv, NEW c \in Clients, ResolveBegin(c)
    PROVE  IInv'
<1>1. PICK v \in OrNull(ReviewIds), t \in OrNull(SessionIds), i \in OrNull(PresenceIds),
           opened \in BOOLEAN :
          LET seen == [review |-> v, ticket |-> t, presence |-> i, opened |-> opened]
          IN  /\ SnapshotOf(req[c].session, req[c].plate, req[c].reason,
                            Queues(req[c]), ApprovesEntry(req[c]), seen)
              /\ req' = [req EXCEPT ![c] = [req[c] EXCEPT !.phase = "snap", !.seen = seen]]
  BY DEF ResolveBegin
<1> DEFINE seen == [review |-> v, ticket |-> t, presence |-> i, opened |-> opened]
           r == [req[c] EXCEPT !.phase = "snap", !.seen = seen]
<1>2. seen \in Seen
  BY DEF Seen
<1>3. req[c] \in Request /\ req[c].op = "resolve"
  BY Typed DEF IInv, ResolveBegin
<1>4. req' = [req EXCEPT ![c] = r] /\ UNCHANGED tables
  BY <1>1 DEF ResolveBegin
<1>5. seen.opened => /\ req[c].reason \in Reasons
                     /\ commands[req[c].session][req[c].reason] > 0
  BY <1>1, SnapshotFacts
<1> HIDE DEF seen
<1>6. /\ r \in Request /\ r.op = "resolve" /\ r.session = req[c].session
      /\ r.next = req[c].next /\ r.action = req[c].action
      /\ r.lane = req[c].lane /\ r.reason = req[c].reason
      /\ r.exitTicket = req[c].exitTicket /\ r.seen = seen
  BY <1>2, <1>3 DEF Request
<1> HIDE DEF r
<1>7. ReasonFits(r)
  BY <1>3, <1>6 DEF IInv, ReasonsFit, ReasonFits, ApprovesEntry, ApprovesExit
<1>8. /\ r.session \in SessionIds /\ sessions[r.session].status # "ABSENT"
      /\ r.next = "PASSED" => Commanded(r.session)
  BY <1>3, <1>6 DEF IInv, Targets, Passing
<1>9. r.seen.opened => Shown(r)
  BY <1>5, <1>6, <1>8 DEF Shown
<1> QED
  BY <1>4, <1>6, <1>7, <1>8, <1>9, ReadStep

LEMMA ConfirmReadKeeps ==
    ASSUME IInv, NEW c \in Clients, ConfirmRead(c)
    PROVE  IInv'
<1>1. PICK s \in SessionIds, now \in Times, reason \in Worded \cup {"CONFIRM_PASS"} :
          /\ sessions[s].status = "APPROVED"
          /\ req' = [req EXCEPT ![c] =
                 [Idle EXCEPT !.op = "confirm", !.session = s, !.now = now,
                              !.reason = reason, !.plate = sessions[s].plate,
                              !.ticket = sessions[s].ticket]]
  BY DEF ConfirmRead
<1> DEFINE r == [Idle EXCEPT !.op = "confirm", !.session = s, !.now = now,
                             !.reason = reason, !.plate = sessions[s].plate,
                             !.ticket = sessions[s].ticket]
<1>2. /\ sessions[s].plate \in AnyPlate /\ sessions[s].ticket \in OrNull(SessionIds)
      /\ s \in OrNull(SessionIds)
  BY Typed DEF IInv, OrNull
<1>3. /\ r \in Request /\ r.op = "confirm" /\ r.session = s /\ r.seen.opened = FALSE
      /\ r.reason \in Reasons
  BY <1>2, IdleFields DEF Request, Operations, Reasons
<1>4. req' = [req EXCEPT ![c] = r] /\ UNCHANGED tables
  BY <1>1 DEF ConfirmRead
<1> HIDE DEF r
<1>5. ReasonFits(r)
  BY <1>3 DEF ReasonFits
<1> QED
  BY <1>1, <1>3, <1>4, <1>5, ReadStep

LEMMA CancelReadKeeps ==
    ASSUME IInv, NEW c \in Clients, CancelRead(c)
    PROVE  IInv'
<1>1. PICK s \in SessionIds :
          /\ IsActive(s)
          /\ req' = [req EXCEPT ![c] = [Idle EXCEPT !.op = "cancel", !.session = s]]
  BY DEF CancelRead
<1> DEFINE r == [Idle EXCEPT !.op = "cancel", !.session = s]
<1>2. sessions[s].status # "ABSENT" /\ s \in OrNull(SessionIds)
  BY <1>1 DEF IsActive, ActiveStatuses, OrNull
<1>3. r \in Request /\ r.op = "cancel" /\ r.session = s /\ r.seen.opened = FALSE
  BY <1>2, IdleFields DEF Request, Operations
<1>4. req' = [req EXCEPT ![c] = r] /\ UNCHANGED tables
  BY <1>1 DEF CancelRead
<1> HIDE DEF r
<1>5. ReasonFits(r)
  BY <1>3 DEF ReasonFits
<1> QED
  BY <1>2, <1>3, <1>4, <1>5, ReadStep

\* What ManualBegin makes of the request of client c.
LEMMA ManualBegun ==
    ASSUME IInv, NEW c \in Clients, ManualBegin(c)
    PROVE  \E r \in Request :
               /\ req' = [req EXCEPT ![c] = r] /\ UNCHANGED tables
               /\ r.op \in {"approve", "reject", "openBarrier"} /\ r.session \in SessionIds
               /\ sessions[r.session].status # "ABSENT"
               /\ RequiredAction(r.op) \in AllowedActions(sessions[r.session].status)
               /\ CanMove(sessions[r.session].status, ManualStatus(r.op))
               /\ r.plate = sessions[r.session].plate
               /\ r.exitTicket = sessions[r.session].ticket
               /\ r.reason \in ManualReasons(r.op, r.session, r.exitTicket)
               /\ SnapshotOf(r.session, r.plate, r.reason,
                             TRUE, r.op = "approve" /\ IsEntry(r.session), r.seen)
<1>1. PICK op \in {"approve", "reject", "openBarrier"} \cap Endpoints, s \in SessionIds :
          /\ sessions[s].status # "ABSENT"
          /\ RequiredAction(op) \in AllowedActions(sessions[s].status)
          /\ CanMove(sessions[s].status, ManualStatus(op))
          /\ \E v \in OrNull(ReviewIds), t \in OrNull(SessionIds), i \in OrNull(PresenceIds),
              opened \in BOOLEAN, reason \in ManualReasons(op, s, sessions[s].ticket),
              actor \in Actors, now \in Times :
              LET seen == [review |-> v, ticket |-> t, presence |-> i, opened |-> opened]
              IN  /\ SnapshotOf(s, sessions[s].plate, reason, TRUE,
                                op = "approve" /\ IsEntry(s), seen)
                  /\ v # 0 => MayMutate(v, actor)
                  /\ req' = [req EXCEPT ![c] =
                         [Idle EXCEPT !.op = op, !.phase = "snap", !.session = s,
                                      !.now = now, !.plate = sessions[s].plate,
                                      !.exitTicket = sessions[s].ticket, !.reason = reason,
                                      !.actor = actor, !.seen = seen]]
  BY Zenon DEF ManualBegin
<1>2. PICK v \in OrNull(ReviewIds), t \in OrNull(SessionIds), i \in OrNull(PresenceIds),
           opened \in BOOLEAN, reason \in ManualReasons(op, s, sessions[s].ticket),
           actor \in Actors, now \in Times :
          LET seen == [review |-> v, ticket |-> t, presence |-> i, opened |-> opened]
          IN  /\ SnapshotOf(s, sessions[s].plate, reason, TRUE,
                            op = "approve" /\ IsEntry(s), seen)
              /\ v # 0 => MayMutate(v, actor)
              /\ req' = [req EXCEPT ![c] =
                     [Idle EXCEPT !.op = op, !.phase = "snap", !.session = s,
                                  !.now = now, !.plate = sessions[s].plate,
                                  !.exitTicket = sessions[s].ticket, !.reason = reason,
                                  !.actor = actor, !.seen = seen]]
  BY <1>1, Zenon
<1> DEFINE seen == [review |-> v, ticket |-> t, presence |-> i, opened |-> opened]
           r == [Idle EXCEPT !.op = op, !.phase = "snap", !.session = s, !.now = now,
                             !.plate = sessions[s].plate, !.exitTicket = sessions[s].ticket,
                             !.reason = reason, !.actor = actor, !.seen = seen]
<1>3. seen \in Seen
  BY DEF Seen
<1>4. req' = [req EXCEPT ![c] = r] /\ UNCHANGED tables
  BY <1>2 DEF ManualBegin
<1>5. /\ sessions[s].plate \in AnyPlate /\ sessions[s].ticket \in OrNull(SessionIds)
      /\ s \in OrNull(SessionIds)
  BY Typed DEF IInv, OrNull
<1>6. SnapshotOf(s, sessions[s].plate, reason, TRUE, op = "approve" /\ IsEntry(s), seen)
  BY <1>2
<1> HIDE DEF seen
<1>7. reason \in Reasons \cup {"NONE"}
  BY ApprovalReasonFacts DEF ManualReasons, Reasons, IsEntry
<1>8. /\ r \in Request /\ r.op = op /\ r.session = s /\ r.plate = sessions[s].plate
      /\ r.exitTicket = sessions[s].ticket /\ r.reason = reason /\ r.seen = seen
  BY <1>3, <1>5, <1>7, IdleFields DEF Request, Operations
<1> HIDE DEF r
<1>9. /\ sessions[s].status # "ABSENT"
      /\ RequiredAction(op) \in AllowedActions(sessions[s].status)
      /\ CanMove(sessions[s].status, ManualStatus(op))
  BY <1>1
<1> QED
  BY <1>4, <1>6, <1>8, <1>9

LEMMA ManualBeginKeeps ==
    ASSUME IInv, NEW c \in Clients, ManualBegin(c)
    PROVE  IInv'
<1>1. PICK r \in Request :
          /\ req' = [req EXCEPT ![c] = r] /\ UNCHANGED tables
          /\ r.op \in {"approve", "reject", "openBarrier"} /\ r.session \in SessionIds
          /\ sessions[r.session].status # "ABSENT"
          /\ r.reason \in ManualReasons(r.op, r.session, r.exitTicket)
          /\ SnapshotOf(r.session, r.plate, r.reason,
                        TRUE, r.op = "approve" /\ IsEntry(r.session), r.seen)
  BY ManualBegun
<1>2. ReasonFits(r)
  <2>1. CASE r.op = "approve"
    <3>1. PICK code : r.reason = ApprovalReason(IsEntry(r.session), r.exitTicket, code)
      BY <1>1, <2>1 DEF ManualReasons
    <3> QED
      BY <2>1, <3>1, ApprovalReasonFacts DEF ReasonFits, IsEntry
  <2>2. CASE r.op \in {"reject", "openBarrier"}
    BY <1>1, <2>2 DEF ReasonFits, ManualReasons, Reasons
  <2> QED
    BY <1>1, <2>1, <2>2
<1>3. r.seen.opened => Shown(r)
  BY <1>1, SnapshotFacts DEF Shown
<1> QED
  BY <1>1, <1>2, <1>3, ReadStep

LEMMA ClaimBeginKeeps ==
    ASSUME IInv, NEW c \in Clients, ClaimBegin(c)
    PROVE  IInv'
<1>1. PICK v \in ReviewIds, actor \in Actors :
          req' = [req EXCEPT ![c] =
              [Idle EXCEPT !.op = "claim", !.phase = "snap", !.review = v, !.actor = actor]]
  BY DEF ClaimBegin
<1> DEFINE r == [Idle EXCEPT !.op = "claim", !.phase = "snap", !.review = v, !.actor = actor]
<1>2. r \in Request /\ r.op = "claim" /\ r.review = v /\ r.seen.opened = FALSE
  BY IdleFields DEF Request, Operations, OrNull
<1>3. req' = [req EXCEPT ![c] = r] /\ UNCHANGED tables
  BY <1>1 DEF ClaimBegin
<1> HIDE DEF r
<1>4. ReasonFits(r)
  BY <1>2 DEF ReasonFits
<1> QED
  BY <1>2, <1>3, <1>4, ReadStep

-----------------------------------------------------------------------------
(* The steps that write.                                                   *)

\* openGateSession writes no PASSED: what it reuses is active, what it creates is new.
LEMMA StatusOnOpenFacts ==
    ASSUME NEW r, NEW status \in ActiveStatuses
    PROVE  StatusOnOpen(r, status) \in Statuses \ {"PASSED"}
<1>1. status \in Statuses
  BY DEF Statuses
<1>2. DeriveStatusFromRead(status, r.readType, r.present, r.plate # NoPlate)
          \in {status, "WAITING_READ", "WAITING_DECISION"}
  BY <1>1, StatusDerived
<1> QED
  BY <1>2 DEF StatusOnOpen, Statuses, ActiveStatuses, TerminalStatuses

\* Timing out rows leaves their lanes and passes none.
LEMMA ExpiredFacts ==
    ASSUME TypeOK, NEW stale
    PROVE  /\ Expired(stale) \in [SessionIds -> SessionRow]
           /\ \A s \in SessionIds :
                 /\ Expired(stale)[s].lane = sessions[s].lane
                 /\ Expired(stale)[s].status \in {sessions[s].status, "TIMEOUT"}
<1>1. ASSUME NEW s \in SessionIds
      PROVE  /\ Expired(stale)[s] \in SessionRow
             /\ Expired(stale)[s].lane = sessions[s].lane
             /\ Expired(stale)[s].status \in {sessions[s].status, "TIMEOUT"}
  <2>1. Expired(stale)[s] = IF s \in stale THEN [sessions[s] EXCEPT !.status = "TIMEOUT"]
                                           ELSE sessions[s]
    BY DEF Expired
  <2>2. sessions[s] \in SessionRow
    BY Typed
  <2> QED
    BY <2>1, <2>2 DEF SessionRow, Statuses, TerminalStatuses
<1>2. Expired(stale) = [s \in SessionIds |-> Expired(stale)[s]]
  BY DEF Expired
<1> QED
  BY <1>1, <1>2

\* After an open: the rows but one as the sweep left them.
LEMMA OpenCommit ==
    ASSUME IInv, NEW c \in Clients, Finish(c), NEW stale,
           NEW s \in SessionIds, NEW row \in SessionRow,
           sessions' = [Expired(stale) EXCEPT ![s] = row],
           row.status \notin {"ABSENT", "PASSED"},
           row.lane = sessions[s].lane \/ sessions[s].status = "ABSENT",
           UNCHANGED <<reviews, tickets, presence, commands>>
    PROVE  IInv'
<1>1. TypeOK /\ Entered
  BY DEF IInv
<1>2. sessions' \in [SessionIds -> SessionRow] /\ sessions'[s] = row
      /\ \A k \in SessionIds \ {s} : sessions'[k] = Expired(stale)[k]
  BY <1>1, ExpiredFacts
<1>3. \A k \in SessionIds : sessions[k].status # "ABSENT" =>
          sessions'[k].status # "ABSENT" /\ sessions'[k].lane = sessions[k].lane
  BY <1>1, <1>2, ExpiredFacts
<1>4. \A k \in SessionIds : sessions'[k].status = "PASSED" => sessions[k].status = "PASSED"
  BY <1>1, <1>2, ExpiredFacts
<1> QED
  BY <1>1, <1>2, <1>3, <1>4, CommitStep DEF TypeOK

LEMMA OpenReuseKeeps ==
    ASSUME IInv, NEW c \in Clients, OpenReuse(c)
    PROVE  IInv'
<1> DEFINE r == req[c]
           swept == Expired(r.stale)
<1>1. PICK s \in SessionIds :
          /\ IsLatestOf(swept, r.lane, s)
          /\ ShouldReuse(swept[s].lastRead, r.now, Window)
          /\ CanMove(swept[s].status, StatusOnOpen(r, swept[s].status))
          /\ sessions' = [swept EXCEPT ![s] = ReusedRow(r, swept[s])]
  BY Zenon DEF OpenReuse
<1> DEFINE status == StatusOnOpen(r, swept[s].status)
           plate == IF r.plate # NoPlate THEN r.plate ELSE swept[s].plate
           row == [swept[s] EXCEPT !.status = status, !.lastRead = r.now, !.plate = plate]
<1>2. swept \in [SessionIds -> SessionRow] /\ swept[s].lane = sessions[s].lane
  BY ExpiredFacts DEF IInv
<1>3. r.now \in Times /\ plate \in AnyPlate
  BY <1>2, Typed DEF IInv, SessionRow
<1>4. status \in Statuses \ {"PASSED"}
  BY <1>1, StatusOnOpenFacts DEF IsLatestOf
<1>5. Finish(c) /\ UNCHANGED <<reviews, tickets, presence, commands>>
  BY DEF OpenReuse
<1>6. sessions' = [swept EXCEPT ![s] = row]
  BY <1>1 DEF ReusedRow
<1> HIDE DEF status, plate
<1>7. row \in SessionRow /\ row.status = status /\ row.lane = sessions[s].lane
  BY <1>2, <1>3, <1>4 DEF SessionRow
<1>8. row.status \notin {"ABSENT", "PASSED"}
  BY <1>4, <1>7 DEF Statuses, ActiveStatuses, TerminalStatuses
<1> HIDE DEF row
<1> QED
  BY <1>5, <1>6, <1>7, <1>8, OpenCommit

LEMMA OpenCreateKeeps ==
    ASSUME IInv, NEW c \in Clients, OpenCreate(c)
    PROVE  IInv'
<1> DEFINE r == req[c]
<1>1. PICK s \in SessionIds :
          /\ sessions[s].status = "ABSENT"
          /\ sessions' = [Expired(r.stale) EXCEPT ![s] =
                 [status |-> StatusOnOpen(r, "OPEN"), lane |-> r.lane,
                  lastRead |-> r.now, plate |-> r.plate, ticket |-> 0]]
  BY DEF OpenCreate, IsNext
<1> DEFINE status == StatusOnOpen(r, "OPEN")
           row == [status |-> status, lane |-> r.lane, lastRead |-> r.now,
                   plate |-> r.plate, ticket |-> 0]
<1>2. status \in Statuses \ {"PASSED"}
  <2>1. "OPEN" \in ActiveStatuses
    BY DEF ActiveStatuses
  <2> QED
    BY <2>1, StatusOnOpenFacts
<1>3. r.lane \in Lanes /\ r.now \in Times /\ r.plate \in AnyPlate /\ 0 \in OrNull(SessionIds)
  BY Typed DEF IInv, OrNull
<1>4. Finish(c) /\ UNCHANGED <<reviews, tickets, presence, commands>>
  BY DEF OpenCreate
<1>5. sessions' = [Expired(r.stale) EXCEPT ![s] = row]
  BY <1>1
<1> HIDE DEF status
<1>6. row \in SessionRow /\ row.status = status
  BY <1>2, <1>3 DEF SessionRow
<1>7. row.status \notin {"ABSENT", "PASSED"}
  BY <1>2, <1>6 DEF Statuses, ActiveStatuses, TerminalStatuses
<1> HIDE DEF row
<1> QED
  BY <1>1, <1>4, <1>5, <1>6, <1>7, OpenCommit

\* The request of a step that writes works on a typed row.
LEMMA Working ==
    ASSUME IInv, NEW c \in Clients, req[c].op \notin {"idle", "open", "claim"}
    PROVE  /\ req[c].session \in SessionIds /\ sessions[req[c].session] \in SessionRow
           /\ sessions[req[c].session].status \in Statuses
           /\ req[c].now \in Times /\ req[c].plate \in AnyPlate /\ req[c].next \in Statuses
           /\ req[c].ticket \in OrNull(SessionIds) /\ req[c].exitTicket \in OrNull(SessionIds)
           /\ req[c].seen \in Seen
           /\ EntryTicket(req[c].session, req[c].seen) \in OrNull(SessionIds)
<1>1. TypeOK /\ req[c].session \in SessionIds /\ sessions[req[c].session].status # "ABSENT"
  BY DEF IInv, Targets
<1>2. EntryTicket(req[c].session, req[c].seen) \in OrNull(SessionIds)
  BY <1>1, Typed DEF EntryTicket, OrNull
<1> QED
  BY <1>1, <1>2, Typed

\* The rows that resolve and the manual operations start from.
LEMMA ResolvedRowFacts ==
    ASSUME IInv, NEW c \in Clients, req[c].op = "resolve"
    PROVE  /\ ResolvedRow(req[c]) \in SessionRow
           /\ ResolvedRow(req[c]).status = req[c].next
           /\ ResolvedRow(req[c]).lane = sessions[req[c].session].lane
  BY Working DEF ResolvedRow, SessionRow

LEMMA ManualRowFacts ==
    ASSUME IInv, NEW c \in Clients, req[c].op \in {"approve", "reject", "openBarrier"}
    PROVE  /\ ManualRow(req[c]) \in SessionRow
           /\ ManualRow(req[c]).status \in {"APPROVED", "DENIED"}
           /\ ManualRow(req[c]).lane = sessions[req[c].session].lane
<1>1. ManualStatus(req[c].op) \in {"APPROVED", "DENIED"}
  BY DEF ManualStatus
<1>2. "APPROVED" \in Statuses /\ "DENIED" \in Statuses
  BY DEF Statuses, ActiveStatuses, TerminalStatuses
<1> QED
  BY <1>1, <1>2, Working DEF ManualRow, SessionRow

LEMMA ResolvePlainKeeps ==
    ASSUME IInv, NEW c \in Clients, ResolvePlain(c) \/ ResolveQueue(c)
    PROVE  IInv'
<1> DEFINE r == req[c]
           row == ResolvedRow(r)
<1>1. /\ r.op = "resolve" /\ Finish(c) /\ UNCHANGED <<tickets, presence, commands>>
      /\ sessions' = SessionSet(r.session, row)
      /\ UNCHANGED reviews \/ QueueReview(r.session, r.seen)
  BY DEF ResolvePlain, ResolveQueue
<1>2. /\ r.session \in SessionIds /\ r.seen \in Seen /\ r.next \in Statuses
      /\ r.ticket \in OrNull(SessionIds) /\ sessions[r.session] \in SessionRow
  BY <1>1, Working
<1>3. row \in SessionRow /\ row.status = r.next /\ row.lane = sessions[r.session].lane
  BY <1>1, ResolvedRowFacts
<1>4. row.status # "ABSENT" /\ (row.status = "PASSED" => Commanded(r.session))
  BY <1>1, <1>2, <1>3 DEF IInv, Passing, Statuses, ActiveStatuses, TerminalStatuses
<1>5. reviews' \in [ReviewIds -> ReviewRow]
  BY <1>1, <1>2, ReviewFacts DEF IInv, TypeOK
<1> HIDE DEF row
<1> QED
  BY <1>1, <1>2, <1>3, <1>4, <1>5, PlainCommit

\* What the snapshot of a resolve or of a manual operation showed is still there.
LEMMA StillOpened ==
    ASSUME IInv, NEW c \in Clients, req[c].seen.opened
    PROVE  commands[req[c].session][req[c].reason] > 0
  BY DEF IInv, Opened, Shown

LEMMA ResolveEntryKeeps ==
    ASSUME IInv, NEW c \in Clients, ResolveEntry(c)
    PROVE  IInv'
<1> DEFINE r == req[c]
           reason == r.reason
           t == EntryTicket(r.session, r.seen)
           row == [ResolvedRow(r) EXCEPT !.ticket = t]
<1>1. /\ r.op = "resolve" /\ ApprovesEntry(r) /\ Finish(c) /\ UNCHANGED reviews
      /\ ProcessApprovedEntry(r.session, r.plate, reason, r.seen)
      /\ sessions' = SessionSet(r.session, row)
  BY DEF ResolveEntry
<1>2. /\ r.session \in SessionIds /\ r.seen \in Seen /\ r.next \in Statuses
      /\ r.plate \in AnyPlate /\ t \in OrNull(SessionIds)
      /\ sessions[r.session] \in SessionRow
  BY <1>1, Working
<1>3. row \in SessionRow /\ row.status = r.next /\ row.lane = sessions[r.session].lane
  BY <1>1, <1>2, ResolvedRowFacts DEF SessionRow
<1>4. row.status # "ABSENT"
  BY <1>2, <1>3 DEF Statuses, ActiveStatuses, TerminalStatuses
<1>5. reason \in EntryReasons
  BY <1>1 DEF IInv, ReasonsFit, ReasonFits
<1>6. r.seen.opened => commands[r.session][reason] > 0
  BY StillOpened
<1>7. reviews' \in [ReviewIds -> ReviewRow]
  BY <1>1 DEF IInv, TypeOK
<1> HIDE DEF row, reason
<1> QED
  BY <1>1, <1>2, <1>3, <1>4, <1>5, <1>6, <1>7, EntryCommit

LEMMA ApproveEntryKeeps ==
    ASSUME IInv, NEW c \in Clients, ApproveEntry(c)
    PROVE  IInv'
<1> DEFINE r == req[c]
           t == EntryTicket(r.session, r.seen)
           row == [ManualRow(r) EXCEPT !.ticket = t]
<1>1. /\ r.op = "approve" /\ IsEntry(r.session) /\ Finish(c) /\ ResolveReview(r.session, r.seen)
      /\ ProcessApprovedEntry(r.session, r.plate, r.reason, r.seen)
      /\ sessions' = SessionSet(r.session, row)
  BY DEF ApproveEntry
<1>2. /\ r.session \in SessionIds /\ r.seen \in Seen
      /\ r.plate \in AnyPlate /\ t \in OrNull(SessionIds)
  BY <1>1, Working
<1>3. /\ row \in SessionRow /\ row.status \in {"APPROVED", "DENIED"}
      /\ row.lane = sessions[r.session].lane
  BY <1>1, <1>2, ManualRowFacts DEF SessionRow
<1>4. r.seen.opened => commands[r.session][r.reason] > 0
  BY StillOpened
<1>5. reviews' \in [ReviewIds -> ReviewRow]
  BY <1>1, <1>2, ReviewFacts DEF IInv
<1>6. r.reason \in EntryReasons
  BY <1>1 DEF IInv, ReasonsFit, ReasonFits
<1> HIDE DEF row
<1> QED
  BY <1>1, <1>2, <1>3, <1>4, <1>5, <1>6, EntryCommit

LEMMA ResolveExitKeeps ==
    ASSUME IInv, NEW c \in Clients, ResolveExit(c)
    PROVE  IInv'
<1> DEFINE r == req[c]
           reason == r.reason
           row == [ResolvedRow(r) EXCEPT !.status = "PASSED", !.ticket = r.exitTicket]
<1>1. /\ r.op = "resolve" /\ ApprovesExit(r) /\ Finish(c) /\ UNCHANGED reviews
      /\ ProcessApprovedExit(r.session, r.exitTicket, r.plate, reason, r.seen)
      /\ sessions' = SessionSet(r.session, row)
  BY DEF ResolveExit
<1>2. /\ r.session \in SessionIds /\ r.seen \in Seen
      /\ r.plate \in AnyPlate /\ r.exitTicket \in OrNull(SessionIds)
  BY <1>1, Working
<1>3. /\ row \in SessionRow /\ row.status = "PASSED"
      /\ row.lane = sessions[r.session].lane
  BY <1>1, <1>2, ResolvedRowFacts DEF SessionRow, Statuses, TerminalStatuses
<1>4. reason \in Reasons
  BY <1>1 DEF IInv, ReasonsFit, ReasonFits, Reasons
<1>5. r.seen.opened => commands[r.session][reason] > 0
  BY StillOpened
<1>6. reviews' \in [ReviewIds -> ReviewRow]
  BY <1>1 DEF IInv, TypeOK
<1>7. /\ commands' = CommandEnsured(r.session, reason, r.seen)
      /\ tickets' = TicketClosed(r.exitTicket) /\ ClearPresence(r.exitTicket, r.plate)
  BY <1>1 DEF ProcessApprovedExit
<1> HIDE DEF row, reason
<1> QED
  BY <1>1, <1>2, <1>3, <1>4, <1>5, <1>6, <1>7, ExitCommit

LEMMA ApproveExitKeeps ==
    ASSUME IInv, NEW c \in Clients, ApproveExit(c)
    PROVE  IInv'
<1> DEFINE r == req[c]
           row == [ManualRow(r) EXCEPT !.status = "PASSED", !.ticket = r.exitTicket]
<1>1. /\ r.op = "approve" /\ ~IsEntry(r.session) /\ r.exitTicket # 0 /\ Finish(c)
      /\ ProcessApprovedExit(r.session, r.exitTicket, r.plate, r.reason, r.seen)
      /\ sessions' = SessionSet(r.session, row) /\ ResolveReview(r.session, r.seen)
  BY DEF ApproveExit
<1>2. /\ r.session \in SessionIds /\ r.seen \in Seen
      /\ r.plate \in AnyPlate /\ r.exitTicket \in OrNull(SessionIds)
  BY <1>1, Working
<1>3. /\ row \in SessionRow /\ row.status = "PASSED"
      /\ row.lane = sessions[r.session].lane
  BY <1>1, <1>2, ManualRowFacts DEF SessionRow, Statuses, TerminalStatuses
<1>4. r.seen.opened => commands[r.session][r.reason] > 0
  BY StillOpened
<1>5. reviews' \in [ReviewIds -> ReviewRow]
  BY <1>1, <1>2, ReviewFacts DEF IInv
<1>6. /\ commands' = CommandEnsured(r.session, r.reason, r.seen)
      /\ tickets' = TicketClosed(r.exitTicket) /\ ClearPresence(r.exitTicket, r.plate)
  BY <1>1 DEF ProcessApprovedExit
<1>7. r.reason \in Reasons
  BY <1>1 DEF IInv, ReasonsFit, ReasonFits, Reasons
<1> HIDE DEF row
<1> QED
  BY <1>1, <1>2, <1>3, <1>4, <1>5, <1>6, <1>7, ExitCommit

LEMMA ManualPlainKeeps ==
    ASSUME IInv, NEW c \in Clients, ApproveExitNoTicket(c) \/ RejectCommit(c)
    PROVE  IInv'
<1> DEFINE r == req[c]
<1>1. /\ r.op \in {"approve", "reject"} /\ Finish(c) /\ ResolveReview(r.session, r.seen)
      /\ sessions' = SessionSet(r.session, ManualRow(r))
      /\ UNCHANGED <<tickets, presence, commands>>
  BY DEF ApproveExitNoTicket, RejectCommit
<1>2. r.session \in SessionIds /\ r.seen \in Seen /\ r.exitTicket \in OrNull(SessionIds)
  BY <1>1, Working
<1>3. /\ ManualRow(r) \in SessionRow /\ ManualRow(r).status \in {"APPROVED", "DENIED"}
      /\ ManualRow(r).lane = sessions[r.session].lane
  BY <1>1, ManualRowFacts
<1>4. reviews' \in [ReviewIds -> ReviewRow]
  BY <1>1, <1>2, ReviewFacts DEF IInv
<1> QED
  BY <1>1, <1>2, <1>3, <1>4, PlainCommit

LEMMA OpenBarrierKeeps ==
    ASSUME IInv, NEW c \in Clients, OpenBarrierCommit(c)
    PROVE  IInv'
<1> DEFINE r == req[c]
<1>1. /\ r.op = "openBarrier" /\ Finish(c) /\ ResolveReview(r.session, r.seen)
      /\ sessions' = SessionSet(r.session, ManualRow(r))
      /\ commands' = CommandEnsured(r.session, r.reason, r.seen)
      /\ UNCHANGED <<tickets, presence>>
  BY DEF OpenBarrierCommit
<1>2. /\ r.session \in SessionIds /\ r.seen \in Seen /\ r.exitTicket \in OrNull(SessionIds)
      /\ r.plate \in AnyPlate
  BY <1>1, Working
<1>3. /\ ManualRow(r) \in SessionRow /\ ManualRow(r).status \in {"APPROVED", "DENIED"}
      /\ ManualRow(r).lane = sessions[r.session].lane
  BY <1>1, ManualRowFacts
<1>4. reviews' \in [ReviewIds -> ReviewRow]
  BY <1>1, <1>2, ReviewFacts DEF IInv
<1>5. r.seen.opened => commands[r.session][r.reason] > 0
  BY StillOpened
<1>6. r.reason \in Reasons
  BY <1>1 DEF IInv, ReasonsFit, ReasonFits
<1> QED
  BY <1>1, <1>2, <1>3, <1>4, <1>5, <1>6, ExitCommit

LEMMA ConfirmCommitKeeps ==
    ASSUME IInv, NEW c \in Clients, ConfirmCommit(c)
    PROVE  IInv'
<1> DEFINE r == req[c]
<1>1. /\ r.op = "confirm" /\ Finish(c) /\ UNCHANGED reviews
      /\ sessions' = SessionSet(r.session, ConfirmedRow(r))
      /\ commands' = CommandAdded(r.session, r.reason)
      /\ tickets' = TicketClosed(r.ticket) \/ UNCHANGED tickets
      /\ ClearPresence(r.ticket, r.plate) \/ UNCHANGED presence
  BY DEF ConfirmCommit
<1>2. /\ r.session \in SessionIds /\ r.ticket \in OrNull(SessionIds) /\ r.plate \in AnyPlate
      /\ r.now \in Times /\ sessions[r.session] \in SessionRow
  BY <1>1, Working
<1>3. /\ ConfirmedRow(r) \in SessionRow /\ ConfirmedRow(r).status = "PASSED"
      /\ ConfirmedRow(r).lane = sessions[r.session].lane
  BY <1>2 DEF ConfirmedRow, SessionRow, Statuses, TerminalStatuses
<1>4. reviews' \in [ReviewIds -> ReviewRow] /\ r.reason \in Reasons
  BY <1>1 DEF IInv, TypeOK, ReasonsFit, ReasonFits
<1> QED
  BY <1>1, <1>2, <1>3, <1>4, ExitCommit

LEMMA CancelCommitKeeps ==
    ASSUME IInv, NEW c \in Clients, CancelCommit(c)
    PROVE  IInv'
<1> DEFINE s == req[c].session
           row == [sessions[s] EXCEPT !.status = "CANCELLED"]
<1>1. /\ req[c].op = "cancel" /\ Finish(c) /\ sessions' = SessionSet(s, row)
      /\ UNCHANGED <<reviews, tickets, presence, commands>>
  BY DEF CancelCommit
<1>2. s \in SessionIds /\ sessions[s] \in SessionRow
  BY <1>1, Working
<1>3. row \in SessionRow /\ row.status = "CANCELLED" /\ row.lane = sessions[s].lane
  BY <1>2 DEF SessionRow, Statuses, TerminalStatuses
<1>4. reviews' \in [ReviewIds -> ReviewRow]
  BY <1>1 DEF IInv, TypeOK
<1> HIDE DEF row
<1> QED
  BY <1>1, <1>2, <1>3, <1>4, PlainCommit

\* Steps that leave the sessions and everything that hangs on them alone.
LEMMA ReviewCommit ==
    ASSUME IInv, NEW c \in Clients, Finish(c), reviews' \in [ReviewIds -> ReviewRow],
           UNCHANGED <<sessions, tickets, presence, commands>>
    PROVE  IInv'
  BY CommitStep DEF IInv, TypeOK, Entered

LEMMA ClaimCommitKeeps ==
    ASSUME IInv, NEW c \in Clients, ClaimCommit(c)
    PROVE  IInv'
<1> DEFINE r == req[c]
           row == [reviews[r.review] EXCEPT !.status = "CLAIMED", !.by = r.actor]
<1>1. /\ r.op = "claim" /\ Finish(c) /\ reviews' = [reviews EXCEPT ![r.review] = row]
      /\ UNCHANGED <<sessions, tickets, presence, commands>>
  BY DEF ClaimCommit
<1>2. /\ r.review \in ReviewIds /\ r.actor \in Actors
      /\ reviews \in [ReviewIds -> ReviewRow]
  BY <1>1, Typed DEF IInv, Targets, TypeOK
<1>3. row \in ReviewRow
  BY <1>2 DEF ReviewRow, Actors
<1> HIDE DEF row
<1>4. reviews' \in [ReviewIds -> ReviewRow]
  BY <1>1, <1>2, <1>3
<1> QED
  BY <1>1, <1>4, ReviewCommit

LEMMA AbortKeeps ==
    ASSUME IInv, NEW c \in Clients, Abort(c)
    PROVE  IInv'
<1>1. Finish(c) /\ UNCHANGED <<sessions, reviews, tickets, presence, commands>>
  BY DEF Abort, tables
<1>2. reviews' \in [ReviewIds -> ReviewRow]
  BY <1>1 DEF IInv, TypeOK
<1> QED
  BY <1>1, <1>2, ReviewCommit

-----------------------------------------------------------------------------
(* The requests in flight.                                                 *)

\* A step of one client leaves the requests of the others alone.
LEMMA OthersWait ==
    ASSUME IInv, NEW c \in Clients, Step(c)
    PROVE  \A d \in Clients \ {c} : req'[d] = req[d]
<1>1. req \in [Clients -> Request]
  BY DEF IInv, TypeOK
<1>2. ASSUME NEW r, req' = [req EXCEPT ![c] = r]
      PROVE  \A d \in Clients \ {c} : req'[d] = req[d]
  BY <1>1, <1>2
<1>3. CASE OpenBegin(c)
  BY <1>1, <1>3 DEF OpenBegin
<1>4. CASE ResolveDecide(c)
  BY <1>1, <1>4 DEF ResolveDecide
<1>5. CASE ResolveSense(c)
  BY <1>1, <1>5 DEF ResolveSense
<1>6. CASE ResolveBegin(c)
  BY <1>1, <1>6 DEF ResolveBegin
<1>7. CASE ConfirmRead(c) \/ CancelRead(c)
  BY <1>1, <1>7 DEF ConfirmRead, CancelRead
<1>8. CASE ManualBegin(c)
  BY <1>2, <1>8, ManualBegun
<1>9. CASE ClaimBegin(c)
  BY <1>1, <1>9 DEF ClaimBegin
<1>10. CASE Finish(c)
  BY <1>1, <1>10 DEF Finish
<1> QED
  BY <1>3, <1>4, <1>5, <1>6, <1>7, <1>8, <1>9, <1>10
  DEF Step, OpenReuse, OpenCreate, ResolvePlain, ResolveQueue, ResolveEntry, ResolveExit,
      ConfirmCommit, CancelCommit, ApproveEntry, ApproveExit, ApproveExitNoTicket,
      RejectCommit, OpenBarrierCommit, ClaimCommit, Abort

-----------------------------------------------------------------------------
(* The invariant and what follows from it.                                 *)

LEMMA InitHolds == Init => IInv
<1> SUFFICES ASSUME Init PROVE IInv
  OBVIOUS
<1>1. AnyLane \in Lanes /\ AnyTime \in Times
  BY LaneAssumption, TimeAssumption DEF AnyLane, AnyTime
<1>2. /\ [status |-> "ABSENT", lane |-> AnyLane, lastRead |-> AnyTime,
          plate |-> NoPlate, ticket |-> 0] \in SessionRow
      /\ [status |-> "ABSENT", session |-> 0, by |-> Nobody] \in ReviewRow
      /\ [status |-> "ABSENT", plate |-> NoPlate] \in TicketRow
      /\ [status |-> "ABSENT", session |-> 0, ticket |-> 0, plate |-> NoPlate] \in PresenceRow
  BY <1>1 DEF SessionRow, ReviewRow, TicketRow, PresenceRow, OrNull, AnyPlate
<1>3. [s \in SessionIds |-> [reason \in Reasons |-> 0]]
          \in [SessionIds -> [Reasons -> 0..MaxCommands]]
  BY CommandAssumption
<1>4. TypeOK
  <2>1. req \in [Clients -> Request]
    BY IdleTyped DEF Init
  <2>2. /\ sessions \in [SessionIds -> SessionRow] /\ reviews \in [ReviewIds -> ReviewRow]
        /\ tickets \in [SessionIds -> TicketRow] /\ presence \in [PresenceIds -> PresenceRow]
    BY <1>2 DEF Init
  <2>3. commands \in [SessionIds -> [Reasons -> 0..MaxCommands]]
    BY <1>3 DEF Init
  <2> QED
    BY <2>1, <2>2, <2>3 DEF TypeOK
<1>5. Targets /\ ReasonsFit /\ Opened /\ Passing
  BY DEF Init, Targets, ReasonsFit, ReasonFits, Opened, Passing, Idle, NothingSeen
<1>6. Entered /\ PassedHasBarrier /\ EntryRowsHaveBarrier
  BY DEF Init, Entered, PassedHasBarrier, EntryRowsHaveBarrier
<1> QED
  BY <1>4, <1>5, <1>6 DEF IInv

LEMMA NextKeeps == IInv /\ [Next]_vars => IInv'
<1> SUFFICES ASSUME IInv, [Next]_vars PROVE IInv'
  OBVIOUS
<1>1. ASSUME NEW c \in Clients, Step(c) PROVE IInv'
  <2>1. CASE OpenBegin(c) \/ OpenReuse(c) \/ OpenCreate(c)
    BY <2>1, OpenBeginKeeps, OpenReuseKeeps, OpenCreateKeeps
  <2>2. CASE ResolveDecide(c) \/ ResolveSense(c) \/ ResolveBegin(c)
    BY <2>2, ResolveDecideKeeps, ResolveSenseKeeps, ResolveBeginKeeps
  <2>3. CASE ResolvePlain(c) \/ ResolveQueue(c)
    BY <2>3, ResolvePlainKeeps
  <2>4. CASE ResolveEntry(c) \/ ResolveExit(c)
    BY <2>4, ResolveEntryKeeps, ResolveExitKeeps
  <2>5. CASE ConfirmRead(c) \/ ConfirmCommit(c) \/ CancelRead(c) \/ CancelCommit(c)
    BY <2>5, ConfirmReadKeeps, ConfirmCommitKeeps, CancelReadKeeps, CancelCommitKeeps
  <2>6. CASE ManualBegin(c) \/ ApproveEntry(c) \/ ApproveExit(c)
    BY <2>6, ManualBeginKeeps, ApproveEntryKeeps, ApproveExitKeeps
  <2>7. CASE ApproveExitNoTicket(c) \/ RejectCommit(c) \/ OpenBarrierCommit(c)
    BY <2>7, ManualPlainKeeps, OpenBarrierKeeps
  <2>8. CASE ClaimBegin(c) \/ ClaimCommit(c) \/ Abort(c)
    BY <2>8, ClaimBeginKeeps, ClaimCommitKeeps, AbortKeeps
  <2> QED
    BY <1>1, <2>1, <2>2, <2>3, <2>4, <2>5, <2>6, <2>7, <2>8 DEF Step
<1>2. CASE UNCHANGED vars
  <2>1. UNCHANGED <<sessions, reviews, tickets, presence, commands, req>>
    BY <1>2 DEF vars
  <2>2. TypeOK' /\ Targets' /\ Passing' /\ Entered'
    BY <2>1 DEF IInv, TypeOK, Targets, Passing, Commanded, Entered
  <2>3. ReasonsFit' /\ Opened'
    BY <2>1 DEF IInv, ReasonsFit, ReasonFits, Opened, Shown, ApprovesEntry, ApprovesExit, IsEntry
  <2>4. PassedHasBarrier' /\ EntryRowsHaveBarrier'
    BY <2>1 DEF IInv, PassedHasBarrier, EntryRowsHaveBarrier, EntryCommanded
  <2> QED
    BY <2>2, <2>3, <2>4 DEF IInv
<1> QED
  BY <1>1, <1>2 DEF Next

\* The invariant holds in every reachable state, however many requests interleave.
THEOREM Invariant == Spec => []IInv
  BY InitHolds, NextKeeps, PTL DEF Spec

\* Every table and every request in flight stays well formed: no handler, whatever it
\* read before its await, writes a row outside the schema (gate/application/*.ts).
THEOREM TypeCorrect == Spec => []TypeOK
<1>1. IInv => TypeOK
  BY DEF IInv
<1> QED
  BY <1>1, Invariant, PTL

\* Whatever interleaves, a session is recorded as PASSED only when some command opened
\* its barrier (resolveGateSession, confirmGateSessionPass, the manual review).
THEOREM PassedCommanded == Spec => []PassedHasBarrier
<1>1. IInv => PassedHasBarrier
  BY DEF IInv
<1> QED
  BY <1>1, Invariant, PTL

\* Whatever interleaves, a presence row or a ticket belongs to a session whose entry
\* commanded the barrier (processApprovedEntryTx).
THEOREM EntryRowsCommanded == Spec => []EntryRowsHaveBarrier
<1>1. IInv => EntryRowsHaveBarrier
  BY DEF IInv
<1> QED
  BY <1>1, Invariant, PTL
=============================================================================

----------------------------- MODULE GateSession -----------------------------
(***************************************************************************)
(* Gate passage sessions of apps/api/src/modules/gate/application: opening *)
(* or reusing a session on a lane, resolving it with a decision, the       *)
(* manual review operations, confirm-pass and cancel, together with the    *)
(* rows those handlers write in the same transaction: tickets, active      *)
(* presence, manual reviews and barrier commands.                          *)
(*                                                                         *)
(* A client runs one request at a time.  Handlers read rows, await, and    *)
(* write them later without re-checking, so a request is several steps:    *)
(*   read   rows read before the transaction (resolve, confirm, cancel);   *)
(*   snap   the transaction's consistent snapshot (InnoDB REPEATABLE       *)
(*          READ): every plain SELECT of the transaction sees it;          *)
(*   commit the writes, which apply to the current rows.                   *)
(* A request that a guard rejects (an ApiError) changes no row: its guard  *)
(* simply does not hold.  Abort is any rollback after that point.          *)
(*                                                                         *)
(* Left out: the RFID identity (a second key handled as the plate is),     *)
(* incidents, decision rows, read events and audit rows (append-only), and *)
(* the timestamps other than last_read_at.                                 *)
(***************************************************************************)
EXTENDS SessionDomain, FiniteSets

CONSTANTS
    Clients,      \* requests that may be in flight at the same time
    Lanes,        \* lanes of the site
    EntryLanes,   \* those whose master-data direction is ENTRY; the rest are EXIT
    Plates,       \* canonical plates
    NoPlate,      \* the request or row carries no plate (SQL NULL)
    Operators,    \* users who work the review queue
    Nobody,       \* no claimer (SQL NULL)
    SessionIds,   \* bound: rows of gate_passage_sessions
    ReviewIds,    \* bound: rows of gate_manual_reviews
    PresenceIds,  \* bound: rows of gate_active_presence
    Times,        \* bound: occurredAt values a request may carry
    Window,       \* GATE_SESSION_REUSE_WINDOW_MS
    Endpoints,    \* bound: the operations clients call
    Worded,       \* bound: reason codes that clients word themselves
    MaxCommands,  \* bound: a command counter saturates here
    StrictSql,    \* TRUE when the server's sql_mode is strict (MySQL's default)
    Subscriptions \* DECISION_ENABLE_SUBSCRIPTIONS

ASSUME LaneAssumption == Lanes # {} /\ EntryLanes \subseteq Lanes
ASSUME NullAssumption == NoPlate \notin Plates /\ Nobody \notin Operators
ASSUME IdAssumption ==
    /\ SessionIds \subseteq Nat \ {0}
    /\ ReviewIds \subseteq Nat \ {0}
    /\ PresenceIds \subseteq Nat \ {0}
ASSUME TimeAssumption == Times \subseteq Int /\ Times # {} /\ Window \in Nat \ {0}
ASSUME CommandAssumption == MaxCommands \in Nat \ {0}
ASSUME EndpointAssumption ==
    Endpoints \subseteq {"open", "resolve", "confirm", "cancel", "claim",
                         "approve", "reject", "openBarrier"}
ASSUME WordingAssumption == "NONE" \notin Worded
ASSUME FlagAssumption == StrictSql \in BOOLEAN /\ Subscriptions \in BOOLEAN

VARIABLES
    sessions,   \* gate_passage_sessions
    reviews,    \* gate_manual_reviews
    tickets,    \* tickets; ticket_code is derived from the session, so is the id here
    presence,   \* gate_active_presence
    commands,   \* gate_barrier_commands: how many, per session and reason_code
    req         \* the request each client has in flight

vars == <<sessions, reviews, tickets, presence, commands, req>>
tables == <<sessions, reviews, tickets, presence, commands>>

-----------------------------------------------------------------------------
(* Rows.  Identifiers are allocated in ascending order (AUTO_INCREMENT); 0 *)
(* stands for a NULL reference.                                            *)

AnyPlate == Plates \cup {NoPlate}
OrNull(ids) == ids \cup {0}

SessionRow == [status: Statuses \cup {"ABSENT"}, lane: Lanes, lastRead: Times,
               plate: AnyPlate, ticket: OrNull(SessionIds)]
ReviewRow == [status: {"ABSENT", "OPEN", "CLAIMED", "RESOLVED"},
              session: OrNull(SessionIds), by: Operators \cup {Nobody}]
TicketRow == [status: {"ABSENT", "OPEN", "CLOSED"}, plate: AnyPlate]
PresenceRow == [status: {"ABSENT", "ACTIVE", "EXITED"}, session: OrNull(SessionIds),
                ticket: OrNull(SessionIds), plate: AnyPlate]

\* The reason codes of barrier commands: those of the handlers, and what a client words.
EntryReasons == {"ENTRY_APPROVED", "ENTRY_SUBSCRIPTION_APPROVED"}
ExitReasons == {"EXIT_APPROVED", "EXIT_SUBSCRIPTION_BYPASS_PAYMENT"}
Reasons == EntryReasons \cup ExitReasons \cup {"CONFIRM_PASS"} \cup Worded

\* What a transaction's snapshot holds of the rows the handler will look up.
Seen == [review: OrNull(ReviewIds), ticket: OrNull(SessionIds),
         presence: OrNull(PresenceIds), opened: BOOLEAN]

\* The user of a manual operation; Nobody when the caller has no row in users.
Actors == Operators \cup {Nobody}

Operations == {"idle", "open", "resolve", "confirm", "cancel", "claim",
               "approve", "reject", "openBarrier"}

Request ==
    [op: Operations, phase: {"read", "snap"},
     session: OrNull(SessionIds),
     lane: Lanes,                      \* lane the request names
     now: Times,
     plate: AnyPlate,                  \* plate the handler will write
     ticket: OrNull(SessionIds),       \* ticket_id the handler will write
     exitTicket: OrNull(SessionIds),   \* decision.openTicket
     next: Statuses, action: FinalActions \cup {"NONE"},
     reason: Reasons \cup {"NONE"},     \* reason_code of the command it will give
     readType: ReadTypes, present: BOOLEAN,
     stale: SUBSET SessionIds,         \* rows expireStaleSessions listed
     review: OrNull(ReviewIds), actor: Actors,
     seen: Seen]

AnyLane == CHOOSE l \in Lanes : TRUE
AnyTime == CHOOSE t \in Times : TRUE

NothingSeen == [review |-> 0, ticket |-> 0, presence |-> 0, opened |-> FALSE]

Idle ==
    [op |-> "idle", phase |-> "read", session |-> 0, lane |-> AnyLane, now |-> AnyTime,
     plate |-> NoPlate, ticket |-> 0, exitTicket |-> 0, next |-> "OPEN",
     action |-> "NONE", reason |-> "NONE", readType |-> "NONE", present |-> FALSE,
     stale |-> {}, review |-> 0, actor |-> Nobody, seen |-> NothingSeen]

IsIdle(c) == req[c].op = "idle"
Finish(c) == req' = [req EXCEPT ![c] = Idle]

-----------------------------------------------------------------------------
(* What the handlers look up.  Each lookup is a relation between the       *)
(* tables and its result, 0 when there is no such row.                     *)

\* AUTO_INCREMENT: i is the next unused identifier of a table.
IsNext(i, ids, table) ==
    /\ table[i].status = "ABSENT"
    /\ \A j \in ids : j < i => table[j].status # "ABSENT"

IsActive(s) == sessions[s].status \in ActiveStatuses
IsEntry(s) == sessions[s].lane \in EntryLanes

IsLive(v) == reviews[v].status \in {"OPEN", "CLAIMED"}

\* The oldest OPEN or CLAIMED review of session s.
IsLiveReviewOf(s, v) ==
    IF v = 0
    THEN \A w \in ReviewIds : reviews[w].session = s => ~IsLive(w)
    ELSE /\ reviews[v].session = s /\ IsLive(v)
         /\ \A w \in ReviewIds : reviews[w].session = s /\ IsLive(w) => v <= w

\* Ticket t is OPEN for the vehicle of a request: the vehicle of the plate, or the
\* vehicle SES<session> that stands for session s when there is no plate.
IsOpenTicket(s, plate, t) ==
    /\ tickets[t].status = "OPEN" /\ tickets[t].plate = plate
    /\ plate = NoPlate => t = s

IsOpenTicketOf(s, plate, t) ==
    IF t = 0
    THEN \A k \in SessionIds : ~IsOpenTicket(s, plate, k)
    ELSE IsOpenTicket(s, plate, t)

\* Rows an ACTIVE presence lookup by ticket or plate finds.
PresenceMatches(i, t, plate) ==
    /\ presence[i].status = "ACTIVE"
    /\ \/ t # 0 /\ presence[i].ticket = t
       \/ plate # NoPlate /\ presence[i].plate = plate

IsPresenceOf(t, plate, i) ==
    IF i = 0
    THEN \A j \in PresenceIds : ~PresenceMatches(j, t, plate)
    ELSE PresenceMatches(i, t, plate)

EntryTicket(s, seen) == IF seen.ticket # 0 THEN seen.ticket ELSE s

\* The snapshot of a transaction that works on session s, which will need the live
\* review, the entry rows or the existing command as the flags say.
SnapshotOf(s, plate, reason, withReview, withEntry, seen) ==
    /\ IF withReview THEN IsLiveReviewOf(s, seen.review) ELSE seen.review = 0
    /\ IF withEntry
       THEN /\ IsOpenTicketOf(s, plate, seen.ticket)
            /\ IsPresenceOf(EntryTicket(s, seen), plate, seen.presence)
       ELSE seen.ticket = 0 /\ seen.presence = 0
    /\ seen.opened = IF reason \in Reasons THEN commands[s][reason] > 0 ELSE FALSE

-----------------------------------------------------------------------------
(* What the handlers write.  Each operator is the new value of one table,  *)
(* computed from its current rows.                                         *)

SessionSet(s, row) == [sessions EXCEPT ![s] = row]

\* Variant: the command is not inserted.
CommandForgotten(s, reason) == commands

\* A command of this session and reason may be there already.
CommandAdded(s, reason) ==
    [commands EXCEPT ![s][reason] = IF @ < MaxCommands THEN @ + 1 ELSE @]

\* Variants: the existing command is not looked for; it is looked for under any reason.
CommandRepeated(s, reason, seen) == CommandAdded(s, reason)
CommandOncePerSession(s, reason, seen) ==
    IF \E any \in Reasons : commands[s][any] > 0 THEN commands ELSE CommandAdded(s, reason)

\* ensureBarrierOpenCommandTx: at most one command per session and reason_code, as far
\* as the transaction's snapshot shows.
CommandEnsured(s, reason, seen) ==
    IF seen.opened THEN commands ELSE CommandAdded(s, reason)

\* Variant: the ticket is left open.
TicketKept(t) == tickets

TicketClosed(t) ==
    IF t # 0 /\ tickets[t].status = "OPEN"
    THEN [tickets EXCEPT ![t].status = "CLOSED"]
    ELSE tickets

\* clearActivePresenceTx sets presence_hash to NULL, a column migration V26 declares
\* NOT NULL: under a strict sql_mode the statement raises when it matches a row.
ClearRaises(t, plate) ==
    StrictSql /\ \E i \in PresenceIds : PresenceMatches(i, t, plate)

PresenceCleared(t, plate) ==
    [i \in PresenceIds |->
        IF PresenceMatches(i, t, plate)
        THEN [presence[i] EXCEPT !.status = "EXITED"]
        ELSE presence[i]]

\* Variant: the vehicle stays counted as inside.
KeepPresence(t, plate) == UNCHANGED presence

ClearPresence(t, plate) ==
    ~ClearRaises(t, plate) /\ presence' = PresenceCleared(t, plate)

\* upsertActivePresenceTx: UPDATE the row the snapshot showed, whatever it is now, or
\* INSERT one; the unique keys over ACTIVE rows hold against the current rows.
UpsertPresence(s, t, plate, seenRow) ==
    \E i \in PresenceIds :
        /\ IF seenRow # 0 THEN i = seenRow ELSE IsNext(i, PresenceIds, presence)
        /\ LET merged == IF plate # NoPlate THEN plate ELSE presence[i].plate
           IN  /\ \A j \in PresenceIds \ {i} : ~PresenceMatches(j, t, merged)
               /\ presence' = [presence EXCEPT ![i] =
                      [status |-> "ACTIVE", session |-> s, ticket |-> t, plate |-> merged]]

\* createOrGetEntryTicketTx: reuse the OPEN ticket the snapshot showed, whatever it is
\* now, or create the session's own; the unique keys hold against the current rows.
CreateOrGetTicket(s, plate, seen) ==
    IF seen.ticket # 0
    THEN UNCHANGED tickets
    ELSE /\ tickets[s].status = "ABSENT"
         /\ \A k \in SessionIds : ~IsOpenTicket(s, plate, k)
         /\ tickets' = [tickets EXCEPT ![s] = [status |-> "OPEN", plate |-> plate]]

ProcessApprovedEntry(s, plate, reason, seen) ==
    /\ CreateOrGetTicket(s, plate, seen)
    /\ UpsertPresence(s, EntryTicket(s, seen), plate, seen.presence)
    /\ commands' = CommandEnsured(s, reason, seen)

ProcessApprovedExit(s, t, plate, reason, seen) ==
    /\ commands' = CommandEnsured(s, reason, seen)
    /\ tickets' = TicketClosed(t)
    /\ ClearPresence(t, plate)

CreateReview(s, status) ==
    \E v \in ReviewIds :
        /\ IsNext(v, ReviewIds, reviews)
        /\ reviews' = [reviews EXCEPT ![v] =
               [status |-> status, session |-> s, by |-> Nobody]]

\* Variant: no look for a live review first.
QueueReviewAgain(s, seen) == CreateReview(s, "OPEN")

QueueReview(s, seen) ==
    IF seen.review # 0 THEN UNCHANGED reviews ELSE CreateReview(s, "OPEN")

\* ensureReviewRowTx followed by the update that closes the review.
ResolveReview(s, seen) ==
    IF seen.review # 0
    THEN reviews' = [reviews EXCEPT ![seen.review].status = "RESOLVED"]
    ELSE CreateReview(s, "RESOLVED")

-----------------------------------------------------------------------------
(* openGateSession: one transaction that expires stale sessions of the     *)
(* lane, then reuses the latest active one or creates a session.           *)

\* expireStaleSessions lists the stale rows with a plain SELECT, which also fixes the
\* transaction's snapshot.
OpenBegin(c) ==
    /\ IsIdle(c) /\ "open" \in Endpoints
    /\ \E lane \in Lanes, now \in Times, plate \in AnyPlate,
          type \in {"SENSOR", "NONE"}, present \in BOOLEAN :
          /\ type = "NONE" => ~present
          /\ req' = [req EXCEPT ![c] =
              [Idle EXCEPT !.op = "open", !.lane = lane, !.now = now, !.plate = plate,
                           !.readType = type, !.present = present,
                           !.stale = {s \in SessionIds :
                               /\ IsActive(s) /\ sessions[s].lane = lane
                               /\ ~ShouldReuse(sessions[s].lastRead, now, Window)}]]
    /\ UNCHANGED tables

\* Variant: the listed rows are not updated.
ExpiredNot(stale) == sessions

\* updateMany by the listed ids, with no condition on their current status.
Expired(stale) ==
    [s \in SessionIds |->
        IF s \in stale THEN [sessions[s] EXCEPT !.status = "TIMEOUT"] ELSE sessions[s]]

\* findReusableSession: SELECT ... FOR UPDATE reads the current rows; s is an active
\* session of the lane with the latest read.
IsLatestOf(table, lane, s) ==
    LET active == {k \in SessionIds :
                      table[k].status \in ActiveStatuses /\ table[k].lane = lane}
    IN  s \in active /\ \A k \in active : table[k].lastRead <= table[s].lastRead

\* Only a SENSOR read changes the status here; of the others ("NONE") nothing but the
\* plate is used before the decision.
StatusOnOpen(r, status) ==
    IF r.readType = "SENSOR"
    THEN DeriveStatusFromRead(status, r.readType, r.present, r.plate # NoPlate)
    ELSE status

\* The row after a reuse: status, last_read_at and a plate the request names.
ReusedRow(r, row) ==
    [row EXCEPT !.status = StatusOnOpen(r, row.status), !.lastRead = r.now,
                !.plate = IF r.plate # NoPlate THEN r.plate ELSE row.plate]

OpenReuse(c) ==
    LET r == req[c]
        swept == Expired(r.stale)
    IN  /\ r.op = "open"
        /\ \E s \in SessionIds :
              /\ IsLatestOf(swept, r.lane, s)
              /\ ShouldReuse(swept[s].lastRead, r.now, Window)
              /\ CanMove(swept[s].status, StatusOnOpen(r, swept[s].status))
              /\ sessions' = [swept EXCEPT ![s] = ReusedRow(r, swept[s])]
        /\ Finish(c)
        /\ UNCHANGED <<reviews, tickets, presence, commands>>

OpenCreate(c) ==
    LET r == req[c]
        swept == Expired(r.stale)
    IN  /\ r.op = "open"
        /\ \A s \in SessionIds : IsLatestOf(swept, r.lane, s) =>
              ~ShouldReuse(swept[s].lastRead, r.now, Window)
        /\ \E s \in SessionIds :
              /\ IsNext(s, SessionIds, sessions)
              /\ sessions' = [swept EXCEPT ![s] =
                     [status |-> StatusOnOpen(r, "OPEN"), lane |-> r.lane,
                      lastRead |-> r.now, plate |-> r.plate, ticket |-> 0]]
        /\ Finish(c)
        /\ UNCHANGED <<reviews, tickets, presence, commands>>

-----------------------------------------------------------------------------
(* resolveGateSession: the session, the open ticket and the decision are   *)
(* read and computed before the transaction, which then writes them.       *)

\* What evaluateGateDecision may answer.  Its other inputs (sensor, device health,
\* OCR confidence, payment, anti-passback age) are left to the choice; that an EXIT
\* without an open ticket is neither approved nor held for payment is not.
EngineActions(entry, t) ==
    CASE entry -> {"APPROVE", "REVIEW", "DENY"}
      [] ~entry /\ t = 0 -> {"REVIEW", "DENY"}
      [] OTHER -> FinalActions

\* The approved, denied and paymentRequired overrides of the request.
OverrideActions == {"APPROVE", "DENY", "PAYMENT_HOLD"}

\* A subscription may turn the approval of an entry, or of an exit whose ticket has an
\* ACTIVE presence, into its own.
SubscriptionApproves(lane, t) ==
    /\ Subscriptions
    /\ lane \in EntryLanes \/ \E i \in PresenceIds : PresenceMatches(i, t, NoPlate)

\* The reason code of the command follows from that of the decision.
CommandReason(entry, code) ==
    CASE entry /\ code = "SUBSCRIPTION_AUTO_APPROVED" -> "ENTRY_SUBSCRIPTION_APPROVED"
      [] entry /\ code # "SUBSCRIPTION_AUTO_APPROVED" -> "ENTRY_APPROVED"
      [] ~entry /\ code = "SUBSCRIPTION_EXIT_BYPASS_PAYMENT" ->
             "EXIT_SUBSCRIPTION_BYPASS_PAYMENT"
      [] OTHER -> "EXIT_APPROVED"

\* That of an approval; an EXIT approval without a ticket commands nothing (NO_OPEN_TICKET).
ApprovalReason(entry, t, code) ==
    IF entry \/ t # 0 THEN CommandReason(entry, code) ELSE "NONE"

\* The engine's reason codes; an override or an operator's approval has the client's.
EngineCodes(lane, t) ==
    {"APPROVED"} \cup IF SubscriptionApproves(lane, t)
                      THEN {"SUBSCRIPTION_AUTO_APPROVED", "SUBSCRIPTION_EXIT_BYPASS_PAYMENT"}
                      ELSE {}
ClientCodes == {"MANUAL_APPROVE"} \cup Worded

\* Whether the client's override, or the engine, gives the action with ticket t to a
\* request that names plate.
Overrides(action, t) == action \in OverrideActions /\ t = 0
EngineGives(s, entry, plate, action, t) ==
    /\ IF plate = NoPlate THEN t = 0 ELSE IsOpenTicketOf(s, plate, t)
    /\ action \in EngineActions(entry, t)

\* The decisions on session s with an action and a ticket, by the reason of their command.
DecisionReasons(s, lane, plate, action, t) ==
    LET entry == lane \in EntryLanes
        codes == (IF Overrides(action, t) THEN ClientCodes ELSE {}) \cup
                 (IF EngineGives(s, entry, plate, action, t) THEN EngineCodes(lane, t)
                                                             ELSE {})
    IN  {IF action = "APPROVE" THEN ApprovalReason(entry, t, code) ELSE "NONE" :
            code \in codes}

ResolveRequest(s, lane, now, plate, next, action, reason, t) ==
    [Idle EXCEPT !.op = "resolve", !.session = s, !.lane = lane, !.now = now, !.next = next,
                 !.action = action, !.reason = reason, !.exitTicket = t,
                 !.plate = IF plate # NoPlate THEN plate ELSE sessions[s].plate,
                 !.ticket = IF t # 0 THEN t ELSE sessions[s].ticket]

\* The lane of the request decides what is entered or left, not the lane of the session,
\* which a request that names both need not match.
ResolveDecide(c) ==
    /\ IsIdle(c) /\ "resolve" \in Endpoints
    /\ \E s \in SessionIds, action \in FinalActions :
          /\ sessions[s].status # "ABSENT"
          /\ CanMove(sessions[s].status, DecisionActionToStatus(action))
          /\ \E lane \in Lanes, plate \in AnyPlate, t \in OrNull(SessionIds) :
             \E reason \in DecisionReasons(s, lane, plate, action, t), now \in Times :
                req' = [req EXCEPT ![c] =
                    ResolveRequest(s, lane, now, plate, DecisionActionToStatus(action),
                                   action, reason, t)]
    /\ UNCHANGED tables

\* A read that names no vehicle runs no decision.
ResolveSense(c) ==
    /\ IsIdle(c) /\ "resolve" \in Endpoints
    /\ \E s \in SessionIds, now \in Times, type \in {"SENSOR", "NONE"},
          present \in BOOLEAN :
          LET next == DeriveStatusFromRead(sessions[s].status, type, present, FALSE)
          IN  /\ sessions[s].status # "ABSENT"
              /\ CanMove(sessions[s].status, next)
              /\ req' = [req EXCEPT ![c] =
                     ResolveRequest(s, AnyLane, now, NoPlate, next, "NONE", "NONE", 0)]
    /\ UNCHANGED tables

\* The part of processing an approval that runs at all: an EXIT approval without a
\* ticket leaves the session APPROVED.
ApprovesEntry(r) == r.action = "APPROVE" /\ r.lane \in EntryLanes
ApprovesExit(r) == r.action = "APPROVE" /\ r.lane \notin EntryLanes /\ r.exitTicket # 0

\* Variant: a payment hold is not queued.
QueuesReviewOnly(r) == r.action = "REVIEW"

Queues(r) == r.action \in {"REVIEW", "PAYMENT_HOLD"}

NeedsSnapshot(r) == Queues(r) \/ ApprovesEntry(r) \/ ApprovesExit(r)

ResolveBegin(c) ==
    LET r == req[c]
    IN  /\ r.op = "resolve" /\ r.phase = "read" /\ NeedsSnapshot(r)
        /\ \E v \in OrNull(ReviewIds), t \in OrNull(SessionIds),
              i \in OrNull(PresenceIds), opened \in BOOLEAN :
              LET seen == [review |-> v, ticket |-> t, presence |-> i, opened |-> opened]
              IN  /\ SnapshotOf(r.session, r.plate, r.reason, Queues(r),
                                ApprovesEntry(r), seen)
                  /\ req' = [req EXCEPT ![c] = [r EXCEPT !.phase = "snap", !.seen = seen]]
        /\ UNCHANGED tables

ResolvedRow(r) ==
    [sessions[r.session] EXCEPT !.status = r.next, !.ticket = r.ticket,
                                !.lastRead = r.now, !.plate = r.plate]

\* Denials, reads without a decision and EXIT approvals without a ticket.
ResolvePlain(c) ==
    LET r == req[c]
    IN  /\ r.op = "resolve" /\ ~NeedsSnapshot(r)
        /\ sessions' = SessionSet(r.session, ResolvedRow(r))
        /\ Finish(c)
        /\ UNCHANGED <<reviews, tickets, presence, commands>>

ResolveQueue(c) ==
    LET r == req[c]
    IN  /\ r.op = "resolve" /\ r.phase = "snap" /\ Queues(r)
        /\ sessions' = SessionSet(r.session, ResolvedRow(r))
        /\ QueueReview(r.session, r.seen)
        /\ Finish(c)
        /\ UNCHANGED <<tickets, presence, commands>>

ResolveEntry(c) ==
    LET r == req[c]
    IN  /\ r.op = "resolve" /\ r.phase = "snap" /\ ApprovesEntry(r)
        /\ ProcessApprovedEntry(r.session, r.plate, r.reason, r.seen)
        /\ sessions' = SessionSet(r.session,
               [ResolvedRow(r) EXCEPT !.ticket = EntryTicket(r.session, r.seen)])
        /\ Finish(c)
        /\ UNCHANGED reviews

ResolveExit(c) ==
    LET r == req[c]
    IN  /\ r.op = "resolve" /\ r.phase = "snap" /\ ApprovesExit(r)
        /\ ProcessApprovedExit(r.session, r.exitTicket, r.plate, r.reason, r.seen)
        /\ sessions' = SessionSet(r.session,
               [ResolvedRow(r) EXCEPT !.status = "PASSED", !.ticket = r.exitTicket])
        /\ Finish(c)
        /\ UNCHANGED reviews

-----------------------------------------------------------------------------
(* confirmGateSessionPass and cancelGateSession: the row is read before    *)
(* the transaction, whose update has no condition on the status.           *)

ConfirmRead(c) ==
    /\ IsIdle(c) /\ "confirm" \in Endpoints
    /\ \E s \in SessionIds, now \in Times, reason \in Worded \cup {"CONFIRM_PASS"} :
          /\ sessions[s].status = "APPROVED"
          /\ req' = [req EXCEPT ![c] =
                 [Idle EXCEPT !.op = "confirm", !.session = s, !.now = now,
                              !.reason = reason, !.plate = sessions[s].plate,
                              !.ticket = sessions[s].ticket]]
    /\ UNCHANGED tables

\* Variant: a status outside the enumeration.
ConfirmedRowMisnamed(r) == [sessions[r.session] EXCEPT !.status = "CONFIRMED"]

\* The row after confirm-pass: only status and last_read_at come from the request.
ConfirmedRow(r) == [sessions[r.session] EXCEPT !.status = "PASSED", !.lastRead = r.now]

ConfirmCommit(c) ==
    LET r == req[c]
    IN  /\ r.op = "confirm"
        /\ sessions' = SessionSet(r.session, ConfirmedRow(r))
        /\ commands' = CommandAdded(r.session, r.reason)
        /\ IF IsEntry(r.session)
           THEN UNCHANGED <<tickets, presence>>
           ELSE tickets' = TicketClosed(r.ticket) /\ ClearPresence(r.ticket, r.plate)
        /\ Finish(c)
        /\ UNCHANGED reviews

\* Variant: any session may be cancelled.
CancelReadAny(c) ==
    /\ IsIdle(c) /\ "cancel" \in Endpoints
    /\ \E s \in SessionIds :
          /\ sessions[s].status # "ABSENT"
          /\ req' = [req EXCEPT ![c] = [Idle EXCEPT !.op = "cancel", !.session = s]]
    /\ UNCHANGED tables

CancelRead(c) ==
    /\ IsIdle(c) /\ "cancel" \in Endpoints
    /\ \E s \in SessionIds :
          /\ IsActive(s)
          /\ req' = [req EXCEPT ![c] = [Idle EXCEPT !.op = "cancel", !.session = s]]
    /\ UNCHANGED tables

CancelCommit(c) ==
    LET r == req[c]
    IN  /\ r.op = "cancel"
        /\ sessions' = SessionSet(r.session,
               [sessions[r.session] EXCEPT !.status = "CANCELLED"])
        /\ Finish(c)
        /\ UNCHANGED <<reviews, tickets, presence, commands>>

-----------------------------------------------------------------------------
(* The review queue.  The whole operation runs in one transaction whose    *)
(* first statement fixes the snapshot; the guards are checked on it.       *)

RequiredAction(op) == IF op = "reject" THEN "DENY" ELSE "APPROVE"

\* Variant: opening the barrier by hand leaves the session waiting.
ManualStatusUndecided(op) ==
    CASE op = "reject" -> "DENIED"
      [] op = "openBarrier" -> "WAITING_DECISION"
      [] OTHER -> "APPROVED"

ManualStatus(op) == IF op = "reject" THEN "DENIED" ELSE "APPROVED"

\* ensureReviewMutationAllowed: a claimed review belongs to its claimer.
\* One that Nobody claimed is nobody's.
MayMutate(v, actor) ==
    reviews[v].status = "CLAIMED" => actor # Nobody /\ reviews[v].by = actor

\* The reason codes of the command: a client words that of openBarrier itself.
ManualReasons(op, s, t) ==
    CASE op = "openBarrier" -> Worded
      [] op = "approve" -> {ApprovalReason(IsEntry(s), t, code) : code \in ClientCodes}
      [] OTHER -> {"NONE"}

ManualBegin(c) ==
    /\ IsIdle(c)
    /\ \E op \in {"approve", "reject", "openBarrier"} \cap Endpoints, s \in SessionIds :
          LET row == sessions[s]
          IN  /\ row.status # "ABSENT"
              /\ RequiredAction(op) \in AllowedActions(row.status)
              /\ CanMove(row.status, ManualStatus(op))
              /\ \E v \in OrNull(ReviewIds), t \in OrNull(SessionIds),
                    i \in OrNull(PresenceIds), opened \in BOOLEAN,
                    reason \in ManualReasons(op, s, row.ticket), actor \in Actors,
                    now \in Times :
                    LET seen == [review |-> v, ticket |-> t, presence |-> i,
                                 opened |-> opened]
                    IN  /\ SnapshotOf(s, row.plate, reason, TRUE,
                                      op = "approve" /\ IsEntry(s), seen)
                        /\ v # 0 => MayMutate(v, actor)
                        /\ req' = [req EXCEPT ![c] =
                               [Idle EXCEPT !.op = op, !.phase = "snap", !.session = s,
                                            !.now = now, !.plate = row.plate,
                                            !.exitTicket = row.ticket, !.reason = reason,
                                            !.actor = actor, !.seen = seen]]
    /\ UNCHANGED tables

\* The row after a manual operation: current but for status and last_read_at.
ManualRow(r) ==
    [sessions[r.session] EXCEPT !.status = ManualStatus(r.op), !.lastRead = r.now]

ApproveEntry(c) ==
    LET r == req[c]
    IN  /\ r.op = "approve" /\ IsEntry(r.session)
        /\ ProcessApprovedEntry(r.session, r.plate, r.reason, r.seen)
        /\ sessions' = SessionSet(r.session,
               [ManualRow(r) EXCEPT !.ticket = EntryTicket(r.session, r.seen)])
        /\ ResolveReview(r.session, r.seen)
        /\ Finish(c)

ApproveExit(c) ==
    LET r == req[c]
    IN  /\ r.op = "approve" /\ ~IsEntry(r.session) /\ r.exitTicket # 0
        /\ ProcessApprovedExit(r.session, r.exitTicket, r.plate, r.reason, r.seen)
        /\ sessions' = SessionSet(r.session,
               [ManualRow(r) EXCEPT !.status = "PASSED", !.ticket = r.exitTicket])
        /\ ResolveReview(r.session, r.seen)
        /\ Finish(c)

ApproveExitNoTicket(c) ==
    LET r == req[c]
    IN  /\ r.op = "approve" /\ ~IsEntry(r.session) /\ r.exitTicket = 0
        /\ sessions' = SessionSet(r.session, ManualRow(r))
        /\ ResolveReview(r.session, r.seen)
        /\ Finish(c)
        /\ UNCHANGED <<tickets, presence, commands>>

RejectCommit(c) ==
    LET r == req[c]
    IN  /\ r.op = "reject"
        /\ sessions' = SessionSet(r.session, ManualRow(r))
        /\ ResolveReview(r.session, r.seen)
        /\ Finish(c)
        /\ UNCHANGED <<tickets, presence, commands>>

OpenBarrierCommit(c) ==
    LET r == req[c]
    IN  /\ r.op = "openBarrier"
        /\ sessions' = SessionSet(r.session, ManualRow(r))
        /\ commands' = CommandEnsured(r.session, r.reason, r.seen)
        /\ ResolveReview(r.session, r.seen)
        /\ Finish(c)
        /\ UNCHANGED <<tickets, presence>>

ClaimBegin(c) ==
    /\ IsIdle(c) /\ "claim" \in Endpoints
    /\ \E v \in ReviewIds, actor \in Actors :
          /\ IsLive(v) /\ MayMutate(v, actor)
          /\ reviews[v].session # 0
          /\ sessions[reviews[v].session].status \notin TerminalStatuses
          /\ req' = [req EXCEPT ![c] =
                 [Idle EXCEPT !.op = "claim", !.phase = "snap", !.review = v,
                              !.actor = actor]]
    /\ UNCHANGED tables

ClaimCommit(c) ==
    LET r == req[c]
    IN  /\ r.op = "claim"
        /\ reviews' = [reviews EXCEPT ![r.review] =
               [@ EXCEPT !.status = "CLAIMED", !.by = r.actor]]
        /\ Finish(c)
        /\ UNCHANGED <<sessions, tickets, presence, commands>>

-----------------------------------------------------------------------------
\* A deadlock, a unique key, a timeout or a lost process rolls the transaction back.
Abort(c) ==
    /\ ~IsIdle(c)
    /\ Finish(c)
    /\ UNCHANGED tables

Init ==
    /\ sessions = [s \in SessionIds |->
           [status |-> "ABSENT", lane |-> AnyLane, lastRead |-> AnyTime,
            plate |-> NoPlate, ticket |-> 0]]
    /\ reviews = [v \in ReviewIds |-> [status |-> "ABSENT", session |-> 0, by |-> Nobody]]
    /\ tickets = [t \in SessionIds |-> [status |-> "ABSENT", plate |-> NoPlate]]
    /\ presence = [i \in PresenceIds |->
           [status |-> "ABSENT", session |-> 0, ticket |-> 0, plate |-> NoPlate]]
    /\ commands = [s \in SessionIds |-> [reason \in Reasons |-> 0]]
    /\ req = [c \in Clients |-> Idle]

Step(c) ==
    \/ OpenBegin(c) \/ OpenReuse(c) \/ OpenCreate(c)
    \/ ResolveDecide(c) \/ ResolveSense(c) \/ ResolveBegin(c)
    \/ ResolvePlain(c) \/ ResolveQueue(c) \/ ResolveEntry(c) \/ ResolveExit(c)
    \/ ConfirmRead(c) \/ ConfirmCommit(c) \/ CancelRead(c) \/ CancelCommit(c)
    \/ ManualBegin(c) \/ ApproveEntry(c) \/ ApproveExit(c) \/ ApproveExitNoTicket(c)
    \/ RejectCommit(c) \/ OpenBarrierCommit(c) \/ ClaimBegin(c) \/ ClaimCommit(c)
    \/ Abort(c)

Next == \E c \in Clients : Step(c)

Spec == Init /\ [][Next]_vars

-----------------------------------------------------------------------------
(* What holds while requests stay out of each other's way.                *)

\* Every table and every request in flight is well formed (the columns of the five
\* tables and the arguments the handlers carry across an await).
TypeOK ==
    /\ sessions \in [SessionIds -> SessionRow]
    /\ reviews \in [ReviewIds -> ReviewRow]
    /\ tickets \in [SessionIds -> TicketRow]
    /\ presence \in [PresenceIds -> PresenceRow]
    /\ commands \in [SessionIds -> [Reasons -> 0..MaxCommands]]
    /\ req \in [Clients -> Request]

\* A lane never has two active sessions: what openGateSession expires and what it
\* reuses leave nothing between them (session.ts computeWindowCutoff, shouldReuse).
OneActivePerLane ==
    \A s, k \in SessionIds :
        IsActive(s) /\ IsActive(k) /\ sessions[s].lane = sessions[k].lane => s = k

\* A session that waits for payment has an open item in the review queue, whichever
\* operations led there (resolveGateSession queues one with PAYMENT_HOLD).
PaymentHoldIsQueued ==
    \A s \in SessionIds :
        sessions[s].status = "WAITING_PAYMENT" =>
            \E v \in ReviewIds : reviews[v].session = s /\ IsLive(v)

\* A session has at most one open item in the review queue: queueing and the manual
\* operations all look for a live one first.
OneLiveReview ==
    \A v, w \in ReviewIds :
        IsLive(v) /\ IsLive(w) /\ reviews[v].session = reviews[w].session => v = w

\* A vehicle counted as inside holds an open ticket of that same vehicle: entries create
\* both, exits close both, whichever of ticket or plate identified the vehicle.
PresenceHasOpenTicket ==
    \A i \in PresenceIds :
        presence[i].status = "ACTIVE" =>
            /\ presence[i].ticket # 0
            /\ tickets[presence[i].ticket].status = "OPEN"
            /\ tickets[presence[i].ticket].plate = presence[i].plate

\* An exit session that passed with a ticket leaves that ticket closed.
PassedExitClosesTicket ==
    \A s \in SessionIds :
        sessions[s].status = "PASSED" /\ ~IsEntry(s) /\ sessions[s].ticket # 0 =>
            tickets[sessions[s].ticket].status = "CLOSED"

\* An approved exit that has reached its writes can complete them: the ticket closes, the
\* presence clears and the session passes (processApprovedExitTx, markExitPassEffectsTx).
ApprovedExitCommits ==
    \A c \in Clients :
        LET r == req[c]
        IN  (\/ r.op = "resolve" /\ r.phase = "snap" /\ ApprovesExit(r)
             \/ r.op = "approve" /\ ~IsEntry(r.session) /\ r.exitTicket # 0)
            => ~ClearRaises(r.exitTicket, r.plate)

\* The barrier was only ever commanded for a session that got its approval: such a
\* session is never found waiting for a read, a decision or a payment again.
BarrierOnlyAfterApproval ==
    \A s \in SessionIds : \A reason \in Reasons :
        commands[s][reason] > 0 =>
            sessions[s].status \in {"APPROVED"} \cup TerminalStatuses

\* The barrier is commanded at most once per session and reason, whichever of decision,
\* override and operator approve it and how often, until the passage is confirmed:
\* confirmGateSessionPass alone does not look for a command (ensureBarrierOpenCommandTx
\* does), so under the reason its client words there may be a second one, and no third.
ConfirmAloneRepeats ==
    \A s \in SessionIds : \A reason, other \in Reasons :
        /\ commands[s][reason] <= 2
        /\ commands[s][reason] > 1 => sessions[s].status = "PASSED"
        /\ commands[s][reason] > 1 /\ commands[s][other] > 1 => reason = other

\* Seen from outside, sessions follow the transition table one at a time per lane.
Lifecycle == INSTANCE SessionLifecycle WITH
    status <- [s \in SessionIds |-> sessions[s].status],
    lane <- [s \in SessionIds |-> sessions[s].lane]
RefinesLifecycle == Lifecycle!Spec

\* A terminal session keeps its status forever (session.ts TRANSITIONS).
TerminalStays ==
    \A s \in SessionIds :
        sessions[s].status \in TerminalStatuses =>
            sessions'[s].status = sessions[s].status
TerminalFinal == [][TerminalStays]_vars

\* openGateSession times out only sessions whose last read lies before its window.
OnlyStaleExpire ==
    [][\A s \in SessionIds :
          IsActive(s) /\ sessions'[s].status = "TIMEOUT" =>
              \E c \in Clients :
                  /\ req[c].op = "open" /\ req[c].lane = sessions[s].lane
                  /\ sessions[s].lastRead < req[c].now - Window]_vars

-----------------------------------------------------------------------------
(* What holds however the requests interleave.                             *)

\* No session is recorded as passed without a command that opened its barrier.
PassedHasBarrier ==
    \A s \in SessionIds :
        sessions[s].status = "PASSED" => \E reason \in Reasons : commands[s][reason] > 0

EntryCommanded(s) == \E reason \in EntryReasons : commands[s][reason] > 0

\* A vehicle is counted as inside only on behalf of a session whose barrier was commanded
\* for an entry, and a ticket exists only for such a session.
EntryRowsHaveBarrier ==
    /\ \A i \in PresenceIds :
           presence[i].status # "ABSENT" => EntryCommanded(presence[i].session)
    /\ \A t \in SessionIds : tickets[t].status # "ABSENT" => EntryCommanded(t)

=============================================================================

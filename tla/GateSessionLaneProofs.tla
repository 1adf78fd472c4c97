------------------------ MODULE GateSessionLaneProofs -------------------------
(***************************************************************************)
(* Proofs about GateSession for any number of concurrent clients, lanes,   *)
(* plates and rows, when the requests on one lane take turns: the          *)
(* guarantees that overlapping requests on a lane break, and that sessions *)
(* implement SessionLifecycle.                                             *)
(*                                                                         *)
(* A handler re-checks nothing after its await.  What it read is still so  *)
(* when it writes (Fits) because whatever else commits meanwhile works on  *)
(* another lane and stays there (StaysIn).                                 *)
(***************************************************************************)
EXTENDS GateSessionProofs

\* The lane that a request works on.
LaneOf(r) ==
    CASE r.op = "open" -> r.lane
      [] r.op = "claim" -> sessions[reviews[r.review].session].lane
      [] OTHER -> sessions[r.session].lane

\* No two requests in flight work on the same lane: what withLaneLock of lib/lane-lock.ts
\* would give, a lock the session routes do not take.
LanesApart ==
    \A c, d \in Clients :
        c # d /\ ~IsIdle(c) /\ ~IsIdle(d) => LaneOf(req[c]) # LaneOf(req[d])

ManualOps == {"approve", "reject", "openBarrier"}

\* What a transaction's snapshot held of the reviews and the commands of session s is
\* still so, and the ticket it held still exists.
StillSeen(s, reason, withReview, seen) ==
    /\ withReview => IsLiveReviewOf(s, seen.review)
    /\ reason \in Reasons => seen.opened = (commands[s][reason] > 0)
    /\ seen.ticket # 0 => tickets[seen.ticket].status # "ABSENT"

\* What a resolve will write still fits the session it read.
ResolveFits(r) ==
    LET s == r.session
        status == sessions[s].status
    IN  /\ CanMove(status, r.next)
        /\ r.action = "NONE" =>
               /\ r.exitTicket = 0
               /\ r.next = status \/ r.next \in {"WAITING_READ", "WAITING_DECISION"}
        /\ r.action # "NONE" => r.next = DecisionActionToStatus(r.action)
        /\ IF r.exitTicket = 0 THEN r.ticket = sessions[s].ticket
           ELSE r.ticket = r.exitTicket /\ tickets[r.exitTicket].status # "ABSENT"
        /\ r.phase = "snap" => StillSeen(s, r.reason, Queues(r), r.seen)

\* What a manual operation will write still fits the session it read.
ManualFits(r) ==
    LET s == r.session
        row == sessions[s]
    IN  /\ RequiredAction(r.op) \in AllowedActions(row.status)
        /\ CanMove(row.status, ManualStatus(r.op))
        /\ r.exitTicket = row.ticket
        /\ StillSeen(s, r.reason, TRUE, r.seen)

\* The rows that a request to open on the lane must sweep.
StaleRows(lane, now) ==
    {s \in SessionIds : /\ IsActive(s) /\ sessions[s].lane = lane
                        /\ ~ShouldReuse(sessions[s].lastRead, now, Window)}

\* What request r read before its await is still so.
Fits(r) ==
    /\ r.op = "open" => r.stale = StaleRows(r.lane, r.now)
    /\ r.op = "resolve" => ResolveFits(r)
    /\ r.op = "confirm" =>
           /\ sessions[r.session].status = "APPROVED"
           /\ r.ticket = sessions[r.session].ticket
    /\ r.op = "cancel" => IsActive(r.session)
    /\ r.op \in ManualOps => ManualFits(r)
    /\ r.op = "claim" => IsLive(r.review)

\* A session's ticket exists.
TicketKnown ==
    \A s \in SessionIds :
        sessions[s].ticket # 0 => tickets[sessions[s].ticket].status # "ABSENT"

\* A live review belongs to an existing session.
ReviewKnown ==
    \A v \in ReviewIds :
        IsLive(v) => /\ reviews[v].session \in SessionIds
                     /\ sessions[reviews[v].session].status # "ABSENT"

SessionsOk == OneActivePerLane
CommandsOk == BarrierOnlyAfterApproval /\ ConfirmAloneRepeats
ReviewsOk == PaymentHoldIsQueued /\ OneLiveReview /\ ReviewKnown
TicketsOk == PassedExitClosesTicket /\ TicketKnown

TablesOk == SessionsOk /\ CommandsOk /\ ReviewsOk /\ TicketsOk

AInv == IInv /\ TablesOk /\ \A c \in Clients : Fits(req[c])

-----------------------------------------------------------------------------
(* The transition table.                                                   *)

\* The step of a session's status: along the table, or through its approval to PASSED.
Moves(from, to) ==
    \/ to = from
    \/ to # "TIMEOUT" /\ CanMove(from, to)
    \/ to = "PASSED" /\ CanMove(from, "APPROVED")

Approved == {"APPROVED"} \cup TerminalStatuses

LEMMA MoveFacts ==
    ASSUME NEW from \in Statuses, NEW to \in Statuses, Moves(from, to)
    PROVE  /\ from \in TerminalStatuses => to = from
           /\ to \in ActiveStatuses => from \in ActiveStatuses
           /\ from \in Approved => to \in Approved
           /\ to = "TIMEOUT" => from = "TIMEOUT"
BY DEF Moves, CanMove, Transitions, Abandon, Approved, Statuses, ActiveStatuses, TerminalStatuses

\* Only an active session offers an action.
LEMMA AllowedFacts ==
    ASSUME NEW status, NEW action \in AllowedActions(status)
    PROVE  status \in ActiveStatuses
BY DEF AllowedActions, ActiveStatuses

-----------------------------------------------------------------------------
(* The parts of a step that writes session s.                              *)

\* One session row is rewritten, and its status moves.
Rewrites(s, row) ==
    /\ s \in SessionIds /\ row \in SessionRow
    /\ sessions[s].status \in Statuses /\ row.status \in Statuses
    /\ sessions' = SessionSet(s, row) /\ row.lane = sessions[s].lane
    /\ Moves(sessions[s].status, row.status)

LEMMA RewriteFacts ==
    ASSUME TypeOK, NEW s, NEW row, Rewrites(s, row)
    PROVE  /\ sessions'[s] = row /\ \A k \in SessionIds \ {s} : sessions'[k] = sessions[k]
           /\ \A k \in SessionIds : sessions'[k].lane = sessions[k].lane
           /\ \A k \in SessionIds : sessions[k].status \in TerminalStatuses =>
                  sessions'[k].status = sessions[k].status
           /\ \A k \in SessionIds : IsActive(k)' => IsActive(k)
           /\ \A k \in SessionIds :
                  sessions[k].status # "ABSENT" => sessions'[k].status # "ABSENT"
<1>1. /\ s \in SessionIds /\ sessions'[s] = row
      /\ \A k \in SessionIds \ {s} : sessions'[k] = sessions[k]
  BY DEF Rewrites, SessionSet, TypeOK
<1>2. row.lane = sessions[s].lane
  BY DEF Rewrites
<1>3. /\ sessions[s].status \in TerminalStatuses => row.status = sessions[s].status
      /\ row.status \in ActiveStatuses => sessions[s].status \in ActiveStatuses
  BY MoveFacts DEF Rewrites
<1>4. row.status # "ABSENT"
  BY DEF Rewrites, Statuses, ActiveStatuses, TerminalStatuses
<1> QED  BY <1>1, <1>2, <1>3, <1>4 DEF IsActive

LEMMA SessionsPart ==
    ASSUME TypeOK, SessionsOk, NEW s, NEW row, Rewrites(s, row)
    PROVE  SessionsOk'
BY RewriteFacts DEF SessionsOk, OneActivePerLane, IsActive

\* No command, or one for a session that is now approved or passed.
LEMMA QuietCommands ==
    ASSUME TypeOK, CommandsOk, NEW s, NEW row, Rewrites(s, row), UNCHANGED commands
    PROVE  CommandsOk'
<1>1. sessions[s].status \in Approved => row.status \in Approved
  BY MoveFacts DEF Rewrites
<1>2. BarrierOnlyAfterApproval'
  BY <1>1, RewriteFacts DEF CommandsOk, BarrierOnlyAfterApproval, Approved
<1>3. ConfirmAloneRepeats'
  BY RewriteFacts DEF CommandsOk, ConfirmAloneRepeats, TerminalStatuses
<1> QED  BY <1>2, <1>3 DEF CommandsOk

\* One more command, as far as the counter goes.
LEMMA CommandCounted ==
    ASSUME TypeOK, NEW s \in SessionIds, NEW reason \in Reasons,
           commands' = CommandAdded(s, reason)
    PROVE  /\ \A k \in SessionIds : \A any \in Reasons :
                 k # s \/ any # reason => commands'[k][any] = commands[k][any]
           /\ commands[s][reason] \in Nat
           /\ commands'[s][reason] \in {commands[s][reason], commands[s][reason] + 1}
           /\ commands[s][reason] = 0 => commands'[s][reason] = 1
<1> DEFINE n == IF commands[s][reason] < MaxCommands THEN commands[s][reason] + 1
                                                     ELSE commands[s][reason]
<1>1. /\ commands' = [commands EXCEPT ![s] = [commands[s] EXCEPT ![reason] = n]]
      /\ commands[s] \in [Reasons -> 0..MaxCommands] /\ commands[s][reason] \in 0..MaxCommands
  BY DEF CommandAdded, TypeOK
<1>2. n \in {commands[s][reason], commands[s][reason] + 1} /\ (commands[s][reason] = 0 => n = 1)
  BY <1>1, CommandAssumption
<1> HIDE DEF n
<1>3. commands'[s][reason] = n
  BY <1>1 DEF TypeOK
<1>4. \A k \in SessionIds : \A any \in Reasons :
          k # s \/ any # reason => commands'[k][any] = commands[k][any]
  BY <1>1 DEF TypeOK
<1> QED  BY <1>1, <1>2, <1>3, <1>4

\* A command of a reason that the session had none of.
LEMMA NewCommand ==
    ASSUME TypeOK, CommandsOk, NEW s, NEW row, Rewrites(s, row), NEW reason \in Reasons,
           row.status \in {"APPROVED", "PASSED"},
           commands' = commands \/ (commands[s][reason] = 0 /\ commands' = CommandAdded(s, reason))
    PROVE  CommandsOk'
<1>1. s \in SessionIds
  BY DEF Rewrites
<1>2. CASE commands' = commands
  BY <1>2, QuietCommands
<1>3. CASE commands[s][reason] = 0 /\ commands' = CommandAdded(s, reason)
  <2>1. \A k \in SessionIds : \A any \in Reasons :
            commands'[k][any] = IF k = s /\ any = reason THEN 1 ELSE commands[k][any]
    BY <1>1, <1>3, CommandCounted
  <2>2. sessions'[s].status = row.status /\ row.status \in Approved
    BY RewriteFacts DEF Approved, TerminalStatuses
  <2>3. \A k \in SessionIds : sessions[k].status \in Approved => sessions'[k].status \in Approved
    <3>1. sessions[s].status \in Approved => row.status \in Approved
      BY MoveFacts DEF Rewrites
    <3> QED  BY <3>1, RewriteFacts
  <2>4. BarrierOnlyAfterApproval'
    BY <2>1, <2>2, <2>3 DEF CommandsOk, BarrierOnlyAfterApproval, Approved
  <2>5. \A k \in SessionIds : sessions[k].status = "PASSED" => sessions'[k].status = "PASSED"
    BY RewriteFacts DEF TerminalStatuses
  <2>6. ConfirmAloneRepeats'
    BY <2>1, <2>5 DEF CommandsOk, ConfirmAloneRepeats
  <2> QED  BY <2>4, <2>6 DEF CommandsOk
<1> QED  BY <1>2, <1>3

\* The confirmation of an approved session adds a command of any reason.
LEMMA ConfirmCommand ==
    ASSUME TypeOK, CommandsOk, NEW s, NEW row, Rewrites(s, row), NEW reason \in Reasons,
           sessions[s].status = "APPROVED", row.status = "PASSED",
           commands' = CommandAdded(s, reason)
    PROVE  CommandsOk'
<1>1. /\ s \in SessionIds /\ sessions'[s].status = "PASSED"
      /\ \A k \in SessionIds \ {s} : sessions'[k] = sessions[k]
  BY RewriteFacts DEF Rewrites
<1>2. /\ \A k \in SessionIds : \A any \in Reasons :
            k # s \/ any # reason => commands'[k][any] = commands[k][any]
      /\ commands[s][reason] \in Nat
      /\ commands'[s][reason] \in {commands[s][reason], commands[s][reason] + 1}
  BY <1>1, CommandCounted
<1>3. \A any \in Reasons : ~(commands[s][any] > 1)
  BY <1>1 DEF CommandsOk, ConfirmAloneRepeats
<1>4. BarrierOnlyAfterApproval'
  BY <1>1, <1>2 DEF CommandsOk, BarrierOnlyAfterApproval, TerminalStatuses
<1>5. commands'[s][reason] <= 2
  BY <1>2, <1>3
<1>6. ConfirmAloneRepeats'
  <2> SUFFICES ASSUME NEW k \in SessionIds, NEW any \in Reasons, NEW other \in Reasons
               PROVE  (/\ commands[k][any] <= 2
                       /\ commands[k][any] > 1 => sessions[k].status = "PASSED"
                       /\ commands[k][any] > 1 /\ commands[k][other] > 1 => any = other)'
    BY DEF ConfirmAloneRepeats
  <2>1. CASE k # s
    BY <1>1, <1>2, <2>1 DEF CommandsOk, ConfirmAloneRepeats
  <2>2. CASE k = s
    <3>1. commands[s][any] <= 2
      BY <1>1 DEF CommandsOk, ConfirmAloneRepeats
    <3> QED  BY <1>1, <1>2, <1>3, <1>5, <2>2, <3>1
  <2> QED  BY <2>1, <2>2
<1> QED  BY <1>4, <1>6 DEF CommandsOk

\* What the snapshot shows of the command is how it is.
LEMMA EnsuredCommand ==
    ASSUME TypeOK, NEW s \in SessionIds, NEW reason \in Reasons, NEW seen,
           seen.opened \/ commands[s][reason] = 0,
           commands' = CommandEnsured(s, reason, seen)
    PROVE  commands' = commands \/ (commands[s][reason] = 0 /\ commands' = CommandAdded(s, reason))
BY DEF CommandEnsured

-----------------------------------------------------------------------------
(* Reviews.                                                                *)

LEMMA QuietReviews ==
    ASSUME TypeOK, ReviewsOk, NEW s, NEW row, Rewrites(s, row), UNCHANGED reviews,
           row.status = "WAITING_PAYMENT" => sessions[s].status = "WAITING_PAYMENT"
    PROVE  ReviewsOk'
BY RewriteFacts DEF ReviewsOk, PaymentHoldIsQueued, OneLiveReview, ReviewKnown, IsLive

\* A new review row.
LEMMA Created ==
    ASSUME TypeOK, NEW s, NEW status, CreateReview(s, status)
    PROVE  \E v \in ReviewIds :
              /\ reviews[v].status = "ABSENT"
              /\ reviews'[v].status = status /\ reviews'[v].session = s
              /\ \A w \in ReviewIds \ {v} : reviews'[w] = reviews[w]
BY DEF CreateReview, IsNext, TypeOK

LEMMA QueuedReviews ==
    ASSUME TypeOK, ReviewsOk, NEW s, NEW row, Rewrites(s, row), NEW seen \in Seen,
           IsLiveReviewOf(s, seen.review), QueueReview(s, seen)
    PROVE  ReviewsOk'
<1>1. CASE seen.review # 0
  <2>1. seen.review \in ReviewIds /\ reviews' = reviews
    BY <1>1 DEF Seen, OrNull, QueueReview
  <2>2. IsLive(seen.review) /\ reviews[seen.review].session = s
    BY <1>1 DEF IsLiveReviewOf
  <2> QED
    BY <2>1, <2>2, RewriteFacts DEF ReviewsOk, PaymentHoldIsQueued, OneLiveReview, ReviewKnown,
                                    IsLive
<1>2. CASE seen.review = 0
  <2>1. \A w \in ReviewIds : reviews[w].session = s => ~IsLive(w)
    BY <1>2 DEF IsLiveReviewOf
  <2>2. PICK v \in ReviewIds :
            /\ reviews[v].status = "ABSENT"
            /\ reviews'[v].status = "OPEN" /\ reviews'[v].session = s
            /\ \A w \in ReviewIds \ {v} : reviews'[w] = reviews[w]
    BY <1>2, Created DEF QueueReview
  <2>3. OneLiveReview'
    BY <2>1, <2>2 DEF ReviewsOk, OneLiveReview, IsLive
  <2>4. PaymentHoldIsQueued'
    BY <2>2, RewriteFacts DEF ReviewsOk, PaymentHoldIsQueued, IsLive
  <2>5. ReviewKnown'
    BY <2>2, RewriteFacts DEF ReviewsOk, ReviewKnown, IsLive, Rewrites, Statuses,
       ActiveStatuses, TerminalStatuses
  <2> QED  BY <2>3, <2>4, <2>5 DEF ReviewsOk
<1> QED  BY <1>1, <1>2

LEMMA ResolvedReviews ==
    ASSUME TypeOK, ReviewsOk, NEW s, NEW row, Rewrites(s, row), NEW seen \in Seen,
           IsLiveReviewOf(s, seen.review), ResolveReview(s, seen),
           row.status # "WAITING_PAYMENT"
    PROVE  ReviewsOk'
<1>1. PICK v \in ReviewIds :
          /\ reviews[v].status = "ABSENT" \/ reviews[v].session = s
          /\ reviews'[v].status = "RESOLVED"
          /\ \A w \in ReviewIds \ {v} : reviews'[w] = reviews[w]
  <2>1. CASE seen.review # 0
    <3>1. seen.review \in ReviewIds
      BY <2>1 DEF Seen, OrNull
    <3>2. reviews[seen.review].session = s
      BY <2>1 DEF IsLiveReviewOf
    <3>3. reviews' = [reviews EXCEPT ![seen.review].status = "RESOLVED"]
      BY <2>1 DEF ResolveReview
    <3>4. /\ reviews'[seen.review].status = "RESOLVED"
          /\ \A w \in ReviewIds \ {seen.review} : reviews'[w] = reviews[w]
      BY <3>1, <3>3 DEF TypeOK, ReviewRow
    <3> QED  BY <3>1, <3>2, <3>4
  <2>2. CASE seen.review = 0
    BY <2>2, Created DEF ResolveReview
  <2> QED  BY <2>1, <2>2
<1>2. OneLiveReview'
  BY <1>1 DEF ReviewsOk, OneLiveReview, IsLive
<1>3. PaymentHoldIsQueued'
  BY <1>1, RewriteFacts DEF ReviewsOk, PaymentHoldIsQueued, IsLive
<1>4. ReviewKnown'
  BY <1>1, RewriteFacts DEF ReviewsOk, ReviewKnown, IsLive
<1> QED  BY <1>2, <1>3, <1>4 DEF ReviewsOk

-----------------------------------------------------------------------------
(* Tickets and presence.                                                   *)

LEMMA QuietTickets ==
    ASSUME TypeOK, TicketsOk, NEW s, NEW row, Rewrites(s, row), UNCHANGED tickets,
           row.ticket # 0 => tickets[row.ticket].status # "ABSENT",
           row.status = "PASSED" =>
               IsEntry(s) \/ (sessions[s].status = "PASSED" /\ row.ticket = sessions[s].ticket)
    PROVE  TicketsOk'
<1>1. s \in SessionIds
  BY DEF Rewrites
<1>2. PassedExitClosesTicket'
  BY <1>1, RewriteFacts DEF TicketsOk, PassedExitClosesTicket, IsEntry
<1>3. TicketKnown'
  BY <1>1, RewriteFacts DEF TicketsOk, TicketKnown
<1> QED  BY <1>2, <1>3 DEF TicketsOk

\* The entry's ticket exists, and no existing ticket changes.
LEMMA OpenedTicket ==
    ASSUME TypeOK, NEW s \in SessionIds, NEW plate \in AnyPlate, NEW seen \in Seen,
           seen.ticket # 0 => tickets[seen.ticket].status # "ABSENT",
           CreateOrGetTicket(s, plate, seen)
    PROVE  /\ EntryTicket(s, seen) \in SessionIds
           /\ tickets'[EntryTicket(s, seen)].status # "ABSENT"
           /\ \A k \in SessionIds : tickets[k].status # "ABSENT" => tickets'[k] = tickets[k]
<1>1. CASE seen.ticket # 0
  BY <1>1 DEF Seen, OrNull, EntryTicket, CreateOrGetTicket
<1>2. CASE seen.ticket = 0
  BY <1>2 DEF EntryTicket, CreateOrGetTicket, TypeOK
<1> QED  BY <1>1, <1>2

LEMMA EntryTickets ==
    ASSUME TypeOK, TicketsOk, NEW s, NEW row, Rewrites(s, row),
           NEW plate \in AnyPlate, NEW seen \in Seen,
           seen.ticket # 0 => tickets[seen.ticket].status # "ABSENT",
           CreateOrGetTicket(s, plate, seen),
           row.status # "PASSED", row.ticket = EntryTicket(s, seen)
    PROVE  TicketsOk'
<1> DEFINE t == EntryTicket(s, seen)
<1>1. /\ s \in SessionIds /\ t \in SessionIds /\ tickets'[t].status # "ABSENT"
      /\ \A k \in SessionIds : tickets[k].status # "ABSENT" => tickets'[k] = tickets[k]
  BY OpenedTicket DEF Rewrites
<1>2. row.ticket = t
  OBVIOUS
<1> HIDE DEF t
<1>3. \A k \in SessionIds :
          sessions[k].ticket # 0 => tickets'[sessions[k].ticket] = tickets[sessions[k].ticket]
  BY <1>1, Typed DEF TicketsOk, TicketKnown, OrNull
<1>4. TicketKnown'
  BY <1>1, <1>2, <1>3, RewriteFacts DEF TicketsOk, TicketKnown
<1>5. PassedExitClosesTicket'
  BY <1>1, <1>3, RewriteFacts DEF TicketsOk, PassedExitClosesTicket, IsEntry
<1> QED  BY <1>4, <1>5 DEF TicketsOk

LEMMA ExitTickets ==
    ASSUME TypeOK, TicketsOk, NEW s, NEW row, Rewrites(s, row),
           NEW t \in OrNull(SessionIds), t # 0 => tickets[t].status # "ABSENT",
           tickets' = TicketClosed(t), row.ticket = t
    PROVE  TicketsOk'
<1>1. s \in SessionIds /\ 0 \notin SessionIds
  BY IdAssumption DEF Rewrites
<1>2. \A k \in SessionIds :
          tickets'[k].status = IF k = t /\ tickets[k].status = "OPEN" THEN "CLOSED"
                               ELSE tickets[k].status
  BY <1>1 DEF TicketClosed, TypeOK, TicketRow, OrNull
<1>3. TicketKnown'
  BY <1>1, <1>2, Typed, RewriteFacts DEF TicketsOk, TicketKnown, OrNull
<1>4. t # 0 => tickets'[t].status = "CLOSED"
  BY <1>1, <1>2 DEF OrNull, TypeOK, TicketRow
<1>5. \A k \in SessionIds : tickets[k].status = "CLOSED" => tickets'[k].status = "CLOSED"
  BY <1>2
<1>6. PassedExitClosesTicket'
  BY <1>1, <1>4, <1>5, Typed, RewriteFacts DEF TicketsOk, PassedExitClosesTicket, IsEntry, OrNull
<1> QED  BY <1>3, <1>6 DEF TicketsOk

-----------------------------------------------------------------------------
(* Requests.                                                               *)

\* What a resolve does to the status and the ticket of its session.
LEMMA ResolveMoves ==
    ASSUME AInv, NEW c \in Clients, req[c].op = "resolve"
    PROVE  LET r == req[c]
               s == r.session
           IN  /\ s \in SessionIds /\ sessions[s].status \in Statuses /\ r.next \in Statuses
               /\ Moves(sessions[s].status, r.next)
               /\ r.action = "APPROVE" =>
                      r.next = "APPROVED" /\ Moves(sessions[s].status, "PASSED")
               /\ r.next = "WAITING_PAYMENT" =>
                      sessions[s].status = "WAITING_PAYMENT" \/ r.action = "PAYMENT_HOLD"
               /\ r.next = "PASSED" =>
                      sessions[s].status = "PASSED" /\ r.ticket = sessions[s].ticket
               /\ r.ticket # 0 => tickets[r.ticket].status # "ABSENT"
<1> DEFINE r == req[c]
           s == r.session
<1>1. /\ s \in SessionIds /\ sessions[s].status \in Statuses /\ r.next \in Statuses
      /\ sessions[s] \in SessionRow
  BY Working DEF AInv
<1>2. ResolveFits(r) /\ TicketKnown
  BY DEF AInv, Fits, TablesOk, TicketsOk
<1>3. r.action \in FinalActions \cup {"NONE"}
  BY DEF AInv, IInv, TypeOK, Request
<1>4. CASE r.action = "NONE"
  <2>1. /\ CanMove(sessions[s].status, r.next) /\ r.ticket = sessions[s].ticket
        /\ r.next = sessions[s].status \/ r.next \in {"WAITING_READ", "WAITING_DECISION"}
    BY <1>2, <1>4 DEF ResolveFits
  <2> QED  BY <1>1, <1>2, <1>4, <2>1 DEF Moves, TicketKnown
<1>5. CASE r.action # "NONE"
  <2>1. CanMove(sessions[s].status, r.next) /\ r.next = DecisionActionToStatus(r.action)
    BY <1>2, <1>5 DEF ResolveFits
  <2>2. /\ r.next \notin {"TIMEOUT", "PASSED"}
        /\ r.next = "WAITING_PAYMENT" => r.action = "PAYMENT_HOLD"
        /\ r.action = "APPROVE" => r.next = "APPROVED"
    BY <1>3, <1>5, <2>1 DEF DecisionActionToStatus, FinalActions
  <2>3. r.ticket # 0 => tickets[r.ticket].status # "ABSENT"
    BY <1>1, <1>2 DEF ResolveFits, TicketKnown
  <2> QED  BY <1>1, <2>1, <2>2, <2>3 DEF Moves
<1> QED  BY <1>4, <1>5

LEMMA ResolvedRewrites ==
    ASSUME AInv, NEW c \in Clients, req[c].op = "resolve",
           sessions' = SessionSet(req[c].session, ResolvedRow(req[c]))
    PROVE  /\ Rewrites(req[c].session, ResolvedRow(req[c]))
           /\ ResolvedRow(req[c]).status = req[c].next /\ ResolvedRow(req[c]).ticket = req[c].ticket
<1>1. /\ ResolvedRow(req[c]) \in SessionRow /\ ResolvedRow(req[c]).status = req[c].next
      /\ ResolvedRow(req[c]).lane = sessions[req[c].session].lane
  BY ResolvedRowFacts DEF AInv
<1>2. sessions[req[c].session] \in SessionRow
  BY Working DEF AInv
<1>3. ResolvedRow(req[c]).ticket = req[c].ticket
  BY <1>2 DEF ResolvedRow, SessionRow
<1> QED  BY <1>1, <1>3, ResolveMoves DEF Rewrites

\* The approval of an entry: the same row with the entry's ticket.
LEMMA ResolveEntryRewrites ==
    ASSUME AInv, NEW c \in Clients, ResolveEntry(c)
    PROVE  LET row == [ResolvedRow(req[c]) EXCEPT
                          !.ticket = EntryTicket(req[c].session, req[c].seen)]
           IN  /\ Rewrites(req[c].session, row) /\ row.status = "APPROVED"
               /\ row.ticket = EntryTicket(req[c].session, req[c].seen)
<1> DEFINE t == EntryTicket(req[c].session, req[c].seen)
           row == [ResolvedRow(req[c]) EXCEPT !.ticket = t]
<1>1. /\ req[c].op = "resolve" /\ req[c].action = "APPROVE"
      /\ sessions' = SessionSet(req[c].session, row)
  BY DEF ResolveEntry, ApprovesEntry
<1>2. /\ ResolvedRow(req[c]) \in SessionRow /\ ResolvedRow(req[c]).status = req[c].next
      /\ ResolvedRow(req[c]).lane = sessions[req[c].session].lane
  BY <1>1, ResolvedRowFacts DEF AInv
<1>3. t \in OrNull(SessionIds)
  BY <1>1, Working DEF AInv
<1> HIDE DEF t
<1>4. /\ row \in SessionRow /\ row.ticket = t /\ row.status = req[c].next
      /\ row.lane = sessions[req[c].session].lane
  BY <1>2, <1>3 DEF SessionRow
<1>5. req[c].next = "APPROVED"
  BY <1>1, ResolveMoves
<1> HIDE DEF row
<1>6. Rewrites(req[c].session, row)
  BY <1>1, <1>4, ResolveMoves DEF Rewrites
<1> QED  BY <1>4, <1>5, <1>6 DEF row, t

\* The approval of an exit passes the session with the ticket of the decision.
LEMMA ResolveExitRewrites ==
    ASSUME AInv, NEW c \in Clients, ResolveExit(c)
    PROVE  LET row == [ResolvedRow(req[c]) EXCEPT !.status = "PASSED",
                                                  !.ticket = req[c].exitTicket]
           IN  /\ Rewrites(req[c].session, row) /\ row.status = "PASSED"
               /\ row.ticket = req[c].exitTicket
<1> DEFINE row == [ResolvedRow(req[c]) EXCEPT !.status = "PASSED", !.ticket = req[c].exitTicket]
<1>1. /\ req[c].op = "resolve" /\ req[c].action = "APPROVE"
      /\ sessions' = SessionSet(req[c].session, row)
  BY DEF ResolveExit, ApprovesExit
<1>2. /\ ResolvedRow(req[c]) \in SessionRow
      /\ ResolvedRow(req[c]).lane = sessions[req[c].session].lane
  BY <1>1, ResolvedRowFacts DEF AInv
<1>3. req[c].exitTicket \in OrNull(SessionIds) /\ "PASSED" \in Statuses
  BY <1>1, Working DEF AInv, Statuses, TerminalStatuses
<1>4. /\ row \in SessionRow /\ row.ticket = req[c].exitTicket /\ row.status = "PASSED"
      /\ row.lane = sessions[req[c].session].lane
  BY <1>2, <1>3 DEF SessionRow
<1> HIDE DEF row
<1>5. Rewrites(req[c].session, row)
  BY <1>1, <1>3, <1>4, ResolveMoves DEF Rewrites
<1> QED  BY <1>4, <1>5 DEF row

\* The manual operations.
LEMMA ManualMoves ==
    ASSUME AInv, NEW c \in Clients, req[c].op \in ManualOps
    PROVE  LET r == req[c]
               s == r.session
           IN  /\ s \in SessionIds /\ sessions[s].status \in Statuses /\ sessions[s] \in SessionRow
               /\ sessions[s].status \in ActiveStatuses
               /\ ManualRow(r) \in SessionRow /\ ManualRow(r).lane = sessions[s].lane
               /\ ManualRow(r).status = ManualStatus(r.op)
               /\ ManualRow(r).ticket = sessions[s].ticket /\ r.exitTicket = sessions[s].ticket
               /\ Moves(sessions[s].status, ManualStatus(r.op))
               /\ r.op # "reject" =>
                      ManualStatus(r.op) = "APPROVED" /\ Moves(sessions[s].status, "PASSED")
               /\ r.exitTicket # 0 => tickets[r.exitTicket].status # "ABSENT"
<1> DEFINE r == req[c]
           s == r.session
<1>1. s \in SessionIds /\ sessions[s].status \in Statuses /\ sessions[s] \in SessionRow
  BY Working DEF AInv, ManualOps
<1>2. ManualFits(r) /\ TicketKnown
  BY DEF AInv, Fits, TablesOk, TicketsOk
<1>3. ManualRow(r) \in SessionRow /\ ManualRow(r).lane = sessions[s].lane
  BY ManualRowFacts DEF AInv, ManualOps
<1>4. ManualRow(r).status = ManualStatus(r.op) /\ ManualRow(r).ticket = sessions[s].ticket
  BY <1>1 DEF ManualRow, SessionRow
<1>5. sessions[s].status \in ActiveStatuses
  BY <1>2, AllowedFacts DEF ManualFits
<1>6. r.op # "reject" => ManualStatus(r.op) = "APPROVED"
  BY DEF ManualStatus
<1>7. CanMove(sessions[s].status, ManualStatus(r.op)) /\ r.exitTicket = sessions[s].ticket
  BY <1>2 DEF ManualFits
<1>8. ManualStatus(r.op) # "TIMEOUT"
  BY DEF ManualStatus
<1>9. r.exitTicket # 0 => tickets[r.exitTicket].status # "ABSENT"
  BY <1>1, <1>2, <1>7 DEF TicketKnown
<1> QED  BY <1>1, <1>3, <1>4, <1>5, <1>6, <1>7, <1>8, <1>9 DEF Moves

LEMMA ManualRewrites ==
    ASSUME AInv, NEW c \in Clients, req[c].op \in ManualOps,
           sessions' = SessionSet(req[c].session, ManualRow(req[c]))
    PROVE  Rewrites(req[c].session, ManualRow(req[c]))
BY ManualMoves DEF Rewrites, SessionRow, ManualStatus, Statuses, ActiveStatuses, TerminalStatuses

LEMMA ApproveEntryRewrites ==
    ASSUME AInv, NEW c \in Clients, ApproveEntry(c)
    PROVE  LET row == [ManualRow(req[c]) EXCEPT
                          !.ticket = EntryTicket(req[c].session, req[c].seen)]
           IN  /\ Rewrites(req[c].session, row) /\ row.status = "APPROVED"
               /\ row.ticket = EntryTicket(req[c].session, req[c].seen)
<1> DEFINE t == EntryTicket(req[c].session, req[c].seen)
           row == [ManualRow(req[c]) EXCEPT !.ticket = t]
<1>1. req[c].op = "approve" /\ sessions' = SessionSet(req[c].session, row)
  BY DEF ApproveEntry
<1>2. req[c].op \in ManualOps /\ req[c].op # "reject"
  BY <1>1 DEF ManualOps
<1>3. t \in OrNull(SessionIds) /\ "APPROVED" \in Statuses
  BY <1>1, Working DEF AInv, Statuses, ActiveStatuses
<1> HIDE DEF t
<1>4. /\ row \in SessionRow /\ row.ticket = t /\ row.status = "APPROVED"
      /\ row.lane = sessions[req[c].session].lane
  BY <1>2, <1>3, ManualMoves DEF SessionRow
<1> HIDE DEF row
<1>5. Rewrites(req[c].session, row)
  BY <1>1, <1>2, <1>3, <1>4, ManualMoves DEF Rewrites
<1> QED  BY <1>4, <1>5 DEF row, t

LEMMA ApproveExitRewrites ==
    ASSUME AInv, NEW c \in Clients, ApproveExit(c)
    PROVE  LET row == [ManualRow(req[c]) EXCEPT !.status = "PASSED", !.ticket = req[c].exitTicket]
           IN  /\ Rewrites(req[c].session, row) /\ row.status = "PASSED"
               /\ row.ticket = req[c].exitTicket
<1> DEFINE row == [ManualRow(req[c]) EXCEPT !.status = "PASSED", !.ticket = req[c].exitTicket]
<1>1. req[c].op = "approve" /\ sessions' = SessionSet(req[c].session, row)
  BY DEF ApproveExit
<1>2. req[c].op \in ManualOps /\ req[c].op # "reject"
  BY <1>1 DEF ManualOps
<1>3. req[c].exitTicket \in OrNull(SessionIds) /\ "PASSED" \in Statuses
  BY <1>1, Working DEF AInv, Statuses, TerminalStatuses
<1>4. /\ row \in SessionRow /\ row.ticket = req[c].exitTicket /\ row.status = "PASSED"
      /\ row.lane = sessions[req[c].session].lane
  BY <1>2, <1>3, ManualMoves DEF SessionRow
<1> HIDE DEF row
<1>5. Rewrites(req[c].session, row)
  BY <1>1, <1>2, <1>3, <1>4, ManualMoves DEF Rewrites
<1> QED  BY <1>4, <1>5 DEF row

\* The row of confirm-pass and that of a cancellation.
LEMMA ConfirmRewrites ==
    ASSUME AInv, NEW c \in Clients, ConfirmCommit(c)
    PROVE  /\ Rewrites(req[c].session, ConfirmedRow(req[c]))
           /\ ConfirmedRow(req[c]).status = "PASSED" /\ ConfirmedRow(req[c]).ticket = req[c].ticket
           /\ sessions[req[c].session].status = "APPROVED"
<1> DEFINE s == req[c].session
<1>1. req[c].op = "confirm" /\ sessions' = SessionSet(s, ConfirmedRow(req[c]))
  BY DEF ConfirmCommit
<1>2. s \in SessionIds /\ sessions[s] \in SessionRow /\ req[c].now \in Times
  BY <1>1, Working DEF AInv
<1>3. sessions[s].status = "APPROVED" /\ req[c].ticket = sessions[s].ticket
  BY <1>1 DEF AInv, Fits
<1>4. /\ ConfirmedRow(req[c]) \in SessionRow /\ ConfirmedRow(req[c]).status = "PASSED"
      /\ ConfirmedRow(req[c]).lane = sessions[s].lane
      /\ ConfirmedRow(req[c]).ticket = sessions[s].ticket
  BY <1>2 DEF ConfirmedRow, SessionRow, Statuses, TerminalStatuses
<1>5. "APPROVED" \in Statuses /\ "PASSED" \in Statuses /\ Moves("APPROVED", "PASSED")
  BY DEF Moves, CanMove, Transitions, Abandon, Statuses, ActiveStatuses, TerminalStatuses
<1> QED  BY <1>1, <1>2, <1>3, <1>4, <1>5 DEF Rewrites

LEMMA CancelRewrites ==
    ASSUME AInv, NEW c \in Clients, CancelCommit(c)
    PROVE  LET s == req[c].session
               row == [sessions[s] EXCEPT !.status = "CANCELLED"]
           IN  Rewrites(s, row) /\ row.status = "CANCELLED" /\ row.ticket = sessions[s].ticket
<1> DEFINE s == req[c].session
           row == [sessions[s] EXCEPT !.status = "CANCELLED"]
<1>1. req[c].op = "cancel" /\ sessions' = SessionSet(s, row)
  BY DEF CancelCommit
<1>2. s \in SessionIds /\ sessions[s] \in SessionRow /\ sessions[s].status \in Statuses
  BY <1>1, Working DEF AInv
<1>3. sessions[s].status \in ActiveStatuses
  BY <1>1 DEF AInv, Fits, IsActive
<1>4. "CANCELLED" \in Statuses /\ Moves(sessions[s].status, "CANCELLED")
  BY <1>3 DEF Moves, CanMove, Transitions, Abandon, Statuses, ActiveStatuses, TerminalStatuses
<1>5. /\ row \in SessionRow /\ row.status = "CANCELLED" /\ row.lane = sessions[s].lane
      /\ row.ticket = sessions[s].ticket
  BY <1>2, <1>4 DEF SessionRow
<1> HIDE DEF row
<1>6. Rewrites(s, row)
  BY <1>1, <1>2, <1>4, <1>5 DEF Rewrites
<1> QED  BY <1>5, <1>6 DEF row

-----------------------------------------------------------------------------
(* The steps that write.                                                   *)

\* What AInv says of the tables.
LEMMA Parts ==
    ASSUME AInv
    PROVE  TypeOK /\ SessionsOk /\ CommandsOk /\ ReviewsOk /\ TicketsOk
BY DEF AInv, IInv, TablesOk

LEMMA ResolvePlainWrites ==
    ASSUME AInv, NEW c \in Clients, ResolvePlain(c)
    PROVE  TablesOk'
<1> DEFINE r == req[c]
           row == ResolvedRow(r)
<1>1. /\ r.op = "resolve" /\ ~Queues(r) /\ sessions' = SessionSet(r.session, row)
      /\ UNCHANGED reviews /\ UNCHANGED commands /\ UNCHANGED tickets
  BY DEF ResolvePlain, NeedsSnapshot
<1>2. Rewrites(r.session, row) /\ row.status = r.next /\ row.ticket = r.ticket
  BY <1>1, ResolvedRewrites
<1>3. /\ r.next = "WAITING_PAYMENT" => sessions[r.session].status = "WAITING_PAYMENT"
      /\ r.next = "PASSED" =>
             sessions[r.session].status = "PASSED" /\ r.ticket = sessions[r.session].ticket
      /\ r.ticket # 0 => tickets[r.ticket].status # "ABSENT"
  BY <1>1, ResolveMoves DEF Queues
<1> HIDE DEF row
<1>4. SessionsOk' /\ CommandsOk'
  BY <1>1, <1>2, Parts, SessionsPart, QuietCommands
<1>5. ReviewsOk'
  BY <1>1, <1>2, <1>3, Parts, QuietReviews
<1>6. TicketsOk'
  BY <1>1, <1>2, <1>3, Parts, QuietTickets
<1> QED  BY <1>4, <1>5, <1>6 DEF TablesOk

\* What a resolve in its transaction saw is so.
LEMMA ResolveSaw ==
    ASSUME AInv, NEW c \in Clients, req[c].op = "resolve", req[c].phase = "snap"
    PROVE  LET r == req[c]
           IN  /\ r.seen \in Seen /\ r.plate \in AnyPlate
               /\ StillSeen(r.session, r.reason, Queues(r), r.seen)
BY Working DEF AInv, Fits, ResolveFits

LEMMA SawCommand ==
    ASSUME TypeOK, NEW s \in SessionIds, NEW reason \in Reasons, NEW withReview, NEW seen,
           StillSeen(s, reason, withReview, seen)
    PROVE  seen.opened \/ commands[s][reason] = 0
<1>1. commands[s][reason] \in Nat
  BY DEF TypeOK
<1>2. seen.opened = (commands[s][reason] > 0)
  BY DEF StillSeen
<1>3. commands[s][reason] > 0 \/ commands[s][reason] = 0
  BY <1>1
<1> QED  BY <1>2, <1>3

LEMMA ResolveQueueWrites ==
    ASSUME AInv, NEW c \in Clients, ResolveQueue(c)
    PROVE  TablesOk'
<1> DEFINE r == req[c]
           row == ResolvedRow(r)
<1>1. /\ r.op = "resolve" /\ r.phase = "snap" /\ Queues(r)
      /\ sessions' = SessionSet(r.session, row)
      /\ QueueReview(r.session, r.seen) /\ UNCHANGED commands /\ UNCHANGED tickets
  BY DEF ResolveQueue
<1>2. Rewrites(r.session, row) /\ row.status = r.next /\ row.ticket = r.ticket
  BY <1>1, ResolvedRewrites
<1>3. /\ r.next = "PASSED" =>
             sessions[r.session].status = "PASSED" /\ r.ticket = sessions[r.session].ticket
      /\ r.ticket # 0 => tickets[r.ticket].status # "ABSENT"
  BY <1>1, ResolveMoves
<1> HIDE DEF row
<1>4. SessionsOk' /\ CommandsOk'
  BY <1>1, <1>2, Parts, SessionsPart, QuietCommands
<1>5. ReviewsOk'
  <2>1. r.seen \in Seen /\ IsLiveReviewOf(r.session, r.seen.review)
    BY <1>1, ResolveSaw DEF StillSeen
  <2> QED  BY <1>1, <1>2, <2>1, Parts, QueuedReviews
<1>6. TicketsOk'
  BY <1>1, <1>2, <1>3, Parts, QuietTickets
<1> QED  BY <1>4, <1>5, <1>6 DEF TablesOk

\* The writes of an approved entry, whatever approved it.
LEMMA EntryWrites ==
    ASSUME AInv, NEW s, NEW row, Rewrites(s, row), row.status = "APPROVED",
           NEW plate \in AnyPlate, NEW reason \in EntryReasons, NEW seen \in Seen, NEW withReview,
           StillSeen(s, reason, withReview, seen),
           row.ticket = EntryTicket(s, seen),
           ProcessApprovedEntry(s, plate, reason, seen)
    PROVE  SessionsOk' /\ CommandsOk' /\ TicketsOk'
<1>1. /\ s \in SessionIds /\ reason \in Reasons
      /\ TypeOK /\ CommandsOk /\ TicketsOk /\ SessionsOk
  BY Parts DEF Rewrites, Reasons, EntryReasons
<1>2. CreateOrGetTicket(s, plate, seen) /\ commands' = CommandEnsured(s, reason, seen)
  BY DEF ProcessApprovedEntry
<1>3. seen.ticket # 0 => tickets[seen.ticket].status # "ABSENT"
  BY DEF StillSeen
<1>4. seen.opened \/ commands[s][reason] = 0
  BY <1>1, SawCommand
<1>5. commands' = commands \/ (commands[s][reason] = 0 /\ commands' = CommandAdded(s, reason))
  BY <1>1, <1>2, <1>4, EnsuredCommand
<1>6. CommandsOk'
  BY <1>1, <1>5, NewCommand
<1>7. TicketsOk'
  BY <1>1, <1>2, <1>3, EntryTickets
<1> QED  BY <1>1, <1>6, <1>7, SessionsPart

\* The writes of an approved exit, whatever approved it.
LEMMA ExitWrites ==
    ASSUME AInv, NEW s, NEW row, Rewrites(s, row), row.status = "PASSED",
           NEW plate, NEW reason \in ExitReasons, NEW seen, NEW withReview,
           StillSeen(s, reason, withReview, seen),
           NEW t \in OrNull(SessionIds), t # 0 => tickets[t].status # "ABSENT",
           row.ticket = t, ProcessApprovedExit(s, t, plate, reason, seen)
    PROVE  SessionsOk' /\ CommandsOk' /\ TicketsOk'
<1>1. /\ s \in SessionIds /\ reason \in Reasons
      /\ TypeOK /\ CommandsOk /\ TicketsOk /\ SessionsOk
  BY Parts DEF Rewrites, Reasons, ExitReasons
<1>2. tickets' = TicketClosed(t) /\ commands' = CommandEnsured(s, reason, seen)
  BY DEF ProcessApprovedExit
<1>3. seen.opened \/ commands[s][reason] = 0
  BY <1>1, SawCommand
<1>4. commands' = commands \/ (commands[s][reason] = 0 /\ commands' = CommandAdded(s, reason))
  BY <1>1, <1>2, <1>3, EnsuredCommand
<1>5. CommandsOk'
  BY <1>1, <1>4, NewCommand
<1>6. TicketsOk'
  BY <1>1, <1>2, ExitTickets
<1> QED  BY <1>1, <1>5, <1>6, SessionsPart

LEMMA ResolveEntryWrites ==
    ASSUME AInv, NEW c \in Clients, ResolveEntry(c)
    PROVE  TablesOk'
<1> DEFINE r == req[c]
           reason == r.reason
           row == [ResolvedRow(r) EXCEPT !.ticket = EntryTicket(r.session, r.seen)]
<1>1. /\ r.op = "resolve" /\ r.phase = "snap" /\ ApprovesEntry(r) /\ UNCHANGED reviews
      /\ ProcessApprovedEntry(r.session, r.plate, reason, r.seen)
  BY DEF ResolveEntry
<1>2. /\ Rewrites(r.session, row) /\ row.status = "APPROVED"
      /\ row.ticket = EntryTicket(r.session, r.seen)
  BY ResolveEntryRewrites
<1>3. reason \in EntryReasons
  BY <1>1 DEF AInv, IInv, ReasonsFit, ReasonFits
<1>4. r.seen \in Seen /\ r.plate \in AnyPlate
  BY <1>1, ResolveSaw
<1>5. StillSeen(r.session, reason, Queues(r), r.seen)
  BY <1>1, ResolveSaw
<1> HIDE DEF row, reason
<1>6. SessionsOk' /\ CommandsOk' /\ TicketsOk'
  BY <1>1, <1>2, <1>3, <1>4, <1>5, EntryWrites
<1>7. ReviewsOk'
  BY <1>1, <1>2, Parts, QuietReviews
<1> QED  BY <1>6, <1>7 DEF TablesOk

LEMMA ResolveExitWrites ==
    ASSUME AInv, NEW c \in Clients, ResolveExit(c)
    PROVE  TablesOk'
<1> DEFINE r == req[c]
           reason == r.reason
           row == [ResolvedRow(r) EXCEPT !.status = "PASSED", !.ticket = r.exitTicket]
<1>1. /\ r.op = "resolve" /\ r.phase = "snap" /\ ApprovesExit(r) /\ UNCHANGED reviews
      /\ ProcessApprovedExit(r.session, r.exitTicket, r.plate, reason, r.seen)
  BY DEF ResolveExit
<1>2. Rewrites(r.session, row) /\ row.status = "PASSED" /\ row.ticket = r.exitTicket
  BY ResolveExitRewrites
<1>3. reason \in ExitReasons
  BY <1>1 DEF AInv, IInv, ReasonsFit, ReasonFits
<1>4. /\ r.exitTicket \in OrNull(SessionIds) /\ r.exitTicket # 0
      /\ tickets[r.exitTicket].status # "ABSENT"
  BY <1>1, Working DEF AInv, Fits, ResolveFits, ApprovesExit
<1>5. StillSeen(r.session, reason, Queues(r), r.seen)
  BY <1>1, ResolveSaw
<1> HIDE DEF row, reason
<1>6. SessionsOk' /\ CommandsOk' /\ TicketsOk'
  BY <1>1, <1>2, <1>3, <1>4, <1>5, ExitWrites
<1>7. ReviewsOk'
  BY <1>1, <1>2, Parts, QuietReviews
<1> QED  BY <1>6, <1>7 DEF TablesOk

\* What a manual operation saw is so.
LEMMA ManualSaw ==
    ASSUME AInv, NEW c \in Clients, req[c].op \in ManualOps
    PROVE  LET r == req[c]
           IN  /\ r.seen \in Seen /\ r.plate \in AnyPlate
               /\ IsLiveReviewOf(r.session, r.seen.review)
               /\ StillSeen(r.session, r.reason, TRUE, r.seen)
<1>1. req[c].seen \in Seen /\ req[c].plate \in AnyPlate
  BY Working DEF AInv, ManualOps
<1>2. StillSeen(req[c].session, req[c].reason, TRUE, req[c].seen)
  BY DEF AInv, Fits, ManualFits
<1> QED  BY <1>1, <1>2 DEF StillSeen

LEMMA ApproveEntryWrites ==
    ASSUME AInv, NEW c \in Clients, ApproveEntry(c)
    PROVE  TablesOk'
<1> DEFINE r == req[c]
           row == [ManualRow(r) EXCEPT !.ticket = EntryTicket(r.session, r.seen)]
<1>1. /\ r.op = "approve" /\ IsEntry(r.session) /\ ResolveReview(r.session, r.seen)
      /\ ProcessApprovedEntry(r.session, r.plate, r.reason, r.seen)
  BY DEF ApproveEntry
<1>2. /\ Rewrites(r.session, row) /\ row.status = "APPROVED"
      /\ row.ticket = EntryTicket(r.session, r.seen)
  BY ApproveEntryRewrites
<1>3. r.op \in ManualOps /\ r.reason \in EntryReasons
  BY <1>1 DEF ManualOps, AInv, IInv, ReasonsFit, ReasonFits
<1>4. r.seen \in Seen /\ r.plate \in AnyPlate /\ IsLiveReviewOf(r.session, r.seen.review)
  BY <1>3, ManualSaw
<1>5. StillSeen(r.session, r.reason, TRUE, r.seen)
  BY <1>3, ManualSaw
<1> HIDE DEF row
<1>6. SessionsOk' /\ CommandsOk' /\ TicketsOk'
  BY <1>1, <1>2, <1>3, <1>4, <1>5, EntryWrites
<1>7. ReviewsOk'
  BY <1>1, <1>2, <1>4, Parts, ResolvedReviews
<1> QED  BY <1>6, <1>7 DEF TablesOk

LEMMA ApproveExitWrites ==
    ASSUME AInv, NEW c \in Clients, ApproveExit(c)
    PROVE  TablesOk'
<1> DEFINE r == req[c]
           row == [ManualRow(r) EXCEPT !.status = "PASSED", !.ticket = r.exitTicket]
<1>1. /\ r.op = "approve" /\ ~IsEntry(r.session) /\ r.exitTicket # 0
      /\ ResolveReview(r.session, r.seen)
      /\ ProcessApprovedExit(r.session, r.exitTicket, r.plate, r.reason, r.seen)
  BY DEF ApproveExit
<1>2. Rewrites(r.session, row) /\ row.status = "PASSED" /\ row.ticket = r.exitTicket
  BY ApproveExitRewrites
<1>3. r.op \in ManualOps /\ r.reason \in ExitReasons
  BY <1>1 DEF ManualOps, AInv, IInv, ReasonsFit, ReasonFits
<1>4. r.seen \in Seen /\ IsLiveReviewOf(r.session, r.seen.review)
  BY <1>3, ManualSaw
<1>5. r.exitTicket \in OrNull(SessionIds) /\ tickets[r.exitTicket].status # "ABSENT"
  BY <1>1, <1>3, Working, ManualMoves DEF AInv
<1>6. StillSeen(r.session, r.reason, TRUE, r.seen)
  BY <1>3, ManualSaw
<1> HIDE DEF row
<1>7. SessionsOk' /\ CommandsOk' /\ TicketsOk'
  BY <1>1, <1>2, <1>3, <1>5, <1>6, ExitWrites
<1>8. ReviewsOk'
  BY <1>1, <1>2, <1>4, Parts, ResolvedReviews
<1> QED  BY <1>7, <1>8 DEF TablesOk

LEMMA ManualPlainWrites ==
    ASSUME AInv, NEW c \in Clients,
           ApproveExitNoTicket(c) \/ RejectCommit(c) \/ OpenBarrierCommit(c)
    PROVE  TablesOk'
<1> DEFINE r == req[c]
           s == r.session
           row == ManualRow(r)
<1>1. /\ r.op \in ManualOps /\ ResolveReview(s, r.seen) /\ sessions' = SessionSet(s, row)
      /\ UNCHANGED tickets
  BY DEF ApproveExitNoTicket, RejectCommit, OpenBarrierCommit, ManualOps
<1>2. /\ Rewrites(s, row) /\ row.status = ManualStatus(r.op) /\ row.ticket = sessions[s].ticket
      /\ row.ticket # 0 => tickets[row.ticket].status # "ABSENT"
  BY <1>1, ManualRewrites, ManualMoves
<1>3. row.status \in {"APPROVED", "DENIED"}
  BY <1>2 DEF ManualStatus
<1>4. r.seen \in Seen /\ IsLiveReviewOf(s, r.seen.review)
  BY <1>1, ManualSaw
<1>5. CommandsOk'
  <2>1. CASE UNCHANGED commands
    BY <1>2, <2>1, Parts, QuietCommands
  <2>2. CASE OpenBarrierCommit(c)
    <3>1. r.op = "openBarrier" /\ commands' = CommandEnsured(s, r.reason, r.seen)
      BY <2>2 DEF OpenBarrierCommit
    <3>2. s \in SessionIds /\ r.reason \in Reasons /\ TypeOK /\ CommandsOk
      BY <1>2, <3>1, Parts DEF Rewrites, AInv, IInv, ReasonsFit, ReasonFits
    <3>3. StillSeen(s, r.reason, TRUE, r.seen)
      BY <1>1, ManualSaw
    <3>4. r.seen.opened \/ commands[s][r.reason] = 0
      BY <3>2, <3>3, SawCommand
    <3>5. \/ commands' = commands
          \/ commands[s][r.reason] = 0 /\ commands' = CommandAdded(s, r.reason)
      BY <3>1, <3>2, <3>4, EnsuredCommand
    <3>6. row.status \in {"APPROVED", "PASSED"}
      BY <1>2, <3>1 DEF ManualStatus
    <3> HIDE DEF row
    <3> QED  BY <1>2, <3>2, <3>5, <3>6, NewCommand
  <2> QED  BY <2>1, <2>2 DEF ApproveExitNoTicket, RejectCommit
<1> HIDE DEF row
<1>6. SessionsOk'
  BY <1>2, Parts, SessionsPart
<1>7. ReviewsOk'
  BY <1>1, <1>2, <1>3, <1>4, Parts, ResolvedReviews
<1>8. TicketsOk'
  BY <1>1, <1>2, <1>3, Parts, QuietTickets
<1> QED  BY <1>5, <1>6, <1>7, <1>8 DEF TablesOk

LEMMA ConfirmWrites ==
    ASSUME AInv, NEW c \in Clients, ConfirmCommit(c)
    PROVE  TablesOk'
<1> DEFINE r == req[c]
           s == r.session
           row == ConfirmedRow(r)
<1>1. /\ r.op = "confirm" /\ UNCHANGED reviews /\ commands' = CommandAdded(s, r.reason)
      /\ IF IsEntry(s) THEN UNCHANGED tickets ELSE tickets' = TicketClosed(r.ticket)
  BY DEF ConfirmCommit
<1>2. /\ Rewrites(s, row) /\ row.status = "PASSED" /\ row.ticket = r.ticket
      /\ sessions[s].status = "APPROVED"
  BY ConfirmRewrites
<1>3. /\ s \in SessionIds /\ r.reason \in Reasons
      /\ TypeOK /\ SessionsOk /\ CommandsOk /\ ReviewsOk /\ TicketsOk
  BY <1>1, <1>2, Parts DEF Rewrites, AInv, IInv, ReasonsFit, ReasonFits
<1>5. /\ r.ticket = sessions[s].ticket /\ r.ticket \in OrNull(SessionIds)
      /\ r.ticket # 0 => tickets[r.ticket].status # "ABSENT"
  BY <1>1, <1>3, Working DEF AInv, Fits, TicketsOk, TicketKnown
<1> HIDE DEF row
<1>6. CommandsOk'
  BY <1>1, <1>2, <1>3, ConfirmCommand
<1>7. TicketsOk'
  <2>1. CASE IsEntry(s)
    BY <1>1, <1>2, <1>3, <1>5, <2>1, QuietTickets
  <2>2. CASE ~IsEntry(s)
    BY <1>1, <1>2, <1>3, <1>5, <2>2, ExitTickets
  <2> QED  BY <2>1, <2>2
<1>8. SessionsOk' /\ ReviewsOk'
  BY <1>1, <1>2, <1>3, SessionsPart, QuietReviews
<1> QED  BY <1>6, <1>7, <1>8 DEF TablesOk

LEMMA CancelWrites ==
    ASSUME AInv, NEW c \in Clients, CancelCommit(c)
    PROVE  TablesOk'
<1> DEFINE s == req[c].session
           row == [sessions[s] EXCEPT !.status = "CANCELLED"]
<1>1. UNCHANGED reviews /\ UNCHANGED commands /\ UNCHANGED tickets
  BY DEF CancelCommit
<1>2. Rewrites(s, row) /\ row.status = "CANCELLED" /\ row.ticket = sessions[s].ticket
  BY CancelRewrites
<1> HIDE DEF row
<1>3. row.ticket # 0 => tickets[row.ticket].status # "ABSENT"
  BY <1>2, Parts DEF Rewrites, TicketsOk, TicketKnown
<1>4. SessionsOk' /\ CommandsOk' /\ ReviewsOk'
  BY <1>1, <1>2, Parts, SessionsPart, QuietCommands, QuietReviews
<1>5. TicketsOk'
  BY <1>1, <1>2, <1>3, Parts, QuietTickets
<1> QED  BY <1>4, <1>5 DEF TablesOk

\* A claimed review is as live as it was.
LEMMA ClaimWrites ==
    ASSUME AInv, NEW c \in Clients, ClaimCommit(c)
    PROVE  TablesOk'
<1> DEFINE v == req[c].review
<1>1. /\ req[c].op = "claim" /\ UNCHANGED <<sessions, tickets, presence, commands>>
      /\ reviews' = [reviews EXCEPT ![v] = [reviews[v] EXCEPT !.status = "CLAIMED",
                                                              !.by = req[c].actor]]
  BY DEF ClaimCommit
<1>2. v \in ReviewIds /\ IsLive(v)
  BY <1>1 DEF AInv, IInv, Targets, Fits
<1>3. \A w \in ReviewIds : reviews'[w].session = reviews[w].session /\ IsLive(w)' = IsLive(w)
  BY <1>1, <1>2, Parts DEF IsLive, TypeOK, ReviewRow
<1>4. ReviewsOk'
  BY <1>1, <1>3, Parts DEF ReviewsOk, PaymentHoldIsQueued, OneLiveReview, ReviewKnown
<1>5. SessionsOk' /\ CommandsOk' /\ TicketsOk'
  BY <1>1, Parts DEF SessionsOk, CommandsOk, OneActivePerLane, IsActive,
       BarrierOnlyAfterApproval, ConfirmAloneRepeats, TicketsOk,
       PassedExitClosesTicket, IsEntry, TicketKnown
<1> QED  BY <1>4, <1>5 DEF TablesOk

-----------------------------------------------------------------------------
(* openGateSession.                                                        *)

Undecided == {"OPEN", "WAITING_READ", "WAITING_DECISION"}

\* A sensor read moves only a session that is still undecided.
LEMMA StatusOpened ==
    ASSUME NEW r, NEW status \in ActiveStatuses
    PROVE  /\ StatusOnOpen(r, status) \in ActiveStatuses
           /\ \/ StatusOnOpen(r, status) = status
              \/ status \in Undecided /\ StatusOnOpen(r, status) \in Undecided
BY DEF StatusOnOpen, DeriveStatusFromRead, ActiveStatuses, Undecided

\* The rows the request listed are still the stale ones of its lane.
LEMMA Listed ==
    ASSUME AInv, NEW c \in Clients, req[c].op = "open"
    PROVE  /\ req[c].stale \in SUBSET SessionIds
           /\ \A k \in SessionIds :
                  k \in req[c].stale <=>
                      /\ IsActive(k) /\ sessions[k].lane = req[c].lane
                      /\ ~ShouldReuse(sessions[k].lastRead, req[c].now, Window)
<1>1. Fits(req[c])
  BY DEF AInv
<1>2. req[c].stale = StaleRows(req[c].lane, req[c].now)
  BY <1>1 DEF Fits
<1> QED  BY <1>2 DEF StaleRows

\* The rows after the sweep.
LEMMA Swept ==
    ASSUME TypeOK, NEW stale
    PROVE  \A k \in SessionIds :
              /\ k \in stale => /\ Expired(stale)[k].status = "TIMEOUT"
                                /\ Expired(stale)[k].lane = sessions[k].lane
                                /\ Expired(stale)[k].ticket = sessions[k].ticket
              /\ k \notin stale => Expired(stale)[k] = sessions[k]
<1> SUFFICES ASSUME NEW k \in SessionIds
             PROVE  /\ k \in stale => /\ Expired(stale)[k].status = "TIMEOUT"
                                      /\ Expired(stale)[k].lane = sessions[k].lane
                                      /\ Expired(stale)[k].ticket = sessions[k].ticket
                    /\ k \notin stale => Expired(stale)[k] = sessions[k]
  OBVIOUS
<1>1. sessions[k] \in SessionRow
  BY DEF TypeOK
<1>2. Expired(stale)[k] = IF k \in stale THEN [sessions[k] EXCEPT !.status = "TIMEOUT"]
                                         ELSE sessions[k]
  BY DEF Expired
<1> QED  BY <1>1, <1>2 DEF SessionRow

\* What a reuse does: the session is the only active one of its lane, so nothing was stale.
LEMMA OpenReuseRewrites ==
    ASSUME AInv, NEW c \in Clients, OpenReuse(c)
    PROVE  \E s \in SessionIds :
              LET row == ReusedRow(req[c], sessions[s])
              IN  /\ Rewrites(s, row) /\ row.ticket = sessions[s].ticket
                  /\ sessions[s].lane = req[c].lane /\ row.status \in ActiveStatuses
                  /\ row.status = sessions[s].status \/ row.status \in Undecided
<1> DEFINE r == req[c]
           swept == Expired(r.stale)
<1>1. PICK s \in SessionIds :
          /\ r.op = "open" /\ IsLatestOf(swept, r.lane, s)
          /\ CanMove(swept[s].status, StatusOnOpen(r, swept[s].status))
          /\ sessions' = [swept EXCEPT ![s] = ReusedRow(r, swept[s])]
  BY DEF OpenReuse
<1>2. TypeOK /\ OneActivePerLane
  BY Parts DEF SessionsOk
<1>3. swept[s].status \in ActiveStatuses /\ swept[s].lane = r.lane
  BY <1>1 DEF IsLatestOf
<1>4. s \notin r.stale /\ swept[s] = sessions[s]
  BY <1>2, <1>3, Swept DEF ActiveStatuses
<1>5. \A k \in SessionIds : k \notin r.stale
  BY <1>1, <1>2, <1>3, <1>4, Listed DEF OneActivePerLane, IsActive
<1>6. swept = sessions
  BY <1>2, <1>5 DEF Expired, TypeOK
<1> HIDE DEF swept
<1> DEFINE row == ReusedRow(r, sessions[s])
<1>7. sessions[s] \in SessionRow /\ r.now \in Times /\ r.plate \in AnyPlate
  BY <1>2 DEF TypeOK, Request
<1>8. StatusOnOpen(r, sessions[s].status) \in ActiveStatuses
  BY <1>3, <1>4, StatusOpened
<1>9. /\ row \in SessionRow /\ row.status = StatusOnOpen(r, sessions[s].status)
      /\ row.lane = sessions[s].lane /\ row.ticket = sessions[s].ticket
  BY <1>7, <1>8 DEF ReusedRow, SessionRow, Statuses
<1>10. sessions' = SessionSet(s, row) /\ CanMove(sessions[s].status, row.status)
  BY <1>1, <1>4, <1>6, <1>9 DEF SessionSet
<1>11. /\ row.status = sessions[s].status \/ row.status \in Undecided
       /\ row.status \in ActiveStatuses
  BY <1>3, <1>4, <1>9, StatusOpened
<1> HIDE DEF row
<1>12. Rewrites(s, row)
  <2>1. row.status # "TIMEOUT" /\ row.status \in Statuses /\ sessions[s].status \in Statuses
    BY <1>3, <1>4, <1>11 DEF ActiveStatuses, Statuses
  <2> QED  BY <1>9, <1>10, <2>1 DEF Rewrites, Moves
<1> QED  BY <1>3, <1>4, <1>9, <1>11, <1>12 DEF row

LEMMA OpenReuseWrites ==
    ASSUME AInv, NEW c \in Clients, OpenReuse(c)
    PROVE  TablesOk'
<1>1. PICK s \in SessionIds :
          LET row == ReusedRow(req[c], sessions[s])
          IN  /\ Rewrites(s, row) /\ row.ticket = sessions[s].ticket
              /\ row.status \in ActiveStatuses
              /\ row.status = sessions[s].status \/ row.status \in Undecided
  BY OpenReuseRewrites
<1> DEFINE row == ReusedRow(req[c], sessions[s])
<1>2. /\ Rewrites(s, row) /\ row.ticket = sessions[s].ticket /\ row.status \in ActiveStatuses
      /\ row.status = sessions[s].status \/ row.status \in Undecided
  BY <1>1
<1>3. UNCHANGED reviews /\ UNCHANGED commands /\ UNCHANGED tickets
  BY DEF OpenReuse
<1> HIDE DEF row
<1>4. row.ticket # 0 => tickets[row.ticket].status # "ABSENT"
  BY <1>2, Parts DEF TicketsOk, TicketKnown
<1>5. /\ row.status # "PASSED"
      /\ row.status = "WAITING_PAYMENT" => sessions[s].status = "WAITING_PAYMENT"
  BY <1>2 DEF Undecided, ActiveStatuses
<1>6. SessionsOk' /\ CommandsOk' /\ ReviewsOk'
  BY <1>2, <1>3, <1>5, Parts, SessionsPart, QuietCommands, QuietReviews
<1>7. TicketsOk'
  BY <1>2, <1>3, <1>4, <1>5, Parts, QuietTickets
<1> QED  BY <1>6, <1>7 DEF TablesOk

\* What a creation does: every active session of the lane times out, and the new one starts.
LEMMA Started ==
    ASSUME AInv, NEW c \in Clients, OpenCreate(c)
    PROVE  \E s \in SessionIds :
              /\ sessions[s].status = "ABSENT"
              /\ sessions'[s].status \in Undecided /\ sessions'[s].ticket = 0
              /\ sessions'[s].lane = req[c].lane /\ req[c].lane \in Lanes
              /\ \A k \in SessionIds \ {s} :
                    IF IsActive(k) /\ sessions[k].lane = req[c].lane
                    THEN /\ sessions'[k].status = "TIMEOUT"
                         /\ sessions'[k].lane = sessions[k].lane
                         /\ sessions'[k].ticket = sessions[k].ticket
                         /\ ~ShouldReuse(sessions[k].lastRead, req[c].now, Window)
                    ELSE sessions'[k] = sessions[k]
<1> DEFINE r == req[c]
           swept == Expired(r.stale)
<1>1. PICK s \in SessionIds :
          /\ r.op = "open" /\ IsNext(s, SessionIds, sessions)
          /\ sessions' = [swept EXCEPT ![s] =
                 [status |-> StatusOnOpen(r, "OPEN"), lane |-> r.lane,
                  lastRead |-> r.now, plate |-> r.plate, ticket |-> 0]]
  BY DEF OpenCreate
<1>2. \A k \in SessionIds :
          IsLatestOf(swept, r.lane, k) => ~ShouldReuse(swept[k].lastRead, r.now, Window)
  BY DEF OpenCreate
<1>3. TypeOK /\ OneActivePerLane /\ r.lane \in Lanes
  BY Parts DEF SessionsOk, TypeOK, Request
<1>4. swept \in [SessionIds -> SessionRow]
  BY <1>3, ExpiredFacts
<1>5. \A k \in SessionIds : IsActive(k) /\ sessions[k].lane = r.lane => k \in r.stale
  <2> SUFFICES ASSUME NEW k \in SessionIds, IsActive(k), sessions[k].lane = r.lane,
                      k \notin r.stale
               PROVE  FALSE
    OBVIOUS
  <2>1. swept[k] = sessions[k]
    BY <1>3, Swept
  <2>2. \A m \in SessionIds :
            swept[m].status \in ActiveStatuses /\ swept[m].lane = r.lane => m = k
    <3> SUFFICES ASSUME NEW m \in SessionIds, swept[m].status \in ActiveStatuses,
                        swept[m].lane = r.lane
                 PROVE  m = k
      OBVIOUS
    <3>1. m \notin r.stale
      BY <1>3, Swept DEF ActiveStatuses
    <3>2. swept[m] = sessions[m]
      BY <1>3, <3>1, Swept
    <3> QED  BY <1>3, <3>2 DEF OneActivePerLane, IsActive
  <2>3. swept[k].lastRead \in Int
    BY <1>4, TimeAssumption DEF SessionRow
  <2>4. IsLatestOf(swept, r.lane, k)
    BY <2>1, <2>2, <2>3 DEF IsLatestOf, IsActive
  <2>5. ~ShouldReuse(sessions[k].lastRead, r.now, Window)
    BY <1>2, <2>1, <2>4
  <2> QED  BY <1>1, <2>5, Listed
<1>6. "OPEN" \in ActiveStatuses
  BY DEF ActiveStatuses
<1>7. StatusOnOpen(r, "OPEN") \in Undecided
  BY <1>6, StatusOpened DEF Undecided
<1>8. sessions[s].status = "ABSENT"
  BY <1>1 DEF IsNext
<1>9. /\ sessions'[s].status = StatusOnOpen(r, "OPEN") /\ sessions'[s].lane = r.lane
      /\ sessions'[s].ticket = 0
      /\ \A k \in SessionIds \ {s} : sessions'[k] = swept[k]
  BY <1>1, <1>4
<1> HIDE DEF swept
<1>10. \A k \in SessionIds \ {s} :
          IF IsActive(k) /\ sessions[k].lane = r.lane
          THEN /\ sessions'[k].status = "TIMEOUT"
               /\ sessions'[k].lane = sessions[k].lane
               /\ sessions'[k].ticket = sessions[k].ticket
               /\ ~ShouldReuse(sessions[k].lastRead, r.now, Window)
          ELSE sessions'[k] = sessions[k]
  BY <1>1, <1>3, <1>5, <1>9, Swept, Listed DEF swept
<1> QED  BY <1>3, <1>7, <1>8, <1>9, <1>10

LEMMA OpenCreateWrites ==
    ASSUME AInv, NEW c \in Clients, OpenCreate(c)
    PROVE  TablesOk'
<1>1. PICK s \in SessionIds :
          /\ sessions[s].status = "ABSENT"
          /\ sessions'[s].status \in Undecided /\ sessions'[s].ticket = 0
          /\ sessions'[s].lane = req[c].lane
          /\ \A k \in SessionIds \ {s} :
                IF IsActive(k) /\ sessions[k].lane = req[c].lane
                THEN /\ sessions'[k].status = "TIMEOUT"
                     /\ sessions'[k].lane = sessions[k].lane
                     /\ sessions'[k].ticket = sessions[k].ticket
                ELSE sessions'[k] = sessions[k]
  BY Started
<1>2. UNCHANGED <<reviews, tickets, presence, commands>>
  BY DEF OpenCreate
<1>3. TypeOK /\ SessionsOk /\ CommandsOk /\ ReviewsOk /\ TicketsOk
  BY Parts
<1>4. \A k \in SessionIds \ {s} :
          /\ sessions'[k].lane = sessions[k].lane /\ sessions'[k].ticket = sessions[k].ticket
          /\ sessions'[k].status \in {sessions[k].status, "TIMEOUT"}
  BY <1>1
<1>5. SessionsOk'
  <2>1. \A k \in SessionIds \ {s} :
            sessions'[k].status \in ActiveStatuses =>
                /\ IsActive(k) /\ sessions[k].lane # req[c].lane
                /\ sessions'[k].lane = sessions[k].lane
    BY <1>1 DEF IsActive, ActiveStatuses
  <2> QED  BY <1>1, <1>3, <2>1 DEF SessionsOk, OneActivePerLane, IsActive
<1>6. CommandsOk'
  <2>1. "TIMEOUT" \in TerminalStatuses /\ "ABSENT" \notin TerminalStatuses
    BY DEF TerminalStatuses
  <2>2. BarrierOnlyAfterApproval'
    BY <1>1, <1>2, <1>3, <1>4, <2>1 DEF CommandsOk, BarrierOnlyAfterApproval
  <2>3. \A k \in SessionIds : sessions[k].status = "PASSED" => sessions'[k].status = "PASSED"
    BY <1>1 DEF IsActive, ActiveStatuses
  <2>4. ConfirmAloneRepeats'
    BY <1>2, <1>3, <2>3 DEF CommandsOk, ConfirmAloneRepeats
  <2> QED  BY <2>2, <2>4 DEF CommandsOk
<1>7. ReviewsOk'
  <2>1. PaymentHoldIsQueued' /\ OneLiveReview'
    BY <1>1, <1>2, <1>3, <1>4 DEF ReviewsOk, PaymentHoldIsQueued, OneLiveReview, IsLive, Undecided
  <2>2. ReviewKnown'
    BY <1>1, <1>2, <1>3, <1>4 DEF ReviewsOk, ReviewKnown, IsLive, Undecided
  <2> QED  BY <2>1, <2>2 DEF ReviewsOk
<1>8. TicketsOk'
  <2>1. PassedExitClosesTicket'
    BY <1>1, <1>2, <1>3, <1>4 DEF TicketsOk, PassedExitClosesTicket, IsEntry
  <2>2. TicketKnown'
    BY <1>1, <1>2, <1>3, <1>4 DEF TicketsOk, TicketKnown
  <2> QED  BY <2>1, <2>2 DEF TicketsOk
<1> QED  BY <1>5, <1>6, <1>7, <1>8 DEF TablesOk

-----------------------------------------------------------------------------
(* The steps that only read.                                               *)

\* What a snapshot holds is still seen as long as the tables do not change.
LEMMA JustSeen ==
    ASSUME NEW s, NEW plate, NEW reason, NEW withReview \in BOOLEAN, NEW withEntry, NEW seen,
           SnapshotOf(s, plate, reason, withReview, withEntry, seen)
    PROVE  StillSeen(s, reason, withReview, seen)
BY DEF SnapshotOf, StillSeen, IsOpenTicketOf, IsOpenTicket

LEMMA SameSeen ==
    ASSUME UNCHANGED tables, NEW s, NEW reason, NEW withReview, NEW seen,
           StillSeen(s, reason, withReview, seen)
    PROVE  /\ withReview => IsLiveReviewOf(s, seen.review)'
           /\ reason \in Reasons => seen.opened = (commands'[s][reason] > 0)
           /\ seen.ticket # 0 => tickets'[seen.ticket].status # "ABSENT"
<1>1. UNCHANGED <<sessions, reviews, tickets, presence, commands>>
  BY DEF tables
<1>2. IsLiveReviewOf(s, seen.review)' <=> IsLiveReviewOf(s, seen.review)
  BY <1>1 DEF IsLiveReviewOf, IsLive
<1> QED  BY <1>1, <1>2 DEF StillSeen

LEMMA ResolveReadFits ==
    ASSUME UNCHANGED tables, NEW c, NEW r, req'[c] = r, r.op = "resolve", ResolveFits(r)
    PROVE  Fits(req[c])'
<1>1. UNCHANGED <<sessions, reviews, tickets, presence, commands>>
  BY DEF tables
<1>2. Queues(r)' = Queues(r)
  BY DEF Queues
<1>3. StillSeen(r.session, r.reason, Queues(r), r.seen) =>
          StillSeen(r.session, r.reason, Queues(r), r.seen)'
  BY <1>1, <1>2, SameSeen DEF StillSeen
<1>4. ResolveFits(r)'
  BY <1>1, <1>3 DEF ResolveFits
<1> QED  BY <1>4 DEF Fits, ManualOps

LEMMA ManualReadFits ==
    ASSUME UNCHANGED tables, NEW c, NEW r, req'[c] = r, r.op \in ManualOps, ManualFits(r)
    PROVE  Fits(req[c])'
<1>1. UNCHANGED <<sessions, reviews, tickets, presence, commands>>
  BY DEF tables
<1>2. StillSeen(r.session, r.reason, TRUE, r.seen) => StillSeen(r.session, r.reason, TRUE, r.seen)'
  BY <1>1, SameSeen DEF StillSeen
<1>3. ManualFits(r)'
  BY <1>1, <1>2 DEF ManualFits
<1> QED  BY <1>3 DEF Fits, ManualOps

LEMMA ReadFits ==
    ASSUME UNCHANGED tables, NEW c, NEW r, req'[c] = r, Fits(r)
    PROVE  Fits(req[c])'
<1>1. CASE r.op = "resolve"
  BY <1>1, ResolveReadFits DEF Fits
<1>2. CASE r.op \in ManualOps
  BY <1>2, ManualReadFits DEF Fits
<1>3. CASE r.op \notin {"resolve"} \cup ManualOps
  BY <1>3 DEF Fits, StaleRows, tables, IsActive, IsLive
<1> QED  BY <1>1, <1>2, <1>3

LEMMA OpenBeginFits ==
    ASSUME AInv, NEW c \in Clients, OpenBegin(c)
    PROVE  Fits(req[c])'
<1>1. PICK lane \in Lanes, now \in Times, plate \in AnyPlate, type \in {"SENSOR", "NONE"},
           present \in BOOLEAN :
          /\ type = "NONE" => ~present
          /\ req' = [req EXCEPT ![c] =
              [Idle EXCEPT !.op = "open", !.lane = lane, !.now = now, !.plate = plate,
                           !.readType = type, !.present = present,
                           !.stale = {s \in SessionIds :
                               /\ IsActive(s) /\ sessions[s].lane = lane
                               /\ ~ShouldReuse(sessions[s].lastRead, now, Window)}]]
  BY Zenon DEF OpenBegin
<1> DEFINE stale == StaleRows(lane, now)
           r == [Idle EXCEPT !.op = "open", !.lane = lane, !.now = now, !.plate = plate,
                             !.readType = type, !.present = present, !.stale = stale]
<1>2. UNCHANGED tables
  BY DEF OpenBegin
<1>3. req'[c] = r
  BY <1>1 DEF AInv, IInv, TypeOK, StaleRows
<1> HIDE DEF stale
<1>4. r.op = "open" /\ r.lane = lane /\ r.now = now /\ r.stale = stale
  BY DEF Idle
<1> HIDE DEF r
<1>5. Fits(r)
  BY <1>4 DEF Fits, ManualOps, stale
<1> QED  BY <1>2, <1>3, <1>5, ReadFits

LEMMA ResolveDecideFits ==
    ASSUME AInv, NEW c \in Clients, ResolveDecide(c)
    PROVE  Fits(req[c])'
<1>1. PICK s \in SessionIds, action \in FinalActions, lane \in Lanes, plate \in AnyPlate,
           t \in OrNull(SessionIds) :
          /\ CanMove(sessions[s].status, DecisionActionToStatus(action))
          /\ \E reason \in DecisionReasons(s, lane, plate, action, t), now \in Times :
                req' = [req EXCEPT ![c] =
                    ResolveRequest(s, lane, now, plate, DecisionActionToStatus(action),
                                   action, reason, t)]
  BY Zenon DEF ResolveDecide
<1>2. PICK reason \in DecisionReasons(s, lane, plate, action, t), now \in Times :
          req' = [req EXCEPT ![c] =
              ResolveRequest(s, lane, now, plate, DecisionActionToStatus(action),
                             action, reason, t)]
  BY <1>1
<1> DEFINE r == ResolveRequest(s, lane, now, plate, DecisionActionToStatus(action),
                               action, reason, t)
<1>7. req'[c] = r /\ UNCHANGED tables
  BY <1>2 DEF ResolveDecide, AInv, IInv, TypeOK
<1>3. /\ r.op = "resolve" /\ r.session = s /\ r.next = DecisionActionToStatus(action)
      /\ r.action = action /\ r.exitTicket = t /\ r.phase = "read"
      /\ r.ticket = IF t # 0 THEN t ELSE sessions[s].ticket
  BY DEF ResolveRequest, Idle
<1> HIDE DEF r
<1>4. t # 0 => tickets[t].status # "ABSENT"
  <2>1. t # 0 => EngineGives(s, lane \in EntryLanes, plate, action, t)
    BY DEF DecisionReasons, Overrides
  <2> QED  BY <2>1 DEF EngineGives, IsOpenTicketOf, IsOpenTicket
<1>5. action # "NONE"
  BY DEF FinalActions
<1>6. ResolveFits(r)
  BY <1>1, <1>3, <1>4, <1>5 DEF ResolveFits
<1> QED  BY <1>3, <1>6, <1>7, ResolveReadFits

LEMMA ResolveSenseFits ==
    ASSUME AInv, NEW c \in Clients, ResolveSense(c)
    PROVE  Fits(req[c])'
<1>1. PICK s \in SessionIds, now \in Times, type \in {"SENSOR", "NONE"}, present \in BOOLEAN :
          LET next == DeriveStatusFromRead(sessions[s].status, type, present, FALSE)
          IN  /\ sessions[s].status # "ABSENT"
              /\ CanMove(sessions[s].status, next)
              /\ req' = [req EXCEPT ![c] =
                     ResolveRequest(s, AnyLane, now, NoPlate, next, "NONE", "NONE", 0)]
  BY DEF ResolveSense
<1> DEFINE next == DeriveStatusFromRead(sessions[s].status, type, present, FALSE)
           r == ResolveRequest(s, AnyLane, now, NoPlate, next, "NONE", "NONE", 0)
<1>2. req'[c] = r /\ UNCHANGED tables
  BY <1>1 DEF ResolveSense, AInv, IInv, TypeOK
<1>3. sessions[s].status \in Statuses
  BY <1>1, Typed DEF AInv, IInv
<1>4. next \in {sessions[s].status, "WAITING_READ", "WAITING_DECISION"}
  BY <1>3, StatusDerived
<1>5. CanMove(sessions[s].status, next)
  BY <1>1
<1> HIDE DEF next
<1>6. /\ r.op = "resolve" /\ r.session = s /\ r.next = next /\ r.action = "NONE"
      /\ r.exitTicket = 0 /\ r.phase = "read" /\ r.ticket = sessions[s].ticket
  BY DEF ResolveRequest, Idle
<1> HIDE DEF r
<1>7. ResolveFits(r)
  BY <1>4, <1>5, <1>6 DEF ResolveFits
<1> QED  BY <1>2, <1>6, <1>7, ResolveReadFits

LEMMA ResolveBeginFits ==
    ASSUME AInv, NEW c \in Clients, ResolveBegin(c)
    PROVE  Fits(req[c])'
<1>1. PICK v \in OrNull(ReviewIds), t \in OrNull(SessionIds), i \in OrNull(PresenceIds),
           opened \in BOOLEAN :
          LET seen == [review |-> v, ticket |-> t, presence |-> i, opened |-> opened]
          IN  /\ SnapshotOf(req[c].session, req[c].plate, req[c].reason,
                            Queues(req[c]), ApprovesEntry(req[c]), seen)
              /\ req' = [req EXCEPT ![c] = [req[c] EXCEPT !.phase = "snap", !.seen = seen]]
  BY DEF ResolveBegin
<1> DEFINE seen == [review |-> v, ticket |-> t, presence |-> i, opened |-> opened]
           r == [req[c] EXCEPT !.phase = "snap", !.seen = seen]
<1>2. req[c] \in Request /\ req[c].op = "resolve"
  BY Typed DEF AInv, IInv, ResolveBegin
<1>3. req'[c] = r /\ UNCHANGED tables
  BY <1>1 DEF ResolveBegin, AInv, IInv, TypeOK
<1>4. SnapshotOf(req[c].session, req[c].plate, req[c].reason, Queues(req[c]),
                 ApprovesEntry(req[c]), seen)
  BY <1>1
<1> HIDE DEF seen
<1>5. /\ r.op = "resolve" /\ r.session = req[c].session /\ r.plate = req[c].plate
      /\ r.next = req[c].next /\ r.action = req[c].action /\ r.ticket = req[c].ticket
      /\ r.reason = req[c].reason /\ r.exitTicket = req[c].exitTicket
      /\ r.seen = seen
  BY <1>2 DEF Request
<1> HIDE DEF r
<1>6. Queues(r) = Queues(req[c])
  BY <1>5 DEF Queues
<1>7. StillSeen(r.session, r.reason, Queues(r), r.seen)
  <2>1. Queues(req[c]) \in BOOLEAN
    BY DEF Queues
  <2>2. StillSeen(req[c].session, req[c].reason, Queues(req[c]), seen)
    BY <1>4, <2>1, JustSeen
  <2> QED  BY <1>5, <1>6, <2>2
<1>8. ResolveFits(req[c])
  BY <1>2 DEF AInv, Fits
<1>9. ResolveFits(r)
  BY <1>5, <1>7, <1>8 DEF ResolveFits
<1> QED  BY <1>3, <1>5, <1>9, ResolveReadFits

LEMMA ConfirmReadFits ==
    ASSUME AInv, NEW c \in Clients, ConfirmRead(c) \/ CancelRead(c)
    PROVE  Fits(req[c])'
<1>1. CASE ConfirmRead(c)
  <2>1. PICK s \in SessionIds, now \in Times, reason \in Worded \cup {"CONFIRM_PASS"} :
            /\ sessions[s].status = "APPROVED"
            /\ req' = [req EXCEPT ![c] =
                   [Idle EXCEPT !.op = "confirm", !.session = s, !.now = now,
                                !.reason = reason, !.plate = sessions[s].plate,
                                !.ticket = sessions[s].ticket]]
    BY <1>1 DEF ConfirmRead
  <2>2. UNCHANGED sessions
    BY <1>1 DEF ConfirmRead, tables
  <2>3. /\ req'[c].op = "confirm" /\ req'[c].session = s /\ req'[c].ticket = sessions[s].ticket
    BY <2>1 DEF AInv, IInv, TypeOK, Idle
  <2> QED  BY <2>1, <2>2, <2>3 DEF Fits, ManualOps
<1>2. CASE CancelRead(c)
  <2>1. PICK s \in SessionIds :
            /\ IsActive(s)
            /\ req' = [req EXCEPT ![c] = [Idle EXCEPT !.op = "cancel", !.session = s]]
    BY <1>2 DEF CancelRead
  <2>2. UNCHANGED sessions
    BY <1>2 DEF CancelRead, tables
  <2>3. req'[c].op = "cancel" /\ req'[c].session = s
    BY <2>1 DEF AInv, IInv, TypeOK, Idle
  <2> QED  BY <2>1, <2>2, <2>3 DEF Fits, ManualOps, IsActive
<1> QED  BY <1>1, <1>2

LEMMA ManualBeginFits ==
    ASSUME AInv, NEW c \in Clients, ManualBegin(c)
    PROVE  Fits(req[c])'
<1>1. PICK r \in Request :
          /\ req' = [req EXCEPT ![c] = r] /\ UNCHANGED tables
          /\ r.op \in ManualOps
          /\ RequiredAction(r.op) \in AllowedActions(sessions[r.session].status)
          /\ CanMove(sessions[r.session].status, ManualStatus(r.op))
          /\ r.exitTicket = sessions[r.session].ticket
          /\ SnapshotOf(r.session, r.plate, r.reason,
                        TRUE, r.op = "approve" /\ IsEntry(r.session), r.seen)
  BY ManualBegun DEF AInv, ManualOps
<1>2. req'[c] = r
  BY <1>1 DEF AInv, IInv, TypeOK
<1>3. StillSeen(r.session, r.reason, TRUE, r.seen)
  BY <1>1, JustSeen
<1>4. ManualFits(r)
  BY <1>1, <1>3 DEF ManualFits
<1> QED  BY <1>1, <1>2, <1>4, ManualReadFits

LEMMA ClaimBeginFits ==
    ASSUME AInv, NEW c \in Clients, ClaimBegin(c)
    PROVE  Fits(req[c])'
<1>1. PICK v \in ReviewIds, actor \in Actors :
          /\ IsLive(v)
          /\ req' = [req EXCEPT ![c] =
                 [Idle EXCEPT !.op = "claim", !.phase = "snap", !.review = v, !.actor = actor]]
  BY DEF ClaimBegin
<1>2. UNCHANGED reviews
  BY DEF ClaimBegin, tables
<1>3. req'[c].op = "claim" /\ req'[c].review = v
  BY <1>1 DEF AInv, IInv, TypeOK, Idle
<1> QED  BY <1>1, <1>2, <1>3 DEF Fits, ManualOps, IsLive

-----------------------------------------------------------------------------
(* A step that writes stays in its lane.                                   *)

\* Rows of other lanes are as they were, and what hangs on them.  No ticket goes away.
StaysIn(l) ==
    /\ \A k \in SessionIds :
          \/ sessions'[k] = sessions[k]
          \/ /\ sessions'[k].lane = l
             /\ sessions[k].status # "ABSENT" => sessions[k].lane = l
    /\ \A k \in SessionIds :
          sessions[k].status # "ABSENT" /\ sessions[k].lane # l =>
              /\ commands'[k] = commands[k]
              /\ \A v \in ReviewIds :
                    \/ reviews'[v] = reviews[v]
                    \/ reviews'[v].session # k /\ (IsLive(v) => reviews[v].session # k)
    /\ \A k \in SessionIds : tickets[k].status # "ABSENT" => tickets'[k].status # "ABSENT"

\* The reviews and the commands that a step writes are those of session s.
OwnReviews(s) ==
    \A v \in ReviewIds :
        \/ reviews'[v] = reviews[v]
        \/ reviews'[v].session = s /\ (IsLive(v) => reviews[v].session = s)
OwnCommands(s) == \A k \in SessionIds \ {s} : commands'[k] = commands[k]
TicketsRemain ==
    \A k \in SessionIds : tickets[k].status # "ABSENT" => tickets'[k].status # "ABSENT"

LEMMA RewriteStays ==
    ASSUME TypeOK, NEW s, NEW row, Rewrites(s, row), OwnReviews(s), OwnCommands(s), TicketsRemain
    PROVE  StaysIn(sessions[s].lane)
<1>1. s \in SessionIds
  BY DEF Rewrites
<1> QED  BY <1>1, RewriteFacts DEF StaysIn, OwnReviews, OwnCommands, TicketsRemain

LEMMA ReviewsOwned ==
    ASSUME TypeOK, NEW s, NEW seen \in Seen,
           \/ QueueReview(s, seen)
           \/ ResolveReview(s, seen) /\ IsLiveReviewOf(s, seen.review)
    PROVE  OwnReviews(s)
<1>1. ASSUME NEW status, CreateReview(s, status) PROVE OwnReviews(s)
  BY <1>1, Created DEF OwnReviews, IsLive
<1>2. CASE seen.review # 0
  <2>1. seen.review \in ReviewIds
    BY <1>2 DEF Seen, OrNull
  <2>2. CASE UNCHANGED reviews
    BY <2>2 DEF OwnReviews
  <2>3. CASE ResolveReview(s, seen) /\ IsLiveReviewOf(s, seen.review)
    <3>1. reviews[seen.review].session = s
      BY <1>2, <2>3 DEF IsLiveReviewOf
    <3>2. reviews' = [reviews EXCEPT ![seen.review].status = "RESOLVED"]
      BY <1>2, <2>3 DEF ResolveReview
    <3>3. /\ reviews'[seen.review].session = reviews[seen.review].session
          /\ \A w \in ReviewIds \ {seen.review} : reviews'[w] = reviews[w]
      BY <2>1, <3>2 DEF TypeOK, ReviewRow
    <3> QED  BY <3>1, <3>3 DEF OwnReviews
  <2> QED  BY <1>2, <2>2, <2>3 DEF QueueReview
<1>3. CASE seen.review = 0
  BY <1>1, <1>3 DEF QueueReview, ResolveReview
<1> QED  BY <1>2, <1>3

LEMMA CommandsOwned ==
    ASSUME TypeOK, NEW s \in SessionIds, NEW reason, NEW seen,
           \/ UNCHANGED commands
           \/ commands' = CommandAdded(s, reason)
           \/ commands' = CommandEnsured(s, reason, seen)
    PROVE  OwnCommands(s)
<1>1. commands' = commands \/ commands' = CommandAdded(s, reason)
  BY DEF CommandEnsured
<1>2. CASE commands' = CommandAdded(s, reason)
  <2> DEFINE row == [commands[s] EXCEPT ![reason] = IF @ < MaxCommands THEN @ + 1 ELSE @]
  <2>1. commands' = [commands EXCEPT ![s] = row]
    BY <1>2 DEF CommandAdded
  <2> HIDE DEF row
  <2> QED  BY <2>1 DEF OwnCommands, TypeOK
<1> QED  BY <1>1, <1>2 DEF OwnCommands

LEMMA TicketsStay ==
    ASSUME TypeOK, NEW s \in SessionIds, NEW plate, NEW seen, NEW t \in OrNull(SessionIds),
           \/ UNCHANGED tickets
           \/ tickets' = TicketClosed(t)
           \/ CreateOrGetTicket(s, plate, seen)
    PROVE  TicketsRemain
<1>1. CASE tickets' = TicketClosed(t)
  BY <1>1 DEF TicketClosed, TicketsRemain, TypeOK, TicketRow, OrNull
<1>2. CASE CreateOrGetTicket(s, plate, seen)
  BY <1>2 DEF CreateOrGetTicket, TicketsRemain, TypeOK
<1> QED  BY <1>1, <1>2 DEF TicketsRemain

LEMMA ResolveStays ==
    ASSUME AInv, NEW c \in Clients,
           ResolvePlain(c) \/ ResolveQueue(c) \/ ResolveEntry(c) \/ ResolveExit(c)
    PROVE  StaysIn(LaneOf(req[c]))
<1> DEFINE r == req[c]
           s == r.session
<1>1. r.op = "resolve" /\ LaneOf(r) = sessions[s].lane
  BY DEF ResolvePlain, ResolveQueue, ResolveEntry, ResolveExit, LaneOf
<1>2. /\ TypeOK /\ s \in SessionIds /\ r.seen \in Seen /\ r.exitTicket \in OrNull(SessionIds)
  BY <1>1, Working, Parts DEF AInv
<1>3. PICK row : Rewrites(s, row)
  <2>1. CASE ResolvePlain(c) \/ ResolveQueue(c)
    BY <1>1, <2>1, ResolvedRewrites DEF ResolvePlain, ResolveQueue
  <2>2. CASE ResolveEntry(c)
    BY <2>2, ResolveEntryRewrites
  <2>3. CASE ResolveExit(c)
    BY <2>3, ResolveExitRewrites
  <2> QED  BY <2>1, <2>2, <2>3
<1>4. OwnReviews(s)
  <2>1. UNCHANGED reviews \/ QueueReview(s, r.seen)
    BY DEF ResolvePlain, ResolveQueue, ResolveEntry, ResolveExit
  <2>2. UNCHANGED reviews => OwnReviews(s)
    BY DEF OwnReviews
  <2> QED  BY <1>2, <2>1, <2>2, ReviewsOwned
<1>5. OwnCommands(s) /\ TicketsRemain
  <2>1. \/ UNCHANGED commands /\ UNCHANGED tickets
        \/ /\ commands' = CommandEnsured(s, r.reason, r.seen)
           /\ CreateOrGetTicket(s, r.plate, r.seen) \/ tickets' = TicketClosed(r.exitTicket)
    BY DEF ResolvePlain, ResolveQueue, ResolveEntry, ResolveExit, ProcessApprovedEntry,
           ProcessApprovedExit
  <2> QED  BY <1>2, <2>1, CommandsOwned, TicketsStay
<1> HIDE DEF r, s
<1> QED  BY <1>1, <1>2, <1>3, <1>4, <1>5, RewriteStays DEF r

LEMMA ManualStays ==
    ASSUME AInv, NEW c \in Clients,
           \/ ApproveEntry(c) \/ ApproveExit(c) \/ ApproveExitNoTicket(c) \/ RejectCommit(c)
           \/ OpenBarrierCommit(c)
    PROVE  StaysIn(LaneOf(req[c]))
<1> DEFINE r == req[c]
           s == r.session
<1>1. r.op \in ManualOps /\ ResolveReview(s, r.seen)
  BY DEF ApproveEntry, ApproveExit, ApproveExitNoTicket, RejectCommit, OpenBarrierCommit, ManualOps
<1>2. LaneOf(r) = sessions[s].lane
  BY <1>1 DEF LaneOf, ManualOps
<1>3. /\ TypeOK /\ s \in SessionIds /\ r.exitTicket \in OrNull(SessionIds)
      /\ r.seen \in Seen /\ IsLiveReviewOf(s, r.seen.review)
  BY <1>1, Working, Parts, ManualSaw DEF AInv, ManualOps
<1>4. PICK row : Rewrites(s, row)
  <2>1. CASE ApproveEntry(c)
    BY <2>1, ApproveEntryRewrites
  <2>2. CASE ApproveExit(c)
    BY <2>2, ApproveExitRewrites
  <2>3. CASE ApproveExitNoTicket(c) \/ RejectCommit(c) \/ OpenBarrierCommit(c)
    BY <1>1, <2>3, ManualRewrites DEF ApproveExitNoTicket, RejectCommit, OpenBarrierCommit
  <2> QED  BY <2>1, <2>2, <2>3
<1>5. OwnReviews(s)
  BY <1>1, <1>3, ReviewsOwned
<1>6. OwnCommands(s) /\ TicketsRemain
  <2>1. \/ UNCHANGED commands
        \/ \E reason : commands' = CommandEnsured(s, reason, r.seen)
    BY DEF ApproveEntry, ApproveExit, ApproveExitNoTicket, RejectCommit, OpenBarrierCommit,
           ProcessApprovedEntry, ProcessApprovedExit
  <2>2. \/ UNCHANGED tickets \/ CreateOrGetTicket(s, r.plate, r.seen)
        \/ tickets' = TicketClosed(r.exitTicket)
    BY DEF ApproveEntry, ApproveExit, ApproveExitNoTicket, RejectCommit, OpenBarrierCommit,
           ProcessApprovedEntry, ProcessApprovedExit
  <2> QED  BY <1>3, <2>1, <2>2, CommandsOwned, TicketsStay
<1> HIDE DEF r, s
<1> QED  BY <1>2, <1>3, <1>4, <1>5, <1>6, RewriteStays DEF r

LEMMA ConfirmStays ==
    ASSUME AInv, NEW c \in Clients, ConfirmCommit(c) \/ CancelCommit(c)
    PROVE  StaysIn(LaneOf(req[c]))
<1> DEFINE r == req[c]
           s == r.session
<1>1. r.op \in {"confirm", "cancel"} /\ UNCHANGED reviews
  BY DEF ConfirmCommit, CancelCommit
<1>2. LaneOf(r) = sessions[s].lane
  BY <1>1 DEF LaneOf
<1>3. TypeOK /\ s \in SessionIds /\ r.ticket \in OrNull(SessionIds)
  BY <1>1, Working, Parts DEF AInv
<1>4. PICK row : Rewrites(s, row)
  BY ConfirmRewrites, CancelRewrites
<1>5. OwnReviews(s)
  BY <1>1 DEF OwnReviews
<1>6. OwnCommands(s) /\ TicketsRemain
  <2>1. UNCHANGED commands \/ commands' = CommandAdded(s, r.reason)
    BY DEF ConfirmCommit, CancelCommit
  <2>2. UNCHANGED tickets \/ tickets' = TicketClosed(r.ticket)
    BY DEF ConfirmCommit, CancelCommit
  <2> QED  BY <1>3, <2>1, <2>2, CommandsOwned, TicketsStay
<1> HIDE DEF r, s
<1> QED  BY <1>2, <1>3, <1>4, <1>5, <1>6, RewriteStays DEF r

LEMMA OpenStays ==
    ASSUME AInv, NEW c \in Clients, OpenReuse(c) \/ OpenCreate(c)
    PROVE  StaysIn(LaneOf(req[c]))
<1>1. /\ LaneOf(req[c]) = req[c].lane /\ TypeOK
      /\ UNCHANGED <<reviews, tickets, presence, commands>>
  BY Parts DEF OpenReuse, OpenCreate, LaneOf
<1>2. CASE OpenReuse(c)
  <2>1. PICK s \in SessionIds :
            Rewrites(s, ReusedRow(req[c], sessions[s])) /\ sessions[s].lane = req[c].lane
    BY <1>2, OpenReuseRewrites
  <2>2. OwnReviews(s) /\ OwnCommands(s) /\ TicketsRemain
    BY <1>1 DEF OwnReviews, OwnCommands, TicketsRemain
  <2> QED  BY <1>1, <2>1, <2>2, RewriteStays
<1>3. CASE OpenCreate(c)
  <2>1. PICK s \in SessionIds :
            /\ sessions[s].status = "ABSENT" /\ sessions'[s].lane = req[c].lane
            /\ \A k \in SessionIds \ {s} :
                  IF IsActive(k) /\ sessions[k].lane = req[c].lane
                  THEN sessions'[k].lane = sessions[k].lane
                  ELSE sessions'[k] = sessions[k]
    BY <1>3, Started
  <2> QED  BY <1>1, <2>1 DEF StaysIn
<1> QED  BY <1>2, <1>3

LEMMA ClaimStays ==
    ASSUME AInv, NEW c \in Clients, ClaimCommit(c)
    PROVE  StaysIn(LaneOf(req[c]))
<1> DEFINE v == req[c].review
           l == sessions[reviews[v].session].lane
<1>1. /\ req[c].op = "claim" /\ UNCHANGED <<sessions, tickets, presence, commands>>
      /\ reviews' = [reviews EXCEPT ![v] = [reviews[v] EXCEPT !.status = "CLAIMED",
                                                              !.by = req[c].actor]]
  BY DEF ClaimCommit
<1>2. v \in ReviewIds /\ IsLive(v) /\ LaneOf(req[c]) = l
  BY <1>1 DEF AInv, IInv, Targets, Fits, LaneOf
<1>3. \A w \in ReviewIds : reviews'[w].session = reviews[w].session
  BY <1>1, <1>2, Parts DEF TypeOK, ReviewRow
<1>4. \A w \in ReviewIds \ {v} : reviews'[w] = reviews[w]
  BY <1>1, <1>2, Parts DEF TypeOK
<1>5. StaysIn(l)
  BY <1>1, <1>3, <1>4 DEF StaysIn
<1> QED  BY <1>2, <1>5

-----------------------------------------------------------------------------
(* What another lane's request read is still so.                           *)

\* A request that works on rows that exist, on another lane than l.
WorksBeside(r, l) ==
    /\ r \in Request /\ LaneOf(r) # l
    /\ r.op \notin {"idle", "open", "claim"} =>
           r.session \in SessionIds /\ sessions[r.session].status # "ABSENT"
    /\ r.op = "claim" => r.review \in ReviewIds

LEMMA SeenBeside ==
    ASSUME TypeOK, NEW l, StaysIn(l),
           NEW s \in SessionIds, sessions[s].status # "ABSENT", sessions[s].lane # l,
           NEW reason, NEW withReview, NEW seen \in Seen,
           StillSeen(s, reason, withReview, seen)
    PROVE  /\ withReview => IsLiveReviewOf(s, seen.review)'
           /\ reason \in Reasons => seen.opened = (commands'[s][reason] > 0)
           /\ seen.ticket # 0 => tickets'[seen.ticket].status # "ABSENT"
<1>1. commands'[s] = commands[s]
  BY DEF StaysIn
<1>2. \A v \in ReviewIds : \/ reviews'[v] = reviews[v]
                           \/ reviews'[v].session # s /\ (IsLive(v) => reviews[v].session # s)
  BY DEF StaysIn
<1>3. seen.review \in OrNull(ReviewIds) /\ seen.ticket \in OrNull(SessionIds)
  BY DEF Seen
<1>4. IsLiveReviewOf(s, seen.review) => IsLiveReviewOf(s, seen.review)'
  <2>1. \A v \in ReviewIds : (reviews[v].session = s /\ IsLive(v))
                                 <=> (reviews'[v].session = s /\ IsLive(v)')
    BY <1>2 DEF IsLive
  <2>2. CASE seen.review = 0
    BY <2>1, <2>2 DEF IsLiveReviewOf
  <2>3. CASE seen.review # 0
    BY <1>3, <2>1, <2>3 DEF IsLiveReviewOf, OrNull
  <2> QED  BY <2>2, <2>3
<1>5. seen.ticket # 0 => tickets'[seen.ticket].status # "ABSENT"
  BY <1>3 DEF StillSeen, StaysIn, OrNull
<1> QED  BY <1>1, <1>4, <1>5 DEF StillSeen

LEMMA ResolveFitsBeside ==
    ASSUME TypeOK, NEW l, StaysIn(l), NEW r, WorksBeside(r, l), r.op = "resolve", ResolveFits(r)
    PROVE  ResolveFits(r)'
<1>1. /\ r.session \in SessionIds /\ sessions[r.session].status # "ABSENT"
      /\ sessions[r.session].lane # l
      /\ r.seen \in Seen /\ r.exitTicket \in OrNull(SessionIds)
  BY DEF WorksBeside, LaneOf, Request
<1>2. sessions'[r.session] = sessions[r.session]
  BY <1>1 DEF StaysIn
<1>4. Queues(r)' = Queues(r)
  BY DEF Queues
<1>5. r.exitTicket # 0 /\ tickets[r.exitTicket].status # "ABSENT" =>
          tickets'[r.exitTicket].status # "ABSENT"
  BY <1>1 DEF StaysIn, OrNull
<1>6. StillSeen(r.session, r.reason, Queues(r), r.seen) =>
          StillSeen(r.session, r.reason, Queues(r), r.seen)'
  BY <1>1, <1>4, SeenBeside DEF StillSeen
<1> QED  BY <1>2, <1>5, <1>6 DEF ResolveFits

LEMMA ManualFitsBeside ==
    ASSUME TypeOK, NEW l, StaysIn(l), NEW r, WorksBeside(r, l), r.op \in ManualOps, ManualFits(r)
    PROVE  ManualFits(r)'
<1>1. /\ r.session \in SessionIds /\ sessions[r.session].status # "ABSENT"
      /\ sessions[r.session].lane # l /\ r.seen \in Seen
  BY DEF WorksBeside, LaneOf, Request, ManualOps
<1>2. sessions'[r.session] = sessions[r.session]
  BY <1>1 DEF StaysIn
<1>3. StillSeen(r.session, r.reason, TRUE, r.seen) => StillSeen(r.session, r.reason, TRUE, r.seen)'
  BY <1>1, SeenBeside DEF StillSeen
<1> QED  BY <1>2, <1>3 DEF ManualFits

\* The request keeps fitting, whatever a step on lane l writes.
LEMMA FitsBeside ==
    ASSUME TypeOK, ReviewKnown, NEW l, StaysIn(l),
           NEW d, NEW r, req'[d] = r, WorksBeside(r, l), Fits(r)
    PROVE  Fits(req[d])'
<1>1. CASE r.op = "open"
  <2>1. r.stale = StaleRows(r.lane, r.now) /\ r.lane # l
    BY <1>1 DEF Fits, WorksBeside, LaneOf
  <2>2. ASSUME NEW k \in SessionIds
        PROVE  (/\ IsActive(k) /\ sessions[k].lane = r.lane
                /\ ~ShouldReuse(sessions[k].lastRead, r.now, Window))
                <=> (/\ IsActive(k)' /\ sessions'[k].lane = r.lane
                     /\ ~ShouldReuse(sessions'[k].lastRead, r.now, Window))
    <3>1. CASE sessions'[k] = sessions[k]
      BY <3>1 DEF IsActive
    <3>2. CASE sessions'[k] # sessions[k]
      BY <2>1, <3>2 DEF StaysIn, IsActive, ActiveStatuses
    <3> QED  BY <3>1, <3>2
  <2>3. r.stale = StaleRows(r.lane, r.now)'
    BY <2>1, <2>2 DEF StaleRows
  <2> QED  BY <1>1, <2>3 DEF Fits, ManualOps
<1>2. CASE r.op = "resolve"
  BY <1>2, ResolveFitsBeside DEF Fits, ManualOps
<1>3. CASE r.op \in ManualOps
  BY <1>3, ManualFitsBeside DEF Fits, ManualOps
<1>4. CASE r.op \in {"confirm", "cancel"}
  <2>1. /\ r.session \in SessionIds /\ sessions[r.session].status # "ABSENT"
        /\ sessions[r.session].lane # l
    BY <1>4 DEF WorksBeside, LaneOf
  <2>2. sessions'[r.session] = sessions[r.session]
    BY <2>1 DEF StaysIn
  <2> QED  BY <1>4, <2>2 DEF Fits, ManualOps, IsActive
<1>5. CASE r.op = "claim"
  <2>1. r.review \in ReviewIds /\ IsLive(r.review)
    BY <1>5 DEF WorksBeside, Fits
  <2>2. /\ reviews[r.review].session \in SessionIds
        /\ sessions[reviews[r.review].session].status # "ABSENT"
        /\ sessions[reviews[r.review].session].lane # l
    BY <1>5, <2>1 DEF ReviewKnown, WorksBeside, LaneOf
  <2>3. reviews'[r.review] = reviews[r.review]
    BY <2>1, <2>2 DEF StaysIn
  <2> QED  BY <1>5, <2>1, <2>3 DEF Fits, ManualOps, IsLive
<1>6. CASE r.op = "idle"
  BY <1>6 DEF Fits, ManualOps
<1>7. r.op \in Operations
  BY DEF WorksBeside, Request
<1> QED  BY <1>1, <1>2, <1>3, <1>4, <1>5, <1>6, <1>7 DEF Operations, ManualOps

-----------------------------------------------------------------------------
(* The invariant, while the requests on a lane take turns.                 *)

LEMMA InitLane == Init => AInv
<1> SUFFICES ASSUME Init PROVE AInv
  OBVIOUS
<1>1. IInv
  BY InitHolds
<1>2. /\ \A s \in SessionIds : sessions[s].status = "ABSENT" /\ sessions[s].ticket = 0
      /\ \A v \in ReviewIds : reviews[v].status = "ABSENT"
      /\ \A s \in SessionIds : \A reason \in Reasons : commands[s][reason] = 0
      /\ \A c \in Clients : req[c].op = "idle"
  BY DEF Init, Idle
<1>3. SessionsOk /\ ReviewsOk
  BY <1>2 DEF SessionsOk, OneActivePerLane, IsActive, ActiveStatuses, ReviewsOk,
              PaymentHoldIsQueued, OneLiveReview, ReviewKnown, IsLive
<1>4. CommandsOk
  BY <1>2 DEF CommandsOk, BarrierOnlyAfterApproval, ConfirmAloneRepeats
<1>5. TicketsOk
  BY <1>2 DEF TicketsOk, PassedExitClosesTicket, TicketKnown
<1>6. \A c \in Clients : Fits(req[c])
  BY <1>2 DEF Fits, ManualOps
<1> QED  BY <1>1, <1>3, <1>4, <1>5, <1>6 DEF AInv, TablesOk

LEMMA SameTables ==
    ASSUME TablesOk, UNCHANGED tables
    PROVE  TablesOk'
<1>1. UNCHANGED <<sessions, reviews, tickets, presence, commands>>
  BY DEF tables
<1>2. SessionsOk' /\ CommandsOk'
  BY <1>1 DEF TablesOk, SessionsOk, CommandsOk, OneActivePerLane, IsActive,
              BarrierOnlyAfterApproval, ConfirmAloneRepeats
<1>3. ReviewsOk' /\ TicketsOk'
  BY <1>1 DEF TablesOk, ReviewsOk, PaymentHoldIsQueued, OneLiveReview, IsLive,
              ReviewKnown, TicketsOk, PassedExitClosesTicket, IsEntry, TicketKnown
<1> QED  BY <1>2, <1>3 DEF TablesOk

LEMMA ReadKeeps ==
    ASSUME AInv, NEW c \in Clients,
           \/ OpenBegin(c) \/ ResolveDecide(c) \/ ResolveSense(c) \/ ResolveBegin(c)
           \/ ConfirmRead(c) \/ CancelRead(c) \/ ManualBegin(c) \/ ClaimBegin(c)
    PROVE  TablesOk' /\ \A d \in Clients : Fits(req[d])'
<1>1. Fits(req[c])'
  BY OpenBeginFits, ResolveDecideFits, ResolveSenseFits, ResolveBeginFits, ConfirmReadFits,
     ManualBeginFits, ClaimBeginFits
<1>2. UNCHANGED tables
  BY DEF OpenBegin, ResolveDecide, ResolveSense, ResolveBegin, ConfirmRead, CancelRead,
         ManualBegin, ClaimBegin
<1>3. \A d \in Clients \ {c} : req'[d] = req[d]
  BY OthersWait DEF AInv, Step
<1>4. ASSUME NEW d \in Clients \ {c} PROVE Fits(req[d])'
  BY <1>2, <1>3, ReadFits DEF AInv
<1>5. TablesOk'
  BY <1>2, SameTables DEF AInv
<1> QED  BY <1>1, <1>4, <1>5

\* A step that writes leaves no request of its own, and the other lanes' as they were.
LEMMA WriteFits ==
    ASSUME LanesApart, AInv, NEW c \in Clients, ~IsIdle(c), Finish(c), StaysIn(LaneOf(req[c]))
    PROVE  \A d \in Clients : Fits(req[d])'
<1> SUFFICES ASSUME NEW d \in Clients  PROVE Fits(req[d])'
  OBVIOUS
<1>1. CASE req'[d].op = "idle"
  BY <1>1 DEF Fits, ManualOps
<1>2. CASE req'[d].op # "idle"
  <2>1. d # c /\ req'[d] = req[d]
    BY <1>2 DEF Finish, Idle, AInv, IInv, TypeOK
  <2>2. LaneOf(req[c]) # LaneOf(req[d])
    BY <1>2, <2>1 DEF LanesApart, IsIdle
  <2>3. WorksBeside(req[d], LaneOf(req[c]))
    BY <2>2, Parts, Typed DEF WorksBeside, AInv, IInv, Targets
  <2>4. TypeOK /\ ReviewKnown /\ Fits(req[d])
    BY Parts DEF AInv, ReviewsOk
  <2> QED  BY <2>1, <2>3, <2>4, FitsBeside
<1> QED  BY <1>1, <1>2

LEMMA WriteKeeps ==
    ASSUME LanesApart, AInv, NEW c \in Clients,
           \/ OpenReuse(c) \/ OpenCreate(c) \/ ResolvePlain(c) \/ ResolveQueue(c)
           \/ ResolveEntry(c) \/ ResolveExit(c) \/ ConfirmCommit(c) \/ CancelCommit(c)
           \/ ApproveEntry(c) \/ ApproveExit(c) \/ ApproveExitNoTicket(c)
           \/ RejectCommit(c) \/ OpenBarrierCommit(c) \/ ClaimCommit(c)
    PROVE  TablesOk' /\ \A d \in Clients : Fits(req[d])'
<1>1. Finish(c) /\ ~IsIdle(c)
  BY DEF OpenReuse, OpenCreate, ResolvePlain, ResolveQueue, ResolveEntry, ResolveExit,
         ConfirmCommit, CancelCommit, ApproveEntry, ApproveExit, ApproveExitNoTicket,
         RejectCommit, OpenBarrierCommit, ClaimCommit, IsIdle
<1>2. StaysIn(LaneOf(req[c]))
  BY ResolveStays, ManualStays, ConfirmStays, OpenStays, ClaimStays
<1>3. \A d \in Clients : Fits(req[d])'
  BY <1>1, <1>2, WriteFits
<1>4. TablesOk'
  BY OpenReuseWrites, OpenCreateWrites, ResolvePlainWrites, ResolveQueueWrites,
     ResolveEntryWrites, ResolveExitWrites, ConfirmWrites, CancelWrites, ApproveEntryWrites,
     ApproveExitWrites, ManualPlainWrites, ClaimWrites
<1> QED  BY <1>3, <1>4

LEMMA AbortFits ==
    ASSUME AInv, NEW c \in Clients, Abort(c)
    PROVE  TablesOk' /\ \A d \in Clients : Fits(req[d])'
<1>1. UNCHANGED tables /\ Finish(c)
  BY DEF Abort
<1>2. ASSUME NEW d \in Clients PROVE Fits(req[d])'
  <2>1. CASE req'[d].op = "idle"
    BY <2>1 DEF Fits, ManualOps
  <2>2. CASE req'[d].op # "idle"
    <3>1. req'[d] = req[d] /\ Fits(req[d])
      BY <1>1, <2>2 DEF Finish, Idle, AInv, IInv, TypeOK
    <3> QED  BY <1>1, <3>1, ReadFits
  <2> QED  BY <2>1, <2>2
<1>3. TablesOk'
  BY <1>1, SameTables DEF AInv
<1> QED  BY <1>2, <1>3

LEMMA NextLane == LanesApart /\ AInv /\ [Next]_vars => AInv'
<1> SUFFICES ASSUME LanesApart, AInv, [Next]_vars PROVE AInv'
  OBVIOUS
<1>1. IInv'
  BY NextKeeps DEF AInv
<1>2. ASSUME NEW c \in Clients, Step(c)
      PROVE  TablesOk' /\ \A d \in Clients : Fits(req[d])'
  BY <1>2, ReadKeeps, WriteKeeps, AbortFits DEF Step
<1>3. CASE UNCHANGED vars
  <2>1. UNCHANGED tables /\ UNCHANGED req
    BY <1>3 DEF vars, tables
  <2>2. TablesOk'
    BY <2>1, SameTables DEF AInv
  <2>3. ASSUME NEW c \in Clients PROVE Fits(req[c])'
    <3>1. req'[c] = req[c] /\ Fits(req[c])
      BY <2>1 DEF AInv
    <3> QED  BY <2>1, <3>1, ReadFits
  <2> QED  BY <1>1, <2>2, <2>3 DEF AInv
<1> QED  BY <1>1, <1>2, <1>3 DEF AInv, Next

LEMMA LaneInvariant == Spec /\ []LanesApart => []AInv
  BY InitLane, NextLane, PTL DEF Spec

-----------------------------------------------------------------------------
(* What the sessions show.                                                 *)

\* A step writes no session, moves the status of one, or starts one.
LEMMA SessionStep ==
    ASSUME AInv, NEW c \in Clients, Step(c)
    PROVE  \/ UNCHANGED sessions
           \/ \E s \in SessionIds, row \in SessionRow : Rewrites(s, row)
           \/ OpenCreate(c)
<1>1. CASE OpenReuse(c)
  BY <1>1, OpenReuseRewrites DEF Rewrites
<1>2. CASE ResolvePlain(c) \/ ResolveQueue(c)
  BY <1>2, ResolvedRewrites DEF ResolvePlain, ResolveQueue, Rewrites
<1>3. CASE ResolveEntry(c)
  BY <1>3, ResolveEntryRewrites DEF Rewrites
<1>4. CASE ResolveExit(c)
  BY <1>4, ResolveExitRewrites DEF Rewrites
<1>5. CASE ApproveEntry(c)
  BY <1>5, ApproveEntryRewrites DEF Rewrites
<1>6. CASE ApproveExit(c)
  BY <1>6, ApproveExitRewrites DEF Rewrites
<1>7. CASE ApproveExitNoTicket(c) \/ RejectCommit(c) \/ OpenBarrierCommit(c)
  <2>1. req[c].op \in ManualOps /\ sessions' = SessionSet(req[c].session, ManualRow(req[c]))
    BY <1>7 DEF ApproveExitNoTicket, RejectCommit, OpenBarrierCommit, ManualOps
  <2> QED  BY <2>1, ManualRewrites DEF Rewrites
<1>8. CASE ConfirmCommit(c)
  BY <1>8, ConfirmRewrites DEF Rewrites
<1>9. CASE CancelCommit(c)
  BY <1>9, CancelRewrites DEF Rewrites
<1>10. CASE \/ OpenBegin(c) \/ ResolveDecide(c) \/ ResolveSense(c) \/ ResolveBegin(c)
            \/ ConfirmRead(c) \/ CancelRead(c) \/ ManualBegin(c) \/ ClaimBegin(c)
            \/ ClaimCommit(c) \/ Abort(c)
  BY <1>10 DEF OpenBegin, ResolveDecide, ResolveSense, ResolveBegin, ConfirmRead, CancelRead,
               ManualBegin, ClaimBegin, ClaimCommit, Abort, tables
<1> QED  BY <1>1, <1>2, <1>3, <1>4, <1>5, <1>6, <1>7, <1>8, <1>9, <1>10 DEF Step

\* Only the sweep of a creation writes TIMEOUT over an active status.
SweptOnly ==
    \A s \in SessionIds :
        IsActive(s) /\ sessions'[s].status = "TIMEOUT" =>
            \E c \in Clients :
                /\ req[c].op = "open" /\ req[c].lane = sessions[s].lane
                /\ sessions[s].lastRead < req[c].now - Window

LEMMA StepShows ==
    ASSUME AInv, NEW c \in Clients, Step(c)
    PROVE  TerminalStays /\ SweptOnly
<1>0. \A status \in ActiveStatuses : status \notin TerminalStatuses /\ status # "TIMEOUT"
  BY DEF ActiveStatuses, TerminalStatuses
<1>1. CASE UNCHANGED sessions
  BY <1>0, <1>1 DEF TerminalStays, SweptOnly, IsActive
<1>2. CASE \E s \in SessionIds, row \in SessionRow : Rewrites(s, row)
  <2>1. PICK s \in SessionIds, row \in SessionRow : Rewrites(s, row)
    BY <1>2
  <2>2. TerminalStays
    BY <2>1, Parts, RewriteFacts DEF TerminalStays
  <2>3. row.status = "TIMEOUT" => sessions[s].status = "TIMEOUT"
    BY <2>1, MoveFacts DEF Rewrites
  <2>4. \A k \in SessionIds : sessions'[k].status = "TIMEOUT" => sessions[k].status = "TIMEOUT"
    BY <2>1, <2>3, Parts, RewriteFacts
  <2> QED  BY <1>0, <2>2, <2>4 DEF SweptOnly, IsActive
<1>3. CASE OpenCreate(c)
  <2>1. PICK s \in SessionIds :
            /\ sessions[s].status = "ABSENT"
            /\ \A k \in SessionIds \ {s} :
                  IF IsActive(k) /\ sessions[k].lane = req[c].lane
                  THEN ~ShouldReuse(sessions[k].lastRead, req[c].now, Window)
                  ELSE sessions'[k] = sessions[k]
    BY <1>3, Started
  <2>2. "ABSENT" \notin ActiveStatuses \cup TerminalStatuses
    BY DEF ActiveStatuses, TerminalStatuses
  <2>3. TerminalStays
    BY <1>0, <2>1, <2>2 DEF TerminalStays, IsActive
  <2>4. SweptOnly
    <3> SUFFICES ASSUME NEW k \in SessionIds, IsActive(k), sessions'[k].status = "TIMEOUT"
                 PROVE  /\ req[c].op = "open" /\ req[c].lane = sessions[k].lane
                        /\ sessions[k].lastRead < req[c].now - Window
      BY DEF SweptOnly
    <3>1. /\ sessions[k].lane = req[c].lane
          /\ ~ShouldReuse(sessions[k].lastRead, req[c].now, Window)
      BY <1>0, <2>1, <2>2 DEF IsActive
    <3>2. sessions[k].lastRead \in Int /\ req[c].now \in Int /\ Window \in Nat \ {0}
      BY Parts, TimeAssumption DEF TypeOK, SessionRow, Request
    <3>3. WindowCutoff(req[c].now, Window) = req[c].now - Window
      BY <3>2 DEF WindowCutoff
    <3>4. sessions[k].lastRead < req[c].now - Window
      BY <3>1, <3>2, <3>3 DEF ShouldReuse
    <3> QED  BY <1>3, <3>1, <3>4 DEF OpenCreate
  <2> QED  BY <2>3, <2>4
<1> QED  BY <1>1, <1>2, <1>3, SessionStep

\* The statuses and the lanes that SessionLifecycle sees.
LEMMA SeenUnchanged ==
    ASSUME \A k \in SessionIds : /\ sessions'[k].status = sessions[k].status
                                 /\ sessions'[k].lane = sessions[k].lane
    PROVE  UNCHANGED Lifecycle!vars
<1>1. /\ [s \in SessionIds |-> sessions'[s].status] = [s \in SessionIds |-> sessions[s].status]
      /\ [s \in SessionIds |-> sessions'[s].lane] = [s \in SessionIds |-> sessions[s].lane]
  OBVIOUS
<1> QED  BY <1>1 DEF Lifecycle!vars

LEMMA RewriteShows ==
    ASSUME TypeOK, NEW s \in SessionIds, NEW row \in SessionRow, Rewrites(s, row)
    PROVE  [Lifecycle!Next]_Lifecycle!vars
<1> DEFINE old == [k \in SessionIds |-> sessions[k].status]
           new == [k \in SessionIds |-> sessions'[k].status]
           lanes == [k \in SessionIds |-> sessions[k].lane]
           lanes2 == [k \in SessionIds |-> sessions'[k].lane]
<1>1. /\ sessions'[s] = row /\ \A k \in SessionIds \ {s} : sessions'[k] = sessions[k]
      /\ \A k \in SessionIds : sessions'[k].lane = sessions[k].lane
  BY RewriteFacts
<1>2. CASE row.status = sessions[s].status
  BY <1>1, <1>2, SeenUnchanged
<1>3. CASE row.status # sessions[s].status
  <2>1. /\ sessions[s].status \in Statuses /\ row.status \in Statuses
        /\ \/ row.status # "TIMEOUT" /\ CanMove(sessions[s].status, row.status)
           \/ row.status = "PASSED" /\ CanMove(sessions[s].status, "APPROVED")
    BY <1>3 DEF Rewrites, Moves
  <2>2. sessions[s].status # "ABSENT"
    BY <2>1 DEF Statuses, ActiveStatuses, TerminalStatuses
  <2>3. new = [old EXCEPT ![s] = row.status] /\ lanes2 = lanes /\ old[s] = sessions[s].status
    BY <1>1
  <2> HIDE DEF new, old, lanes, lanes2
  <2>4. /\ old[s] # "ABSENT"
        /\ \E to \in Statuses :
              /\ \/ to # "TIMEOUT" /\ CanMove(old[s], to)
                 \/ to = "PASSED" /\ CanMove(old[s], "APPROVED")
              /\ new = [old EXCEPT ![s] = to]
        /\ lanes2 = lanes
    BY <2>1, <2>2, <2>3
  <2>5. Lifecycle!Move(s)
    BY <2>4 DEF Lifecycle!Move, Lifecycle!CanMove, Lifecycle!Transitions, Lifecycle!Statuses,
       Lifecycle!Abandon, Lifecycle!ActiveStatuses, Lifecycle!TerminalStatuses,
       CanMove, Transitions, Statuses, Abandon, ActiveStatuses, TerminalStatuses,
       new, old, lanes, lanes2
  <2> QED  BY <2>5, Zenon DEF Lifecycle!Next
<1> QED  BY <1>2, <1>3

LEMMA StartShows ==
    ASSUME AInv, NEW c \in Clients, OpenCreate(c)
    PROVE  [Lifecycle!Next]_Lifecycle!vars
<1>1. PICK s \in SessionIds :
          /\ sessions[s].status = "ABSENT"
          /\ sessions'[s].status \in Undecided
          /\ sessions'[s].lane = req[c].lane /\ req[c].lane \in Lanes
          /\ \A k \in SessionIds \ {s} :
                IF IsActive(k) /\ sessions[k].lane = req[c].lane
                THEN sessions'[k].status = "TIMEOUT" /\ sessions'[k].lane = sessions[k].lane
                ELSE sessions'[k] = sessions[k]
  BY Started
<1>0. PICK here \in Lanes : here = req[c].lane
  BY <1>1
<1> DEFINE first == sessions'[s].status
           old == [k \in SessionIds |-> sessions[k].status]
           new == [k \in SessionIds |-> sessions'[k].status]
           lanes == [k \in SessionIds |-> sessions[k].lane]
           lanes2 == [k \in SessionIds |-> sessions'[k].lane]
<1>2. old[s] = "ABSENT" /\ first \in Undecided
  BY <1>1
<1>3. \A k \in SessionIds :
          /\ new[k] = CASE k = s -> first
                        [] k # s /\ old[k] \in ActiveStatuses /\ lanes[k] = here -> "TIMEOUT"
                        [] OTHER -> old[k]
          /\ lanes2[k] = IF k = s THEN here ELSE lanes[k]
  BY <1>0, <1>1 DEF IsActive
<1>4. new = [k \in SessionIds |->
                CASE k = s -> first
                  [] k # s /\ old[k] \in ActiveStatuses /\ lanes[k] = here -> "TIMEOUT"
                  [] OTHER -> old[k]]
  <2> HIDE DEF old, lanes, first
  <2> QED  BY <1>3
<1>5. lanes2 = [lanes EXCEPT ![s] = here]
  BY <1>3
<1> HIDE DEF old, new, lanes, lanes2, first
<1>6. Lifecycle!Start(s, here)
  BY <1>2, <1>4, <1>5 DEF Lifecycle!Start, Lifecycle!IsActive, Lifecycle!ActiveStatuses,
     ActiveStatuses, Undecided, old, new, lanes, lanes2
<1> QED  BY <1>6, Zenon DEF Lifecycle!Next

LEMMA NextShows == AInv /\ [Next]_vars => [Lifecycle!Next]_Lifecycle!vars
<1> SUFFICES ASSUME AInv, [Next]_vars PROVE [Lifecycle!Next]_Lifecycle!vars
  OBVIOUS
<1>1. UNCHANGED sessions => UNCHANGED Lifecycle!vars
  BY SeenUnchanged
<1>2. ASSUME NEW c \in Clients, Step(c) PROVE [Lifecycle!Next]_Lifecycle!vars
  <2>1. CASE UNCHANGED sessions
    BY <1>1, <2>1
  <2>2. CASE \E s \in SessionIds, row \in SessionRow : Rewrites(s, row)
    BY <2>2, Parts, RewriteShows
  <2>3. CASE OpenCreate(c)
    BY <2>3, StartShows
  <2> QED  BY <1>2, <2>1, <2>2, <2>3, SessionStep
<1> QED  BY <1>1, <1>2 DEF Next, vars

LEMMA InitShows == Init => Lifecycle!Init
<1> SUFFICES ASSUME Init PROVE Lifecycle!Init
  OBVIOUS
<1>1. AnyLane \in Lanes
  BY LaneAssumption DEF AnyLane
<1>2. \A s \in SessionIds : sessions[s].status = "ABSENT" /\ sessions[s].lane = AnyLane
  BY DEF Init
<1>3. [s \in SessionIds |-> sessions[s].status] = [s \in SessionIds |-> "ABSENT"]
  BY <1>2
<1>4. [s \in SessionIds |-> sessions[s].lane] \in [SessionIds -> Lanes]
  BY <1>1, <1>2
<1> QED  BY <1>3, <1>4, Zenon DEF Lifecycle!Init

-----------------------------------------------------------------------------
(* The theorems.                                                           *)

\* While the requests on a lane take turns, a lane never has two active sessions:
\* openGateSession's sweep and its reuse (session.ts shouldReuse) leave no active session
\* between them.
THEOREM OneActiveSession == Spec /\ []LanesApart => []OneActivePerLane
<1>1. AInv => OneActivePerLane
  BY Parts DEF SessionsOk
<1> QED  BY <1>1, LaneInvariant, PTL

\* While the requests on a lane take turns, the barrier is commanded only for a session
\* that got its approval, and such a session never waits again (the transition table of
\* session.ts).
THEOREM CommandsAfterApproval == Spec /\ []LanesApart => []BarrierOnlyAfterApproval
<1>1. AInv => BarrierOnlyAfterApproval
  BY Parts DEF CommandsOk
<1> QED  BY <1>1, LaneInvariant, PTL

\* While the requests on a lane take turns, the barrier is commanded at most once per
\* session and reason until the passage is confirmed (ensureBarrierOpenCommandTx looks for
\* the command it would insert), and confirm-pass, which looks for none, repeats at most the
\* one reason its client words: whatever codes the clients word, no third command of a
\* reason and no second repeated reason.
THEOREM OnlyConfirmRepeats == Spec /\ []LanesApart => []ConfirmAloneRepeats
<1>1. AInv => ConfirmAloneRepeats
  BY Parts DEF CommandsOk
<1> QED  BY <1>1, LaneInvariant, PTL

\* While the requests on a lane take turns, a session that waits for payment has an open
\* item in the review queue (resolveGateSession queues it, the manual operations close it
\* with the wait).
THEOREM PaymentHoldQueued == Spec /\ []LanesApart => []PaymentHoldIsQueued
<1>1. AInv => PaymentHoldIsQueued
  BY Parts DEF ReviewsOk
<1> QED  BY <1>1, LaneInvariant, PTL

\* While the requests on a lane take turns, a session has at most one open item in the
\* review queue (every insert looks for a live one first).
THEOREM LiveReviewUnique == Spec /\ []LanesApart => []OneLiveReview
<1>1. AInv => OneLiveReview
  BY Parts DEF ReviewsOk
<1> QED  BY <1>1, LaneInvariant, PTL

\* While the requests on a lane take turns, an exit session that passed with a ticket
\* leaves it closed (processApprovedExitTx), also when entries of other lanes reuse
\* tickets meanwhile.
THEOREM ExitClosesTicket == Spec /\ []LanesApart => []PassedExitClosesTicket
<1>1. AInv => PassedExitClosesTicket
  BY Parts DEF TicketsOk
<1> QED  BY <1>1, LaneInvariant, PTL

LEMMA StepActions == AInv /\ [Next]_vars => [TerminalStays]_vars /\ [SweptOnly]_vars
<1> SUFFICES ASSUME AInv, [Next]_vars PROVE [TerminalStays]_vars /\ [SweptOnly]_vars
  OBVIOUS
<1> QED  BY StepShows DEF Next

\* While the requests on a lane take turns, a terminal session keeps its status forever:
\* what a handler read as not terminal has not ended before it writes (session.ts
\* TRANSITIONS).
THEOREM TerminalIsFinal == Spec /\ []LanesApart => TerminalFinal
<1>1. AInv /\ [Next]_vars => [TerminalStays]_vars
  BY StepActions
<1> QED  BY <1>1, LaneInvariant, PTL DEF Spec, TerminalFinal

\* While the requests on a lane take turns, openGateSession times out only sessions whose
\* last read lies before its window, and nothing else writes TIMEOUT over an active status.
THEOREM OnlyStaleSwept == Spec /\ []LanesApart => OnlyStaleExpire
<1>1. AInv /\ [Next]_vars => [SweptOnly]_vars
  BY StepActions
<1>2. AInv /\ [Next]_vars =>
          [\A s \in SessionIds :
              IsActive(s) /\ sessions'[s].status = "TIMEOUT" =>
                  \E c \in Clients :
                      /\ req[c].op = "open" /\ req[c].lane = sessions[s].lane
                      /\ sessions[s].lastRead < req[c].now - Window]_vars
  BY <1>1, Zenon DEF SweptOnly
<1> QED  BY <1>2, LaneInvariant, PTL DEF Spec, OnlyStaleExpire

\* While the requests on a lane take turns, the sessions implement SessionLifecycle: every
\* step that a client can see follows the transition table, and a lane starts a session
\* only by ending the one it had, however the steps of different lanes interleave.
THEOREM ImplementsLifecycle == Spec /\ []LanesApart => RefinesLifecycle
<1> QED
  BY InitShows, NextShows, LaneInvariant, PTL DEF Spec, RefinesLifecycle, Lifecycle!Spec

\* A client that is alone keeps its requests apart: for one client, on any number of lanes,
\* all of this holds without a condition.
THEOREM OneClient ==
    ASSUME \A c, d \in Clients : c = d
    PROVE  Spec => /\ []OneActivePerLane /\ []BarrierOnlyAfterApproval
                   /\ []ConfirmAloneRepeats /\ []PaymentHoldIsQueued /\ []OneLiveReview
                   /\ []PassedExitClosesTicket
                   /\ TerminalFinal /\ OnlyStaleExpire /\ RefinesLifecycle
<1>1. LanesApart
  BY DEF LanesApart
<1> QED
  BY <1>1, OneActiveSession, CommandsAfterApproval, OnlyConfirmRepeats, PaymentHoldQueued,
     LiveReviewUnique, ExitClosesTicket, TerminalIsFinal, OnlyStaleSwept,
     ImplementsLifecycle, PTL
=============================================================================

------------------------- MODULE GatePresenceProofs --------------------------
(***************************************************************************)
(* Proofs about GateSession for any number of concurrent clients, on the   *)
(* same lane or not: a vehicle counted as inside holds an open ticket of   *)
(* its own, as long as no exit closes a ticket that an entry in flight has *)
(* picked up.                                                              *)
(*                                                                         *)
(* An entry writes the ticket and the presence row that its snapshot held, *)
(* whatever they are by then (StillOpen).  No entry takes an open ticket   *)
(* or the plate of a presence row away, so only an exit can make it stale. *)
(***************************************************************************)
EXTENDS GateSessionProofs

\* The ticket that the exit of request r is about to close, 0 when there is none.
ClosingTicket(r) ==
    CASE r.op = "resolve" /\ r.phase = "snap" /\ ApprovesExit(r) -> r.exitTicket
      [] r.op = "approve" /\ ~IsEntry(r.session) -> r.exitTicket
      [] r.op = "confirm" /\ ~IsEntry(r.session) -> r.ticket
      [] OTHER -> 0

\* No exit in flight closes a ticket that the snapshot of an entry in flight held.  They
\* are requests of two lanes, so even a lock per lane would not exclude it.
TicketsApart ==
    \A c \in Clients : \A d \in Clients \ {c} :
        ClosingTicket(req[c]) # 0 => ClosingTicket(req[c]) # req[d].seen.ticket

\* What a snapshot held of the entry rows is still good for an entry.  A presence row of
\* another plate was found by the session's own ticket, which the entry would create: it
\* exists already, so the entry cannot commit.
StillOpen(r) ==
    /\ r.seen.ticket # 0 => IsOpenTicket(r.session, r.plate, r.seen.ticket)
    /\ r.seen.presence # 0 =>
           /\ presence[r.seen.presence].status # "ABSENT"
           /\ \/ presence[r.seen.presence].plate = r.plate
              \/ /\ r.seen.ticket = 0 /\ r.session \in SessionIds
                 /\ tickets[r.session].status # "ABSENT"

\* An unused presence row has no plate.
UnusedBlank ==
    \A i \in PresenceIds : presence[i].status = "ABSENT" => presence[i].plate = NoPlate

PresenceOk == PresenceHasOpenTicket /\ UnusedBlank

PInv == IInv /\ PresenceOk /\ \A c \in Clients : StillOpen(req[c])

LEMMA PParts ==
    ASSUME PInv
    PROVE  /\ IInv /\ TypeOK /\ PresenceHasOpenTicket /\ UnusedBlank
           /\ \A c \in Clients : StillOpen(req[c])
BY DEF PInv, IInv, PresenceOk

-----------------------------------------------------------------------------
(* What every step leaves of the tickets and the presence rows.            *)

\* Open tickets but t stay as they are, no ticket goes away, and a presence row keeps its
\* plate.
Leaves(t) ==
    /\ \A k \in SessionIds :
          /\ tickets[k].status = "OPEN" /\ k # t => tickets'[k] = tickets[k]
          /\ tickets[k].status # "ABSENT" => tickets'[k].status # "ABSENT"
    /\ \A i \in PresenceIds :
          presence[i].status # "ABSENT" =>
              presence'[i].status # "ABSENT" /\ presence'[i].plate = presence[i].plate

\* What a request saw stays good unless its ticket is closed.
LEMMA StaysOpen ==
    ASSUME TypeOK, NEW t, Leaves(t), NEW c \in Clients, req'[c] = req[c],
           StillOpen(req[c]), t # 0 => t # req[c].seen.ticket
    PROVE  StillOpen(req[c])'
<1> DEFINE r == req[c]
<1>1. /\ r.seen.ticket \in OrNull(SessionIds) /\ r.seen.presence \in OrNull(PresenceIds)
      /\ r.session \in OrNull(SessionIds)
  BY Typed
<1>2. ASSUME r.seen.ticket # 0
      PROVE  IsOpenTicket(r.session, r.plate, r.seen.ticket)'
  <2>1. IsOpenTicket(r.session, r.plate, r.seen.ticket) /\ r.seen.ticket \in SessionIds
    BY <1>1, <1>2 DEF StillOpen, OrNull
  <2>2. tickets'[r.seen.ticket] = tickets[r.seen.ticket]
    BY <1>2, <2>1 DEF Leaves, IsOpenTicket
  <2> QED  BY <2>1, <2>2 DEF IsOpenTicket
<1>3. ASSUME r.seen.presence # 0
      PROVE  /\ presence'[r.seen.presence].status # "ABSENT"
             /\ \/ presence'[r.seen.presence].plate = r.plate
                \/ /\ r.seen.ticket = 0 /\ r.session \in SessionIds
                   /\ tickets'[r.session].status # "ABSENT"
  <2>1. r.seen.presence \in PresenceIds
    BY <1>1, <1>3 DEF OrNull
  <2> QED  BY <1>3, <2>1 DEF StillOpen, Leaves
<1> HIDE DEF r
<1>4. StillOpen(r)'
  BY <1>2, <1>3 DEF StillOpen, r
<1> QED  BY <1>4 DEF r

\* A request that saw nothing has nothing to keep.
LEMMA NothingToKeep ==
    ASSUME NEW c \in Clients, req'[c].seen = NothingSeen
    PROVE  StillOpen(req[c])'
BY DEF StillOpen, NothingSeen

LEMMA LeavesKeeps ==
    ASSUME PInv, NEW c \in Clients, Step(c), NEW t, Leaves(t), StillOpen(req[c])',
           \A d \in Clients \ {c} : t # 0 => t # req[d].seen.ticket
    PROVE  \A d \in Clients : StillOpen(req[d])'
<1>1. ASSUME NEW d \in Clients \ {c} PROVE StillOpen(req[d])'
  BY <1>1, PParts, OthersWait, StaysOpen
<1> QED  BY <1>1

-----------------------------------------------------------------------------
(* Entries and exits.                                                      *)

\* The entry's ticket is open for the vehicle afterwards, and no open ticket changes.
LEMMA OpenedTicket ==
    ASSUME TypeOK, NEW r \in Request, r.session \in SessionIds, StillOpen(r),
           CreateOrGetTicket(r.session, r.plate, r.seen)
    PROVE  LET t == EntryTicket(r.session, r.seen)
           IN  /\ t \in SessionIds /\ t # 0
               /\ tickets'[t].status = "OPEN" /\ tickets'[t].plate = r.plate
               /\ \A k \in SessionIds : tickets[k].status # "ABSENT" => tickets'[k] = tickets[k]
<1>1. 0 \notin SessionIds /\ r.seen.ticket \in OrNull(SessionIds)
  BY IdAssumption DEF Request, Seen
<1>2. CASE r.seen.ticket # 0
  <2>1. r.seen.ticket \in SessionIds /\ EntryTicket(r.session, r.seen) = r.seen.ticket
    BY <1>1, <1>2 DEF OrNull, EntryTicket
  <2> QED  BY <1>1, <1>2, <2>1 DEF StillOpen, IsOpenTicket, CreateOrGetTicket
<1>3. CASE r.seen.ticket = 0
  BY <1>1, <1>3 DEF EntryTicket, CreateOrGetTicket, TypeOK
<1> QED  BY <1>2, <1>3

\* The presence row that an entry writes carries the plate of the entry, and carried it
\* before if it was in use.
LEMMA WrittenPresence ==
    ASSUME TypeOK, UnusedBlank, NEW r \in Request, r.session \in SessionIds, StillOpen(r),
           NEW t, CreateOrGetTicket(r.session, r.plate, r.seen),
           UpsertPresence(r.session, t, r.plate, r.seen.presence)
    PROVE  \E i \in PresenceIds :
              /\ presence[i].status # "ABSENT" => presence[i].plate = r.plate
              /\ presence'[i].status = "ACTIVE" /\ presence'[i].ticket = t
              /\ presence'[i].plate = r.plate
              /\ \A j \in PresenceIds \ {i} : presence'[j] = presence[j]
<1>1. PICK i \in PresenceIds :
          /\ IF r.seen.presence # 0 THEN i = r.seen.presence ELSE IsNext(i, PresenceIds, presence)
          /\ presence' = [presence EXCEPT ![i] =
                 [status |-> "ACTIVE", session |-> r.session, ticket |-> t,
                  plate |-> IF r.plate # NoPlate THEN r.plate ELSE presence[i].plate]]
  BY DEF UpsertPresence
<1>2. r.seen.presence # 0 => presence[i].plate = r.plate
  BY <1>1 DEF StillOpen, CreateOrGetTicket
<1>3. r.seen.presence = 0 => presence[i].status = "ABSENT" /\ presence[i].plate = NoPlate
  BY <1>1 DEF IsNext, UnusedBlank
<1>4. /\ presence'[i].status = "ACTIVE" /\ presence'[i].ticket = t
      /\ presence'[i].plate = r.plate
      /\ \A j \in PresenceIds \ {i} : presence'[j] = presence[j]
  BY <1>1, <1>2, <1>3 DEF TypeOK
<1> QED  BY <1>2, <1>3, <1>4

LEMMA EntryWrites ==
    ASSUME PInv, NEW c \in Clients, ResolveEntry(c) \/ ApproveEntry(c)
    PROVE  PresenceOk' /\ Leaves(0)
<1> DEFINE r == req[c]
           t == EntryTicket(r.session, r.seen)
<1>1. /\ r.op \notin {"idle", "open", "claim"}
      /\ CreateOrGetTicket(r.session, r.plate, r.seen)
      /\ UpsertPresence(r.session, t, r.plate, r.seen.presence)
  BY DEF ResolveEntry, ApproveEntry, ProcessApprovedEntry
<1>2. /\ TypeOK /\ PresenceHasOpenTicket /\ UnusedBlank
      /\ r \in Request /\ r.session \in SessionIds /\ StillOpen(r)
  BY <1>1, PParts, Typed, Working
<1>3. /\ t \in SessionIds /\ t # 0
      /\ tickets'[t].status = "OPEN" /\ tickets'[t].plate = r.plate
      /\ \A k \in SessionIds : tickets[k].status # "ABSENT" => tickets'[k] = tickets[k]
  BY <1>1, <1>2, OpenedTicket
<1> HIDE DEF t, r
<1>4. PICK i \in PresenceIds :
          /\ presence[i].status # "ABSENT" => presence[i].plate = r.plate
          /\ presence'[i].status = "ACTIVE" /\ presence'[i].ticket = t
          /\ presence'[i].plate = r.plate
          /\ \A j \in PresenceIds \ {i} : presence'[j] = presence[j]
  BY <1>1, <1>2, WrittenPresence
<1>5. PresenceHasOpenTicket'
  <2> SUFFICES ASSUME NEW j \in PresenceIds, presence'[j].status = "ACTIVE"
               PROVE  /\ presence'[j].ticket # 0
                      /\ tickets'[presence'[j].ticket].status = "OPEN"
                      /\ tickets'[presence'[j].ticket].plate = presence'[j].plate
    BY DEF PresenceHasOpenTicket
  <2>1. CASE j = i
    BY <1>3, <1>4, <2>1
  <2>2. CASE j # i
    <3>1. presence'[j] = presence[j] /\ presence[j].ticket \in OrNull(SessionIds)
      BY <1>2, <1>4, <2>2 DEF TypeOK, PresenceRow
    <3>2. /\ presence[j].ticket # 0 /\ tickets[presence[j].ticket].status = "OPEN"
          /\ tickets[presence[j].ticket].plate = presence[j].plate
      BY <1>2, <3>1 DEF PresenceHasOpenTicket
    <3> QED  BY <1>3, <3>1, <3>2 DEF OrNull
  <2> QED  BY <2>1, <2>2
<1>6. UnusedBlank'
  BY <1>2, <1>4 DEF UnusedBlank
<1>7. Leaves(0)
  BY <1>3, <1>4 DEF Leaves
<1> QED  BY <1>5, <1>6, <1>7 DEF PresenceOk

LEMMA ExitWrites ==
    ASSUME TypeOK, PresenceOk, NEW t \in OrNull(SessionIds), NEW plate,
           tickets' = TicketClosed(t), ClearPresence(t, plate)
    PROVE  PresenceOk' /\ Leaves(t)
<1>1. 0 \notin SessionIds
  BY IdAssumption
<1>2. \A k \in SessionIds :
          /\ tickets'[k].plate = tickets[k].plate
          /\ k # t => tickets'[k] = tickets[k]
          /\ tickets[k].status # "ABSENT" => tickets'[k].status # "ABSENT"
  BY <1>1 DEF TicketClosed, TypeOK, TicketRow, OrNull
<1>3. \A i \in PresenceIds :
          IF PresenceMatches(i, t, plate)
          THEN presence'[i].status = "EXITED" /\ presence'[i].plate = presence[i].plate
          ELSE presence'[i] = presence[i]
  <2>1. \A i \in PresenceIds :
            /\ presence[i] \in PresenceRow
            /\ presence'[i] = IF PresenceMatches(i, t, plate)
                              THEN [presence[i] EXCEPT !.status = "EXITED"] ELSE presence[i]
    BY DEF ClearPresence, PresenceCleared, TypeOK
  <2> QED  BY <2>1 DEF PresenceRow
<1>4. PresenceHasOpenTicket'
  <2> SUFFICES ASSUME NEW j \in PresenceIds, presence'[j].status = "ACTIVE"
               PROVE  /\ presence'[j].ticket # 0
                      /\ tickets'[presence'[j].ticket].status = "OPEN"
                      /\ tickets'[presence'[j].ticket].plate = presence'[j].plate
    BY DEF PresenceHasOpenTicket
  <2>1. ~PresenceMatches(j, t, plate) /\ presence'[j] = presence[j]
    BY <1>3
  <2>2. /\ presence[j].ticket # 0 /\ tickets[presence[j].ticket].status = "OPEN"
        /\ tickets[presence[j].ticket].plate = presence[j].plate
    BY <2>1 DEF PresenceOk, PresenceHasOpenTicket
  <2>3. presence[j].ticket # t /\ presence[j].ticket \in OrNull(SessionIds)
    BY <2>1, <2>2 DEF PresenceMatches, TypeOK, PresenceRow
  <2> QED  BY <1>2, <2>1, <2>2, <2>3 DEF OrNull
<1>5. UnusedBlank'
  BY <1>3 DEF PresenceOk, UnusedBlank
<1>6. Leaves(t)
  BY <1>2, <1>3 DEF Leaves, PresenceMatches
<1> QED  BY <1>4, <1>5, <1>6 DEF PresenceOk

\* The exits, with the ticket that TicketsApart speaks of.
LEMMA ExitCommits ==
    ASSUME PInv, NEW c \in Clients,
           ResolveExit(c) \/ ApproveExit(c) \/ (ConfirmCommit(c) /\ ~IsEntry(req[c].session))
    PROVE  PresenceOk' /\ Leaves(ClosingTicket(req[c]))
<1> DEFINE r == req[c]
           t == IF r.op = "confirm" THEN r.ticket ELSE r.exitTicket
<1>1. /\ r.op \notin {"idle", "open", "claim"} /\ ClosingTicket(r) = t
      /\ tickets' = TicketClosed(t) /\ ClearPresence(t, r.plate)
  BY DEF ResolveExit, ApproveExit, ConfirmCommit, ProcessApprovedExit, ClosingTicket
<1>2. t \in OrNull(SessionIds)
  BY Typed, PParts
<1> HIDE DEF t
<1>3. TypeOK /\ PresenceOk
  BY PParts DEF PresenceOk
<1> QED  BY <1>1, <1>2, <1>3, ExitWrites

\* The steps that touch neither tickets nor presence rows.
LEMMA QuietWrites ==
    ASSUME PresenceOk, UNCHANGED <<tickets, presence>>
    PROVE  PresenceOk' /\ Leaves(0)
BY DEF PresenceOk, PresenceHasOpenTicket, UnusedBlank, Leaves

-----------------------------------------------------------------------------
(* Snapshots.                                                              *)

\* What a snapshot has just shown is good.
LEMMA JustShown ==
    ASSUME PInv, UNCHANGED tables, NEW c \in Clients, NEW r, req'[c] = r,
           r.session \in SessionIds, r.seen \in Seen, NEW reason,
           NEW withReview, NEW withEntry \in BOOLEAN,
           SnapshotOf(r.session, r.plate, reason, withReview, withEntry, r.seen)
    PROVE  StillOpen(req[c])'
<1>1. UNCHANGED <<tickets, presence>>
  BY DEF tables
<1>2. CASE withEntry
  <2>1. /\ IsOpenTicketOf(r.session, r.plate, r.seen.ticket)
        /\ IsPresenceOf(EntryTicket(r.session, r.seen), r.plate, r.seen.presence)
    BY <1>2 DEF SnapshotOf
  <2>2. r.seen.ticket # 0 => IsOpenTicket(r.session, r.plate, r.seen.ticket)
    BY <2>1 DEF IsOpenTicketOf
  <2>3. ASSUME r.seen.presence # 0
        PROVE  /\ presence[r.seen.presence].status = "ACTIVE"
               /\ \/ presence[r.seen.presence].plate = r.plate
                  \/ r.seen.ticket = 0 /\ tickets[r.session].status = "OPEN"
    <3> DEFINE row == presence[r.seen.presence]
    <3>1. /\ row.status = "ACTIVE"
          /\ row.ticket = EntryTicket(r.session, r.seen) \/ row.plate = r.plate
      BY <2>1, <2>3 DEF IsPresenceOf, PresenceMatches
    <3>2. CASE row.ticket = EntryTicket(r.session, r.seen)
      <4>1. r.seen.presence \in PresenceIds
        BY <2>3 DEF Seen, OrNull
      <4>2. /\ tickets[row.ticket].status = "OPEN" /\ tickets[row.ticket].plate = row.plate
        BY <3>1, <4>1, PParts DEF PresenceHasOpenTicket
      <4> QED  BY <2>2, <3>1, <3>2, <4>2 DEF EntryTicket, IsOpenTicket
    <3> QED  BY <3>1, <3>2
  <2>4. StillOpen(r)
    BY <2>2, <2>3 DEF StillOpen
  <2> QED  BY <1>1, <2>4 DEF StillOpen, IsOpenTicket
<1>3. CASE ~withEntry
  BY <1>3 DEF SnapshotOf, StillOpen
<1> QED  BY <1>2, <1>3

LEMMA ResolveBeginShows ==
    ASSUME PInv, NEW c \in Clients, ResolveBegin(c)
    PROVE  StillOpen(req[c])'
<1>1. PICK v \in OrNull(ReviewIds), t \in OrNull(SessionIds), i \in OrNull(PresenceIds),
           opened \in BOOLEAN :
          LET seen == [review |-> v, ticket |-> t, presence |-> i, opened |-> opened]
          IN  /\ SnapshotOf(req[c].session, req[c].plate, req[c].reason,
                            Queues(req[c]), ApprovesEntry(req[c]), seen)
              /\ req' = [req EXCEPT ![c] = [req[c] EXCEPT !.phase = "snap", !.seen = seen]]
  BY DEF ResolveBegin
<1> DEFINE seen == [review |-> v, ticket |-> t, presence |-> i, opened |-> opened]
           r == [req[c] EXCEPT !.phase = "snap", !.seen = seen]
<1>2. req[c] \in Request /\ req[c].session \in SessionIds
  BY PParts, Typed, Working DEF ResolveBegin
<1>3. req'[c] = r /\ UNCHANGED tables
  BY <1>1, PParts DEF ResolveBegin, TypeOK
<1>4. SnapshotOf(req[c].session, req[c].plate, req[c].reason, Queues(req[c]),
                 ApprovesEntry(req[c]), seen)
  BY <1>1
<1>5. seen \in Seen
  BY DEF Seen
<1> HIDE DEF seen
<1>6. r.session = req[c].session /\ r.plate = req[c].plate /\ r.seen = seen
  BY <1>2 DEF Request
<1>7. ApprovesEntry(req[c]) \in BOOLEAN
  BY DEF ApprovesEntry
<1> HIDE DEF r
<1> QED  BY <1>2, <1>3, <1>4, <1>5, <1>6, <1>7, JustShown

LEMMA ManualBeginShows ==
    ASSUME PInv, NEW c \in Clients, ManualBegin(c)
    PROVE  StillOpen(req[c])'
<1>1. PICK r \in Request :
          /\ req' = [req EXCEPT ![c] = r] /\ r.session \in SessionIds
          /\ UNCHANGED tables
          /\ r.plate = sessions[r.session].plate
          /\ SnapshotOf(r.session, r.plate, r.reason, TRUE,
                        r.op = "approve" /\ IsEntry(r.session), r.seen)
  BY PParts, ManualBegun
<1>2. req'[c] = r /\ UNCHANGED tables
  BY <1>1, PParts DEF TypeOK
<1>3. r.seen \in Seen
  BY DEF Request
<1>4. (r.op = "approve" /\ IsEntry(r.session)) \in BOOLEAN
  OBVIOUS
<1> QED  BY <1>1, <1>2, <1>3, <1>4, JustShown

\* The other steps leave their client with an empty snapshot.
LEMMA OthersShowNothing ==
    ASSUME TypeOK, NEW c \in Clients, Step(c), ~ResolveBegin(c), ~ManualBegin(c)
    PROVE  req'[c].seen = NothingSeen
<1>1. req \in [Clients -> Request] /\ Idle.seen = NothingSeen
  BY DEF TypeOK, Idle
<1>2. CASE OpenBegin(c)
  BY <1>1, <1>2 DEF OpenBegin, Idle
<1>3. CASE ResolveDecide(c)
  BY <1>1, <1>3 DEF ResolveDecide, ResolveRequest, Idle
<1>4. CASE ResolveSense(c)
  BY <1>1, <1>4 DEF ResolveSense, ResolveRequest, Idle
<1>5. CASE ConfirmRead(c) \/ CancelRead(c)
  BY <1>1, <1>5 DEF ConfirmRead, CancelRead, Idle
<1>6. CASE ClaimBegin(c)
  BY <1>1, <1>6 DEF ClaimBegin, Idle
<1>7. CASE Finish(c)
  BY <1>1, <1>7 DEF Finish
<1> QED
  BY <1>2, <1>3, <1>4, <1>5, <1>6, <1>7
  DEF Step, OpenReuse, OpenCreate, ResolvePlain, ResolveQueue, ResolveEntry, ResolveExit,
      ConfirmCommit, CancelCommit, ApproveEntry, ApproveExit, ApproveExitNoTicket,
      RejectCommit, OpenBarrierCommit, ClaimCommit, Abort

LEMMA OwnStaysOpen ==
    ASSUME PInv, NEW c \in Clients, Step(c)
    PROVE  StillOpen(req[c])'
BY PParts, ResolveBeginShows, ManualBeginShows, OthersShowNothing, NothingToKeep

-----------------------------------------------------------------------------
(* The invariant and what follows from it.                                 *)

LEMMA StepKeeps ==
    ASSUME PInv, TicketsApart, NEW c \in Clients, Step(c)
    PROVE  PresenceOk' /\ \A d \in Clients : StillOpen(req[d])'
<1>1. StillOpen(req[c])'
  BY OwnStaysOpen
<1>2. ASSUME PresenceOk' /\ Leaves(0)
      PROVE  PresenceOk' /\ \A d \in Clients : StillOpen(req[d])'
  BY <1>1, <1>2, LeavesKeeps
<1>3. CASE ResolveEntry(c) \/ ApproveEntry(c)
  BY <1>2, <1>3, EntryWrites
<1>4. CASE ResolveExit(c) \/ ApproveExit(c) \/ (ConfirmCommit(c) /\ ~IsEntry(req[c].session))
  <2> DEFINE t == ClosingTicket(req[c])
  <2>1. PresenceOk' /\ Leaves(t)
    BY <1>4, ExitCommits
  <2>2. \A d \in Clients \ {c} : t # 0 => t # req[d].seen.ticket
    BY DEF TicketsApart
  <2> HIDE DEF t
  <2> QED  BY <1>1, <2>1, <2>2, LeavesKeeps
<1>5. CASE UNCHANGED <<tickets, presence>>
  BY <1>2, <1>5, PParts, QuietWrites DEF PInv
<1> QED
  BY <1>3, <1>4, <1>5
  DEF Step, tables, OpenBegin, OpenReuse, OpenCreate, ResolveDecide, ResolveSense,
      ResolveBegin, ResolvePlain, ResolveQueue, ConfirmRead, ConfirmCommit, CancelRead,
      CancelCommit, ManualBegin, ApproveExitNoTicket, RejectCommit, OpenBarrierCommit,
      ClaimBegin, ClaimCommit, Abort

LEMMA InitP == Init => PInv
<1> SUFFICES ASSUME Init PROVE PInv
  OBVIOUS
<1>1. IInv
  BY InitHolds
<1>2. PresenceOk
  BY DEF Init, PresenceOk, PresenceHasOpenTicket, UnusedBlank
<1>3. \A c \in Clients : StillOpen(req[c])
  BY DEF Init, StillOpen, Idle, NothingSeen
<1> QED  BY <1>1, <1>2, <1>3 DEF PInv

LEMMA NextP == TicketsApart /\ PInv /\ [Next]_vars => PInv'
<1> SUFFICES ASSUME TicketsApart, PInv, [Next]_vars PROVE PInv'
  OBVIOUS
<1>1. IInv'
  BY PParts, NextKeeps
<1>2. CASE Next
  BY <1>1, <1>2, StepKeeps DEF Next, PInv
<1>3. CASE UNCHANGED vars
  BY <1>1, <1>3 DEF vars, PInv, PresenceOk, PresenceHasOpenTicket, UnusedBlank, StillOpen,
                    IsOpenTicket
<1> QED  BY <1>2, <1>3

LEMMA PresenceInvariant == Spec /\ []TicketsApart => []PInv
BY InitP, NextP, PTL DEF Spec

\* A vehicle counted as inside holds an open ticket of that same vehicle, for any number
\* of clients on any lanes, as long as no exit closes a ticket that the snapshot of an
\* entry in flight held: processApprovedEntryTx reuses the ticket it found without
\* looking at it again (gate_lane checks it for one client).
THEOREM PresenceTicketed == Spec /\ []TicketsApart => []PresenceHasOpenTicket
<1>1. PInv => PresenceHasOpenTicket
  BY DEF PInv, PresenceOk
<1> QED  BY <1>1, PresenceInvariant, PTL

\* A client that is alone never closes a ticket that another picked up, so for one client
\* the promise holds without a condition.
THEOREM AloneTicketed ==
    ASSUME \A c, d \in Clients : c = d
    PROVE  Spec => []PresenceHasOpenTicket
<1>1. TicketsApart
  BY DEF TicketsApart
<1> QED  BY <1>1, PresenceTicketed, PTL

-----------------------------------------------------------------------------
(* Leaving under a strict sql_mode.                                        *)

\* No presence row was ever cleared.
NobodyLeft == \A i \in PresenceIds : presence[i].status # "EXITED"

LEMMA NobodyLeaves ==
    ASSUME StrictSql, TypeOK, NobodyLeft, NEW c \in Clients, Step(c)
    PROVE  NobodyLeft'
<1>1. ASSUME NEW s, NEW t, NEW plate, NEW seen, UpsertPresence(s, t, plate, seen)
      PROVE  NobodyLeft'
  <2>1. PICK i \in PresenceIds :
            presence' = [presence EXCEPT ![i] =
                [status |-> "ACTIVE", session |-> s, ticket |-> t,
                 plate |-> IF plate # NoPlate THEN plate ELSE presence[i].plate]]
    BY <1>1 DEF UpsertPresence
  <2> QED  BY <2>1 DEF NobodyLeft, TypeOK
<1>2. ASSUME NEW t, NEW plate, ClearPresence(t, plate)
      PROVE  NobodyLeft'
  BY <1>2 DEF ClearPresence, ClearRaises, PresenceCleared, NobodyLeft
<1>3. CASE ResolveEntry(c) \/ ApproveEntry(c)
  <2>1. UpsertPresence(req[c].session, EntryTicket(req[c].session, req[c].seen),
                       req[c].plate, req[c].seen.presence)
    BY <1>3 DEF ResolveEntry, ApproveEntry, ProcessApprovedEntry
  <2> QED  BY <1>1, <2>1
<1>4. CASE ResolveExit(c) \/ ApproveExit(c)
  BY <1>2, <1>4 DEF ResolveExit, ApproveExit, ProcessApprovedExit
<1>5. CASE ConfirmCommit(c)
  BY <1>2, <1>5 DEF ConfirmCommit, NobodyLeft
<1>6. CASE UNCHANGED presence
  BY <1>6 DEF NobodyLeft
<1> QED
  BY <1>3, <1>4, <1>5, <1>6
  DEF Step, tables, OpenBegin, OpenReuse, OpenCreate, ResolveDecide, ResolveSense,
      ResolveBegin, ResolvePlain, ResolveQueue, ConfirmRead, CancelRead,
      CancelCommit, ManualBegin, ApproveExitNoTicket, RejectCommit, OpenBarrierCommit,
      ClaimBegin, ClaimCommit, Abort

\* Under a strict sql_mode no vehicle that is counted as inside ever leaves the count, by
\* any exit or confirmed passage and however requests interleave: clearActivePresenceTx
\* raises whenever it has a row to clear (gate_exit_strict shows one such exit).
THEOREM StrictSqlKeepsInside == ASSUME StrictSql PROVE Spec => []NobodyLeft
<1>1. Init => NobodyLeft
  BY DEF Init, NobodyLeft
<1>2. TypeOK /\ NobodyLeft /\ [Next]_vars => NobodyLeft'
  <2>1. UNCHANGED vars /\ NobodyLeft => NobodyLeft'
    BY DEF vars, NobodyLeft
  <2> QED  BY <2>1, NobodyLeaves DEF Next
<1> QED  BY <1>1, <1>2, TypeCorrect, PTL DEF Spec
=============================================================================

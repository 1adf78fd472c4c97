# Parkly: a verification of the gate, its requests and its outbox

TLA+ models of the parts of Parkly (a parking operations platform: an Express/Prisma API over MySQL,
BullMQ workers over Redis, a MongoDB event store) where several actors meet on shared rows. Paths below
are relative to the repository; `api` stands for `apps/api/src`.

## 1. Inventory

| Component | State | Operations | Hard behaviour | What makes it correct |
|---|---|---|---|---|
| Gate passage sessions (`api/modules/gate/domain/session.ts`, `application/open-session.ts`, `resolve-session.ts`) | `gate_passage_sessions` | open or reuse, resolve with a decision, confirm pass, cancel | rows read before the transaction that writes them; a reuse window; two cameras and an operator on one lane | one active session per lane; terminal statuses are final; only stale sessions expire |
| Review queue (`application/review/*.ts`) | `gate_manual_reviews` | queue, claim, approve, reject, open barrier | one review, several operators; sessions that end under a review | at most one live review per session; a payment hold is always queued |
| Tickets, presence, barrier (`process-entry.ts`, `process-exit.ts`, `ticket-service.ts`, `presence-service.ts`) | `tickets`, `gate_active_presence`, `gate_barrier_commands` | approve entry, approve exit, confirm effects | rows found in a snapshot and written by id; deduplication without unique keys, and none at all in confirm-pass | presence has an open ticket; a passed exit closed it; the barrier is commanded only after approval, and once per reason until the passage is confirmed |
| Decision engine, fees and payment status (`decision-engine.ts`, `packages/gate-core`, `ticket-service.ts`, `tariff.service.ts`, `payment-status-resolver.ts`) | none (pure, over rows it reads) | find the ticket, quote, resolve payment, match a subscription, evaluate | answers of a dozen queries put together across vehicles, cards and subscriptions | no exit approved but for an open ticket that owes nothing, is paid or is covered |
| Idempotency keys (`server/services/idempotency.service.ts`) and the routes that use them (`register-gate-session-routes.ts`, `register-gate-capture-routes.ts`) | `api_idempotency` | claim, replay, record, fail | retries, lost answers, crashes between commit and record | one effect per key; every "ok" is true |
| Lane lock (`lib/lane-lock.ts`) | a Redis key per lane | acquire, release, expire | TTL shorter than the work | a late holder does not release its successor's lock |
| Outbox (`services/event.service.ts`, `server/services/outbox.service.ts`) | `gate_event_outbox`, MongoDB | log event, lease, sync, drain, requeue | leases, lost acknowledgements, operators | sent means stored; nothing waits forever; nothing is given up early |
| Worker (`worker/*`) | BullMQ queues, `gate_event_outbox_dlq` | scan, sync job, retry job, dead letter | stalled jobs, crashes between steps | terminal failures reach the dead-letter table |
| Authentication sessions (`api/modules/auth/application/auth-service.ts`, `auth-security.ts`, the `pkg_auth_*` procedures of V34) | `auth_user_sessions`, `auth_login_attempts`, `users.status` | login with lockout and session limit, refresh, access, logout, revoke all, disable, enable, cleanup | every statement awaits; rows are listed, then written; several processes | a reported end is final; a disable reaches every session that its last statement finds; nobody barred is let in; the limit and the lockout bind |
| Spots and their incidents (`modules/reconciliation`, `modules/incidents`, `modules/presence`) | `internal_presence_events`, `spot_occupancy_projection`, `gate_incidents`, `gate_incident_history`, pending signals in memory | accept an event, reconcile a spot, open, suppress, reopen, auto-resolve, operator's decision | every dashboard read may start a run; no lock, no unique key; memory lost on restart | one active incident per spot; a complete history; the projection and the incidents follow the spot in the end |
| Webhooks, mobile pairing, ALPR preview cache, ghost purge, tariff administration, shift close, bulk import, edge node, secret rotation | their own tables and caches | see `PROJECT.json` | retries, rotation, deduplication, late events | planned, section 8 |
| Live board, dashboards, SSE, SQL surface, topology, customers, users, media, audit, web application | read models and single-row records | | | not planned first: no protocol between steps |

How they meet: a device or an operator calls a route; the route claims an idempotency key, a capture
route also takes the lane lock; the handler reads rows, evaluates a decision and commits the session
together with ticket, presence, review and barrier rows; gate events are written with an outbox row; the
worker copies outbox rows to MongoDB, starts webhooks or queues a dead letter. Beside that, every request is
let in by an authentication session, and spot cameras feed a reconciliation that compares what they see with
`gate_active_presence` and raises incidents.

## 2. Modules

| Module | Role |
|---|---|
| `SessionDomain` | the pure rules of `session.ts`: statuses, transition table, allowed actions, status after a read, reuse window |
| `SessionLifecycle` | abstract: sessions follow the transition table, one active session per lane |
| `GateSession` | sessions, reviews, tickets, presence and barrier commands, with every handler |
| `MCGateSession` | its instances |
| `GateSessionProofs` | the inductive invariant of `GateSession` under any interleaving, and the proofs |
| `GateSessionLaneProofs` | what holds while the requests on a lane take turns, and that `GateSession` then implements `SessionLifecycle` |
| `GatePresenceProofs` | who is counted as inside: with an open ticket, and under strict SQL for ever |
| `GateDecision` | pure: what the decision engine answers to a read, over the contents of the tables |
| `GateFlow` | `GateDecision` over the tickets and presence of `GateSession` |
| `MCGateFlow` | its instance |
| `GateFlowProofs` | what an approval rests on, that `GateSession` offers what the engine answers, and that fees grow with the stay |
| `IdempotentRequest` | keys, the routes' bookkeeping around a handler, lane locks |
| `IdempotentRequestProofs` | its inductive invariant and the proofs |
| `MCIdempotentRequest` | its instances |
| `OutboxDelivery` | abstract: a row is pending until it is sent (and then stored) or given up after its attempts |
| `OutboxPipeline` | outbox rows, leases, jobs, drains, inline syncs, dead letters |
| `MCOutboxPipeline` | its instances |
| `OutboxPipelineProofs` | its invariants, and the proof that it implements `OutboxDelivery` |
| `AuthSessions` | sessions, login attempts and status of one user, with every request that changes them |
| `MCAuthSessions` | its instance |
| `AuthSessionsProofs` | the inductive invariants of `AuthSessions` and the proofs |
| `SpotDomain` | pure: what is wrong with a spot, and when a repeated signal counts |
| `SpotWatch` | reconciliation runs, the projection, incidents, operators, the world around a spot |
| `MCSpotWatch` | its instance |
| `SpotWatchProofs` | its theorems |

### GateSession

`sessions`, `reviews`, `tickets`, `presence` and `commands` are the tables; `req[c]` is what a request
carries across an `await`. Every handler is at least two actions:

- *read* (`OpenBegin`, `ResolveDecide`, `ResolveSense`, `ConfirmRead`, `CancelRead`): the rows read before
  the transaction, and the guards (`ApiError`) checked on them;
- *snapshot* (`ResolveBegin`, `ManualBegin`, `ClaimBegin`): InnoDB's REPEATABLE READ snapshot, which every
  plain `SELECT` of the transaction sees. What the handler will look up is kept in `seen`;
- *commit* (`OpenReuse`, `OpenCreate`, `ResolvePlain`, `ResolveQueue`, `ResolveEntry`, `ResolveExit`,
  `ConfirmCommit`, `CancelCommit`, `ApproveEntry`, `ApproveExit`, `ApproveExitNoTicket`, `RejectCommit`,
  `OpenBarrierCommit`, `ClaimCommit`): all writes of the transaction, applied to the current rows, as
  `UPDATE ... WHERE id` and unique keys do. `SELECT ... FOR UPDATE` in `findReusableSession` reads current
  rows and is part of the commit.

`Abort` is any rollback. Abstractions: an RFID identity is a second vehicle key handled like the plate and
is left out; a read whose plate is only advisory (`SOFT_REVIEW`) is a read without plate; the engine's
answer is any action the code can reach for that direction and ticket; equal `last_read_at` values are
ordered by choice (`opened_at` is not kept); `updateMany` is one statement; incidents, decisions, read events and audit rows are append-only and left out.
A barrier command carries the `reason_code` that the code derives: a handler's own (`CommandReason`), or what the
client of confirm-pass, manual open or a manual approval words (`Worded`), which may be a handler's. A
resolve works with the lane its request names (`req[c].lane`), the operations on a session with the session's. An
operator whom `users` does not know acts as `Nobody`, and a review claimed so is one that no operation may touch
again (`MayMutate`).

`StrictSql` says whether `sql_mode` is strict. Only `gate_exit_strict` sets it TRUE, because under it no exit of a
vehicle counted as inside ever commits (finding 1) and the other properties of exits would be vacuous;
the remaining runs show what the code does where the statement is accepted. `Subscriptions` is
`DECISION_ENABLE_SUBSCRIPTIONS`, on in `gate_concurrent` and off in the other runs: another reason code for the same
approval is what `EntryRowsHaveBarrier` could confuse, and the clients' wording shows the rest. `gate_flow` leaves out the claim of a review, which changes no row that its
properties read but the review's own claimer.

### GateDecision and GateFlow

`Decisions(read, db)` is `evaluateSessionDecision`: what a lane reads and the contents of the tables, to a ticket
and a final action. `Found` and `Selected` are the lookups of `resolveOpenTicketForDecision`, `Payment` and `Quote` the
resolver of payment status and the fee, `Answer` the rules of gate-core with the softened anti-passback,
`VipCandidates`, `Eligible` and `WithVip` the subscription. Plates and cards are model values; a read's quality says
which of the plate rules objects; heartbeat ages, confidence thresholds and dates of validity appear as what they
decide. A card may be none of the site's (`UNKNOWN`, which belongs to no subscription and forces a review), and a ticket
may be one that `getTicketTariffBridge` does not find (outside `loaded`), whose payment status is then unknown. Rows whose
order is not kept here may come in any, so `Decisions` is a set. `GateFlow` gives
`GateDecision` the tickets and presence that `GateSession` has at the time, with anything in the other tables.
`EngineAssumption` in `MCGateFlow`, which TLC evaluates, says that the actions `GateSession` lets the engine give
(`EngineActions`) are the ones `GateDecision` computes, no fewer and no more.

### IdempotentRequest

`rows` is `api_idempotency`; `effects` counts committed runs of the handler per key and `first` keeps the
payload of the first one, so that an answer can be compared with what happened. A request goes
claim → (lock → recheck →) work → record, or → spoil (`markIdempotencyFailed`) for session and heartbeat
routes, → release for captures. A response stands for the payload it answers. `RecordFails` covers both an
error before the row is written and a lost acknowledgement after it. A resolve with `autoOpenIfMissing` commits twice:
`OpenFirst` opens the session, `opened` counts that, and an error between the two (`WorkRejected` in phase
"resolve") fails the key with the session left open. The effect that `effects` counts is the resolve. A request
that ended without "ok" keeps its answer only (`Ended`). `Crash` leaves the lane lock to its TTL.

### OutboxPipeline

`rows` is the outbox (`held` is `next_retry_at` in the future, a lease or a backoff), `docs` counts MongoDB
documents, `scans`, `retries` and `letters` are the BullMQ jobs, `procs` what each process does. The steps
of a sync are the code's: lease, first read, second read (which keeps the attempt count), insert, mark; on
an error the update with the counted attempt; then the read back and the outcome. A producer scan, its
`previewOutboxBatch` and `add` are one step per row; the delay of a retry job is left open, so it may be
served early or late; a stalled job is given back or removed.

### AuthSessions

`sessions` holds the rows of one user; expiry is a flag per token, `created` is `created_at` in seconds.
`attempts` has the two kinds of counters, by username and by username and address. `procs[p]` is a request
and what it carries across an `await`: its session, the counters it read (`seen`), the rows it listed
(`batch`). A row holds the hashes of its current token pair only, so a request with an older token finds
nothing: such requests change no state and are left out, and a token is named by its session. Every statement
of a handler is an action; those that follow each other without a read or write of shared rows are one.
A disable and a complete revocation end with `Answer`, a step of its own: after their last statement they
list sessions, write audit rows and read the user before the caller hears of it, and a login that comes by
then creates a session the revocation never sees.

`ended`, `cuts`, `guesses`, `mixed`, `strays` and a request's `barred` are history: what callers were told,
how many complete revocations made their last statement, what a request could have known when it began. No action of the
code reads them. `cuts` also stamps new rows (`epoch`), which says which revocations a session outlived.

### SpotDomain and SpotWatch

`SpotDomain!Decide` is `reconcileSpotProjection` as a function of the newest event, the plates inside and the
subscription rules; `HitCount` and `HitsNeeded` are the noise policy. A decision is its fingerprint: the reason, the
observed plate, whose plate was expected, whose subscription matched and the id of the presence row, so a
vehicle that left and came back is another signal. `inside` maps a plate to that id.
`SpotWatch` runs them: `StartRun` reads (four parallel queries, one instant here), `Upsert` and `ReadBack` are
`persistProjection`, `ReadActive` and `ReadLatest` the two lookups of `syncIncidentFromSpotProjection`, then one
action per outcome writes by id and `Tell` appends the history row. `StartResolve` and `Resolve` are an
operator's call of `pkg_incident_resolve`, which updates whatever it finds. `pending` is the memory of the one
API process. `overlaps` is history: the times a run or operator made an incident active after a status
changed behind its reading. The cooldown of a repeated signal depends on severities and clocks that are not
kept, so a repeated signal may be published or noted quietly.

## 3. Runs

| Run | Question | Properties | States (about) |
|---|---|---|---|
| `gate_lane` | does one lane keep its order over the reuse window, one request at a time? | OneActivePerLane, OneLiveReview, RefinesLifecycle, OnlyStaleExpire | 0.7 M |
| `gate_flow` | do whole entry and exit histories keep the five tables together? | PaymentHoldIsQueued, PresenceHasOpenTicket, PassedExitClosesTicket, BarrierOnlyAfterApproval, ConfirmAloneRepeats, ExitsAccounted, TerminalFinal | 1.4 M |
| `gate_concurrent` | what survives when two requests interleave at every await? | TypeOK, PassedHasBarrier, EntryRowsHaveBarrier | 2.0 M |
| `gate_exit_strict` | can an approved exit commit under strict SQL? (no) | ApprovedExitCommits | violation |
| `gate_race_terminal` | is a terminal session final under concurrency? (no) | TerminalFinal | violation |
| `idempotency` | one effect, true answers, whatever is repeated or fails? | TypeOK, EffectOncePerKey, OkAnswersTheEffect, DeviceReplayMatches, LockTakenOnlyByExpiry, ClaimSettles | 0.35 M |
| `capture_claims` | does a capture finish? (no) | CaptureSettles | violation |
| `outbox_lease` | leases that hold: one worker per row, the delivery promise, dead letters, announcements | OneSyncPerRow, RefinesDelivery, FailureReachesDlq, SentIsAnnounced | 0.1 M |
| `outbox_faults` | leases that expire, lost acknowledgements, three kinds of sync, requeue, crash | TypeOK, SentHasDocument, FailedIsExhausted, PendingSettles | 0.6 M |
| `access` | do logins, refreshes, revocations and the lockout of a user hold against each other? | TypeOK, EndedStaysEnded, RevokeAllReachesAll, GrantsAreCurrent, SessionCap, NewestNotEvicted, LockoutHolds | 0.9 M |
| `spot` | do overlapping runs and operators leave a spot with the incident it deserves? | TypeOK, OneActivePerSpot, StatusIsRecorded, OrderReturns, TroubleOpens | 0.5 M |
| `outbox_drain_dlq` | does a failure found by a drain reach the dead-letter table? (no) | FailureReachesDlq | violation |

### Bounds, and why they are enough

- Sessions, reviews, presence: 2 each (1 under concurrency). Every property of the gate relates at most two
  rows of a table, and a second vehicle or lane adds no new pair. Tickets need no bound: a session creates
  at most one, whose code is derived from the session.
- Times: one value where only order of operations matters; 0..2 with a window of 1 in `gate_lane`, which
  has a read inside, at and beyond the boundary.
- Clients: one for the properties that need turns, two for those that hold regardless. Two clients on two lanes
  that take turns on each are beyond a run of minutes and are covered by the proofs.
- `Worded` is `ENTRY_APPROVED`, a reason that an entry's handler uses too, so that a client's wording may repeat a
  handler's (and, at an exit, differ from it); in `gate_concurrent` it is `CONFIRM_PASS`, which no approval gives, so that
  a barrier opened by hand does not pass for a command of the entry.
- `MaxCommands` 3 in `gate_flow`, so that a third command of a reason would show (1 where only "some" matters), and `MaxDocs`, `MaxRetries` 1 saturate counters that the
  properties compare with less.
- Faults: 1 at any point (a second one adds only what the retry of the first already shows); requeues: 1;
  attempts: 2, so that there is a first, a last and none beyond.
- The outbox runs, `access` and `spot` switch deadlock checking off: with a bounded number of rows or events the system comes to rest. The
  gate and request runs keep it on.
- `access`: two requests (every race of the code is between a reading and one other request) and three
  sessions over a limit of 1, so that an eviction chooses and a session is created behind it; a lockout after
  2 failures from two addresses; 2 revocations and 1 crash.
- `spot`: two runs or operators, one vehicle, 4 incidents, grace of 2 hits, 2 events. Events stop while there
  are incidents left for the runs in flight, so that the bound on incidents never stops a run.
- `Loads` in both: a behaviour chooses in its initial state which kinds of requests or events meet in it.
  The sets put together what touches the same rows; all actions occur, and the product of all kinds, which
  is out of reach, adds only their independent interleavings. The proofs are for any `Loads`.
- `ExitsAccounted` in `gate_flow`: two vehicles and tickets, two subscriptions and one card that either may
  hold, a fee of two with nothing, part or all of it paid. A wrong combination needs one vehicle, one other, and what
  each holds. 5808 contents of the tables, nineteen reads, with an unknown card and a ticket that does not load among them; the
  theorem is for any.
- Symmetry is used in `gate_concurrent` (clients) and `access`, whose properties are all invariants.

### Fairness

`IdempotentRequest`: a request whose process lives runs on (`WF` on its own steps), a Redis TTL runs out.
Callers owe nothing, and faults are not fair. `OutboxPipeline`: a process that lives goes on, time passes,
the producer loop scans (`worker/index.ts`, an endless loop with its own error handling), BullMQ serves
waiting jobs, the dead-letter worker runs. Operators and event sources owe nothing. `GateSession` and
`AuthSessions` state safety only. `SpotWatch`: what has begun goes on, and somebody keeps looking at the spot:
`WF` of starting a run by whichever process is free. Nothing in the code runs by itself; a dashboard that is
open polls, and without a reader there is no promise. Operators and the world owe nothing. Weak fairness of the queue suffices because a waiting job stays waiting until it is taken.

## 4. What holds, and when

While the requests on a lane take turns, the gate keeps its promises about sessions, reviews and commands:
the transition table, one active session per lane, one live review, a queued payment hold, a closed ticket
behind every exit, and a barrier commanded once per reason until the passage is confirmed. confirm-pass is the
exception even with one client: it inserts its command without looking for one (`resolve-session.ts:488`), under a reason its
client words, so it may repeat one command of the session; `ConfirmAloneRepeats` says that this is all it
may repeat, and that nothing else repeats any. That is proved for any number of clients whose steps
interleave freely across lanes (`LanesApart`, section 6). None of it survives two concurrent requests on one
lane, because handlers read before their transaction or in its snapshot and write by primary key afterwards,
and no unique key stands in: `TerminalFinal`, `OneActivePerLane`, `OneLiveReview`, `PaymentHoldIsQueued`,
`PassedExitClosesTicket`, `BarrierOnlyAfterApproval`, `ConfirmAloneRepeats` and `OnlyStaleExpire` all fail with
two clients. `LanesApart` is what a lock per lane gives while it lasts. The code has one, `withLaneLock` of
`lib/lane-lock.ts`, but only the capture routes take it: nothing makes the session routes take turns.

Tickets and presence need another condition, because they are shared by all lanes. An entry writes the ticket
its snapshot showed without looking at it again; if an exit on another lane closes that ticket in between, the
vehicle is counted as inside on a closed ticket. `PresenceHasOpenTicket` holds for any interleaving in which
that one race does not occur (`TicketsApart`), turns on a lane or not; with turns on each lane alone it fails.

What survives any interleaving is in `gate_concurrent`: nothing passes without a command that opened its
barrier, and no vehicle is counted as inside without an entry that did.

The sessions of a user do better: all their promises are proved for any number of concurrent requests, but
for the lockout. Its counters are read, awaited and written back, so overlapping logins lose failures, and
`LockoutHolds` is stated for stretches without overlap. What keeps the rest is that no write depends on a
stale status: `rotateSessionTokens` leaves `revoked_at` alone, the revocation procedure takes all rows rather
than the listed ones, and `authenticateAccessToken` reads the user again. A login that checked the status
before a disable may create a session after it; that row is LIVE and opens nothing, until the user is enabled
again: the session works then, although it was created under the disable. `RevokeAllReachesAll` is stated
relative to the revocation's last statement for that reason: nothing older than it works, also not a session
that a login created since the procedure's caller listed them. Between that statement and the answer (`Answer`)
there are listings and audit writes; a login that comes by then, or one that had checked its user before, leaves
a session that works although the caller is told afterwards that all were revoked. The code promises no more.

A spot has one active incident as long as runs do not overlap on it; every further one is due to a reading
that went out of date (`OneActivePerSpot`). The doubled incidents do not last: each run resolves the newest
active one, and when the spot is in order the runs go on until none is left (`OrderReturns`). Trouble that
lasts ends in an active incident except in one case, `Muted`: the latest incident is closed under another
signal, or too long ago, and the signal needs several hits. `syncIncidentFromSpotProjection` then counts
from that closed incident's snapshot every time and never from the pending state
(`incident-service.ts:447`), so the second hit is never reached. The tests of the noise control
(`pr24-incident-noise-control.test.ts`) count hits only where no incident existed before.

## 5. Findings

1. `ApprovedExitCommits`: `clearActivePresenceTx` writes NULL into `presence_hash`, NOT NULL since V26.
2. `TerminalFinal` with two requests: `resolve-session.ts:279` updates by id after a stale read.
3. `CaptureSettles`: a device capture claims its idempotency key twice and is refused by its own claim.
4. `FailureReachesDlq`: `drainOutboxOnce` gives rows up without a dead letter.

A run shows one such exit for 1 and one such capture for 3. That it is every exit and every capture is proved:
under strict SQL nobody who is counted as inside is ever counted out (`StrictSqlKeepsInside`), and no capture is
ever ingested or settled (`CapturesNeverIngested`).

For 4, `SweepExists` is the scheduled event `evt_outbox_dlq_migration` of V27, which copies FAILED rows. The
migration creates it with `PREPARE`, which MySQL rejects for `CREATE EVENT`, and ignores the error, so the
runs about dead letters take it as absent; `outbox_faults` runs with it present, as an operator may create it.

## 6. Proofs

`GateSessionProofs` proves for any number of clients, lanes, plates, operators and rows, with strict SQL and
subscriptions on or off, from the assumptions named in `GateSession`:

- `TypeCorrect`: `Spec => []TypeOK`
- `PassedCommanded`: `Spec => []PassedHasBarrier`
- `EntryRowsCommanded`: `Spec => []EntryRowsHaveBarrier`

The handlers write what they read before an await, so the two guarantees are not inductive by themselves.
They hold because nothing they rest on is ever taken back. `IInv` says so: a request works on a row that
exists and keeps its lane (`Targets`), a command that a snapshot showed is still there, under the reason the
request will use (`Opened`), a read that will write PASSED read PASSED, whose command exists (`Passing`), and a
presence row names a session (`Entered`). A step either changes no table (`ReadStep`) or ends its request and
takes nothing back (`CommitStep`); `PlainCommit`, `EntryCommit`, `ExitCommit` and `OpenCommit` reduce the
handlers to the second, and one lemma per action or pair of actions applies them.

`GateSessionLaneProofs` proves what two requests on one lane break (finding 2) while they take turns: no two
requests in flight work on the same lane (`LanesApart`, over `LaneOf` a request). There may be any number of
clients, whose steps interleave, and any lanes, plates, operators, rows and times:

- `OneActiveSession`, `CommandsAfterApproval`, `OnlyConfirmRepeats`, `PaymentHoldQueued`, `LiveReviewUnique`,
  `ExitClosesTicket`: `Spec /\ []LanesApart => []` the properties of `gate_lane` and `gate_flow`
- `TerminalIsFinal`, `OnlyStaleSwept`: `Spec /\ []LanesApart =>` the action properties `TerminalFinal` and
  `OnlyStaleExpire`
- `ImplementsLifecycle`: `Spec /\ []LanesApart => RefinesLifecycle`
- `OneClient`: for one client, which is what `gate_lane` and `gate_flow` check, all nine hold of `Spec`

The invariant adds `Fits` to the properties: what a request read before its await is still so, in its session's
status, its ticket and its snapshot. Three arguments keep it. A step that writes stays in its lane (`StaysIn`: the
sessions, commands and reviews of other lanes are as they were, and tickets, which lanes share, may change but
never go away). Whatever a request of another lane read is then still so (`FitsBeside`). And what a request has just
read fits at once. A commit rewrites one session along the table (`Rewrites`); `SessionsPart`, the lemmas on commands,
reviews and tickets, and a lemma per handler do the rest. That a creation leaves no active session in its lane
needs `OneActivePerLane` before: a survivor of the sweep would be the only one, hence the latest, hence reused
(`Started`). `OneActivePerLane` also makes a reuse harmless: the session reused is the one active, so the sweep has
nothing to time out (`OpenReuseRewrites`). Two things hold only as part of the whole: a session's ticket exists
(`TicketKnown`) and a live review has a session (`ReviewKnown`). A passage is confirmed once because its session is
then over, and that is why at most one reason of it is repeated.

`GatePresenceProofs` proves for any clients on any lanes, on the same lane or not:

- `PresenceTicketed`: `Spec /\ []TicketsApart => []PresenceHasOpenTicket`
- `AloneTicketed`: for one client, `Spec => []PresenceHasOpenTicket`
- `StrictSqlKeepsInside`: under strict SQL, `Spec => []NobodyLeft`, no presence row is ever EXITED

`TicketsApart` says that no exit in flight is about to close a ticket that another request's snapshot held for an entry.
The invariant says that what a snapshot held of an entry's rows is still good for it (`StillOpen`), or that the
entry cannot commit: a presence row that carries another plate was found by the session's own ticket, which exists
already, so the unique ticket code refuses the entry. No step but an exit takes an open ticket or a presence row's
plate away (`Leaves`), and an exit clears every presence row of the ticket it closes (`ExitWrites`).

`GateFlowProofs` proves for any vehicles, cards, subscriptions, tariffs, reads and contents of the tables:

- `EngineKeepsAccounts`: `Spec => []ExitsAccounted`
- `EngineDecides`: over the tickets that `GateSession` has, `GateDecision` answers a plate with an action and a ticket
  that `GateSession` offers (`Decides`), so its theorems hold of the computed answers
- `ApprovalsAreClear`: no subscription lifts a doubt; nothing is approved with the sensor down, a blocked or lost
  card, a doubtful plate, a plate and a card of different tickets, or an entry that conflicts with a presence
- `FeeGrows`: a longer stay never owes less

The ticket selected was found by the card or by the plate that was read (`FoundIsOpen`); if the rules approve, the
payment status of that ticket says why (`RulesAccount`); if they hold for payment and the subscription lets
the vehicle out, what was read belongs to it, and so does the ticket (`EligibleCovers`). `EngineAssumption` of
`MCGateFlow` is the converse of `EngineDecides` on an instance: every action offered is one that some read gets.

`OutboxPipelineProofs` proves for any rows, processes, kinds of sync and bounds:

- `TypeCorrect`: `Spec => []TypeOK`
- `SentImpliesDocument`: `Spec => []SentHasDocument`
- `FailedImpliesExhausted`: `Spec => []FailedIsExhausted`
- `LeasesExclude`: `Leased` implies `Spec => []OneSyncPerRow`
- `ImplementsDelivery`: `Leased` and `AcksReliable` imply `Spec => RefinesDelivery`

The first three need no assumption about leases, only `Traced`: a process about to mark or to announce a row
has seen its document inserted, and documents never disappear. `Leased` says that no lease runs out under its
holder, nothing syncs inline and nothing is requeued. A process claims the row it works on and the rest of its
batch; under `Leased` no two processes claim a row (`Exclusive`), a process lists a row once (`Apart`), a claimed
row is not due (`Covered`), and so the attempts a process read are those the row has (`Counted`). Every action
then is a step of `OutboxDelivery` or leaves its variables alone. Without `Leased` the refinement is false: a
late writer replaces SENT by PENDING.

`AuthSessionsProofs` proves all seven properties of the run `access` for any sessions, requests, addresses,
limit, threshold and loads: `TypeCorrect`, `EndedForever`, `RevocationComplete`, `GrantsCurrent`, `NewestKept`,
`LimitHolds`, `LockoutBinds`. The first five follow from one inductive invariant. `SessionCap` needs a
counting argument: `CapInv` says of every set of logins in their limit check that the live sessions outside
what they will evict are at most the limit plus the other logins before their check; a session created or
a batch evicted changes both sides by one known set. `LockoutHolds` needs `LockInv`: while logins have not
overlapped, at most one login is past its check (`OneLogin`), the counter it carries is the table's
(`AtMostOneAhead`) and the USERNAME counter keeps step with the failures (`InStep`).

`SpotWatchProofs` proves for any plates, subscription rules, requests, loads and bounds:

- `TypeCorrect`: `Spec => []TypeOK`
- `HistoryComplete`: `Spec => []StatusIsRecorded`
- `OneActiveButStale`: `Spec => []OneActivePerSpot`

`TypeOK` needs to know that a request that will write or tell names an incident that exists (`Known`). The history
stays complete because whoever changes a status goes on to tell it (`ChangeRecorded`) and reads the
status again when it does, so that its row also covers a later change. `OneActivePerSpot` follows from `Fresh`: a
reading that has not gone out of date is still true, so a run that will open an incident on it finds none active
and an operator's incident is active. A status change that is not counted in `overlaps` then either adds the
first active incident or none (`StatusStep`); all other requests' readings are out of date after it.

`IdempotentRequestProofs` proves for all callers, keys, payloads, lanes and fault bounds, from the module's
assumptions about disjoint routes, NULL values and `LaneOf` only:

- `TypeCorrect`: `Spec => []TypeOK`
- `OneEffect`: `Spec => []EffectOncePerKey`
- `OkIsTrue`: `Spec => []OkAnswersTheEffect`
- `DeviceAnswersMatch`: `Spec => []DeviceReplayMatches`
- `LockKept`: `Spec => LockTakenOnlyByExpiry`
- `CapturesNeverIngested`: `Spec => []CapturesStuck`

The first four follow from one invariant, `IInv`; `LockKept` needs its types and looks at each step. `EffectOncePerKey` alone is not inductive: it must be known that a
key has at most one request past its claim (`OneOwner`), that such a request's row exists and carries its
payload (`Owned`), that a key in work has no effect yet (`Unworked`) and one in record has exactly its own
(`Worked`), what a settled row says about the effect (`RowAgrees`) and what an answer says about it
(`AnswerAgrees`). A capture waiting for the lane or for its second claim owns its row like any other; that
its second claim is then refused is why no capture ever reaches the work phase (`CaptureRefused`, `CapturesWait`),
which is finding 3 for any number of captures and faults. The layout is: facts about
rewriting one request; one lemma per action or group of actions with the same effect; `InitHolds`,
`NextKeeps` and the temporal theorems.

Model-checked only: liveness (`ClaimSettles`, `PendingSettles`, `FailureReachesDlq`, `SentIsAnnounced`,
`OrderReturns`, `TroubleOpens`), which is beyond the proof system. Every other property of a passing run is a
theorem.

## 7. What is not modelled

Request validation, authorisation, response shaping, metrics and logging; the thresholds and confidences behind
a decision; the payload of events; the components that `PROJECT.json` lists as `not_modelled`. Most of the
repository by size is the web user interface, administration of single records, read models and their
SQL, which have no protocol between steps for a model checker to explore; the models follow the part where
several actors meet on shared rows. Other writers of the core tables are the ghost presence purge, the edge routes, the shift
service and the realtime device heartbeats; the purge is planned, the others touch rows these modules leave out.

## 8. Plan

1. Webhook delivery: an abstract "delivered or logged as failed" and the retries that implement it,
   composed with `OutboxPipeline` at the announcement.
2. The ghost purge on top of `presence`; mobile pairing; shift close.
3. Review claims with several operators; the capture ingest on top of `GateSession`.

New questions take runs of their own only where the existing instances cannot answer them.

-------------------------- MODULE IdempotentRequest --------------------------
(***************************************************************************)
(* Idempotency keys (api_idempotency) and the routes that run their        *)
(* handler under one:                                                      *)
(*   session    the gate session and review routes: claim, handle, record; *)
(*   heartbeat  the device heartbeat: the same, with a payload check;      *)
(*   capture    ALPR, RFID and sensor reads: claim, take the lane lock in  *)
(*              Redis, claim again inside it, ingest, record, release.     *)
(*                                                                         *)
(* A client sends a request, and may send the same key again after any     *)
(* answer or a crash.  What the handler does to the business tables is one *)
(* committed effect, before which a resolve that may open its session      *)
(* (autoOpenIfMissing) commits the opening; the modules of those tables    *)
(* say what they are.  A key here is a (scope, idempotency_key) pair: the  *)
(* scope names route and lane, session or device, so a key belongs to one  *)
(* route.                                                                  *)
(***************************************************************************)
EXTENDS Integers

CONSTANTS
    Clients,        \* callers, each with one request in flight
    SessionKeys,    \* keys of the session routes
    HeartbeatKeys,  \* keys of the heartbeat route
    CaptureKeys,    \* keys of the capture routes
    Lanes,          \* lane locks
    LaneOf,         \* the lane of each capture key
    Payloads,       \* request bodies, as far as request_hash tells them apart
    Nothing,        \* no payload, no response, no holder
    Orphan,         \* a lock whose holder is gone
    RedisReliable,  \* FALSE when a lane lock may be refused for want of Redis
    MaxFaults       \* bound: crashes and failing bookkeeping writes

Keys == SessionKeys \cup HeartbeatKeys \cup CaptureKeys

ASSUME RouteAssumption ==
    /\ SessionKeys \cap HeartbeatKeys = {}
    /\ SessionKeys \cap CaptureKeys = {}
    /\ HeartbeatKeys \cap CaptureKeys = {}
ASSUME LaneAssumption == LaneOf \in [CaptureKeys -> Lanes]
ASSUME NullAssumption ==
    Nothing \notin Payloads /\ Nothing \notin Clients
    /\ Orphan \notin Clients /\ Orphan # Nothing
ASSUME BoundAssumption == MaxFaults \in Nat /\ RedisReliable \in BOOLEAN

VARIABLES
    rows,     \* api_idempotency
    opened,   \* committed openings of a session for a resolve, per key
    effects,  \* committed runs of the handler, per key
    first,    \* the payload of the first of them
    lock,     \* lane locks: Nothing, the holder, or Orphan
    req,      \* the request each client has in flight, or the last one's answer
    faults    \* faults so far

vars == <<rows, opened, effects, first, lock, req, faults>>

KeyRow == [status: {"ABSENT", "IN_PROGRESS", "SUCCEEDED", "FAILED"},
           hash: Payloads \cup {Nothing}, response: Payloads \cup {Nothing}]

Phases == {"idle", "lock", "recheck", "work", "resolve", "record", "spoil", "release"}

Answers == {"none", "ok", "busy", "mismatch", "error"}

Request == [phase: Phases, key: Keys \cup {Nothing}, payload: Payloads \cup {Nothing},
            answer: Answers, body: Payloads \cup {Nothing}]

NoRow == [status |-> "ABSENT", hash |-> Nothing, response |-> Nothing]

IsCapture(k) == k \in CaptureKeys

-----------------------------------------------------------------------------
(* Claiming a key.                                                         *)

\* claimIdempotency inserts the row; the primary key refuses a second one.
Claimed(k, p) ==
    [rows EXCEPT ![k] = [status |-> "IN_PROGRESS", hash |-> p, response |-> Nothing]]

\* Variants: a request in progress counts as done; the hash of the stored request is not
\* compared.
RefusalEager(k, p) == IF rows[k].status = "FAILED" THEN "busy" ELSE "ok"

RefusalUnchecked(k, p) == IF rows[k].status = "SUCCEEDED" THEN "ok" ELSE "busy"

\* What a caller is told when the row exists.  The device routes compare request_hash
\* (assertIdempotencyHash), the session routes do not.
Refusal(k, p) ==
    IF k \notin SessionKeys /\ rows[k].hash # p THEN "mismatch"
    ELSE IF rows[k].status = "SUCCEEDED" THEN "ok" ELSE "busy"

\* No request in flight.  Of the last one only an "ok" is remembered with what it answered.
Ended(answer) == [phase |-> "idle", key |-> Nothing, payload |-> Nothing,
                  answer |-> answer, body |-> Nothing]

\* The request of client c ends without a response.
Answered(c, answer) == req' = [req EXCEPT ![c] = Ended(answer)]

Goto(c, phase) == req' = [req EXCEPT ![c].phase = phase]

\* The first phase of the route after its claim.
FirstPhase(k) == IF IsCapture(k) THEN "lock" ELSE "work"

Claim(c) ==
    /\ req[c].phase = "idle"
    /\ \E k \in Keys, p \in Payloads :
          LET begun == [phase |-> FirstPhase(k), key |-> k, payload |-> p,
                        answer |-> "none", body |-> Nothing]
          IN  /\ rows[k].status = "ABSENT"
              /\ rows' = Claimed(k, p)
              /\ req' = [req EXCEPT ![c] = begun]
    /\ UNCHANGED <<opened, effects, first, lock, faults>>

\* The key exists: replay its response or refuse.
Refuse(c) ==
    /\ req[c].phase = "idle"
    /\ \E k \in Keys, p \in Payloads :
          /\ rows[k].status # "ABSENT"
          /\ req' = [req EXCEPT ![c] =
                 IF Refusal(k, p) = "ok"
                 THEN [phase |-> "idle", key |-> k, payload |-> p, answer |-> "ok",
                       body |-> rows[k].response]
                 ELSE Ended(Refusal(k, p))]
    /\ UNCHANGED <<rows, opened, effects, first, lock, faults>>

-----------------------------------------------------------------------------
(* The lane lock of the capture routes: SET NX PX, released by its holder  *)
(* only, and expiring whether or not the holder is done.                   *)

Holds(c, l) == lock[l] = c

AcquireLock(c) ==
    LET l == LaneOf[req[c].key]
    IN  /\ req[c].phase = "lock"
        /\ lock[l] = Nothing
        /\ lock' = [lock EXCEPT ![l] = c]
        /\ Goto(c, "recheck")
        /\ UNCHANGED <<rows, opened, effects, first, faults>>

\* Every retry found the lane taken, or Redis did not answer: LANE_BUSY.  The capture
\* routes leave the key as it is.
LaneBusy(c) ==
    /\ req[c].phase = "lock"
    /\ lock[LaneOf[req[c].key]] # Nothing \/ ~RedisReliable
    /\ Answered(c, "busy")
    /\ UNCHANGED <<rows, opened, effects, first, lock, faults>>

\* Inside the lock the route claims the same key once more and goes on only if it gets it.
Recheck(c) ==
    LET r == req[c]
    IN  /\ r.phase = "recheck"
        /\ IF rows[r.key].status = "ABSENT"
           THEN rows' = Claimed(r.key, r.payload) /\ Goto(c, "work")
           ELSE /\ req' = [req EXCEPT ![c] =
                      [@ EXCEPT !.phase = "release", !.answer = Refusal(r.key, r.payload),
                                !.body = IF Refusal(r.key, r.payload) = "ok"
                                         THEN rows[r.key].response ELSE Nothing]]
                /\ UNCHANGED rows
        /\ UNCHANGED <<opened, effects, first, lock, faults>>

\* Variant: the lock is deleted whoever holds it.
ReleasedBlindly(c, l) == [lock EXCEPT ![l] = Nothing]

\* tryRelease compares the stored value with its own before it deletes.
Released(c, l) == IF Holds(c, l) THEN [lock EXCEPT ![l] = Nothing] ELSE lock

\* finally: the answer leaves after the lock is released.
ReleaseLock(c) ==
    /\ req[c].phase = "release"
    /\ lock' = Released(c, LaneOf[req[c].key])
    /\ IF req[c].answer = "ok" THEN Goto(c, "idle") ELSE Answered(c, req[c].answer)
    /\ UNCHANGED <<rows, opened, effects, first, faults>>

LockExpires(l) ==
    /\ lock[l] # Nothing
    /\ lock' = [lock EXCEPT ![l] = Nothing]
    /\ UNCHANGED <<rows, opened, effects, first, req, faults>>

-----------------------------------------------------------------------------
(* The handler and the bookkeeping after it.                               *)

Working(c) == req[c].phase \in {"work", "resolve"}

\* openOrReuseSessionAndResolve commits the opening of the session, then resolves it.
OpenFirst(c) ==
    LET r == req[c]
    IN  /\ r.phase = "work" /\ r.key \in SessionKeys
        /\ opened' = [opened EXCEPT ![r.key] = @ + 1]
        /\ Goto(c, "resolve")
        /\ UNCHANGED <<rows, effects, first, lock, faults>>

Work(c) ==
    LET r == req[c]
    IN  /\ Working(c)
        /\ effects' = [effects EXCEPT ![r.key] = @ + 1]
        /\ first' = [first EXCEPT ![r.key] = IF @ = Nothing THEN r.payload ELSE @]
        /\ Goto(c, "record")
        /\ UNCHANGED <<rows, opened, lock, faults>>

\* Where an error goes: a capture route marks nothing and only releases its lock.
ErrorPhase(c) ==
    IF IsCapture(req[c].key)
    THEN req' = [req EXCEPT ![c] = [@ EXCEPT !.phase = "release", !.answer = "error"]]
    ELSE Goto(c, "spoil")

\* The handler raised and its transaction rolled back; a session it opened stays open.
WorkRejected(c) ==
    /\ Working(c)
    /\ ErrorPhase(c)
    /\ UNCHANGED <<rows, opened, effects, first, lock, faults>>

\* Variant: a status outside the enumeration.
RecordedMisnamed(k, body) ==
    [rows EXCEPT ![k] = [@ EXCEPT !.status = "COMPLETED", !.response = body]]

\* markIdempotencySucceeded.
Recorded(k, body) ==
    [rows EXCEPT ![k] = [@ EXCEPT !.status = "SUCCEEDED", !.response = body]]

Record(c) ==
    LET r == req[c]
    IN  /\ r.phase = "record"
        /\ rows' = Recorded(r.key, r.payload)
        /\ req' = [req EXCEPT ![c] =
               [@ EXCEPT !.phase = IF IsCapture(r.key) THEN "release" ELSE "idle",
                         !.answer = "ok", !.body = r.payload]]
        /\ UNCHANGED <<opened, effects, first, lock, faults>>

\* A step after the handler's commit raises: the audit row, the recording itself, or
\* the recording took place and its acknowledgement was lost.
RecordFails(c) ==
    LET r == req[c]
    IN  /\ r.phase = "record" /\ faults < MaxFaults
        /\ rows' \in {rows, Recorded(r.key, r.payload)}
        /\ ErrorPhase(c)
        /\ faults' = faults + 1
        /\ UNCHANGED <<opened, effects, first, lock>>

\* Variants: a failed key is given back; it is not marked.
SpoiledRow(k) == [rows EXCEPT ![k] = NoRow]

FailedUnmarked(k) == rows

\* markIdempotencyFailed, whatever the row says; the stored response stays.
Failed(k) == [rows EXCEPT ![k].status = "FAILED"]

Spoil(c) ==
    /\ req[c].phase = "spoil"
    /\ rows' = Failed(req[c].key)
    /\ Answered(c, "error")
    /\ UNCHANGED <<opened, effects, first, lock, faults>>

\* The route ignores an error of markIdempotencyFailed.
SpoilFails(c) ==
    /\ req[c].phase = "spoil" /\ faults < MaxFaults
    /\ Answered(c, "error")
    /\ faults' = faults + 1
    /\ UNCHANGED <<rows, opened, effects, first, lock>>

\* The API process dies: the caller sees an error, the lane lock waits for its TTL.
Crash(c) ==
    /\ req[c].phase # "idle" /\ faults < MaxFaults
    /\ lock' = [l \in Lanes |-> IF Holds(c, l) THEN Orphan ELSE lock[l]]
    /\ Answered(c, "error")
    /\ faults' = faults + 1
    /\ UNCHANGED <<rows, opened, effects, first>>

-----------------------------------------------------------------------------
Init ==
    /\ rows = [k \in Keys |-> NoRow]
    /\ opened = [k \in Keys |-> 0]
    /\ effects = [k \in Keys |-> 0]
    /\ first = [k \in Keys |-> Nothing]
    /\ lock = [l \in Lanes |-> Nothing]
    /\ req = [c \in Clients |-> Ended("none")]
    /\ faults = 0

\* What a request in flight does by itself.
Handle(c) ==
    \/ AcquireLock(c) \/ LaneBusy(c) \/ Recheck(c) \/ ReleaseLock(c)
    \/ OpenFirst(c) \/ Work(c) \/ WorkRejected(c) \/ Record(c) \/ Spoil(c)

Next ==
    \/ \E c \in Clients :
          Claim(c) \/ Refuse(c) \/ Handle(c) \/ RecordFails(c) \/ SpoilFails(c) \/ Crash(c)
    \/ \E l \in Lanes : LockExpires(l)

Spec == Init /\ [][Next]_vars

\* A request whose process lives runs to its answer, and a TTL runs out.  Callers owe
\* nothing.
Fairness ==
    /\ \A c \in Clients : WF_vars(Handle(c))
    /\ \A l \in Lanes : WF_vars(LockExpires(l))

FairSpec == Spec /\ Fairness

-----------------------------------------------------------------------------
(* Properties.                                                             *)

\* The key table, the locks and every request in flight are well formed.
TypeOK ==
    /\ rows \in [Keys -> KeyRow]
    /\ opened \in [Keys -> Nat]
    /\ effects \in [Keys -> Nat]
    /\ first \in [Keys -> Payloads \cup {Nothing}]
    /\ lock \in [Lanes -> Clients \cup {Nothing, Orphan}]
    /\ req \in [Clients -> Request]
    /\ faults \in Nat

\* However callers repeat a key, and whatever fails, its handler commits at most once, and
\* so does the opening before it, also when nothing follows it (claimIdempotency: a row is
\* claimed by its INSERT and never again).
EffectOncePerKey == \A k \in Keys : effects[k] <= 1 /\ opened[k] <= 1

\* A caller is told "ok" only about an effect that was committed, with that effect's own
\* response, also when the answer is a replay (response_json of a SUCCEEDED row).
OkAnswersTheEffect ==
    \A c \in Clients :
        req[c].answer = "ok" =>
            effects[req[c].key] > 0 /\ req[c].body = first[req[c].key]

\* A device never gets the response to a request it did not make: the key compares
\* request_hash before it replays (assertIdempotencyHash).
DeviceReplayMatches ==
    \A c \in Clients :
        req[c].answer = "ok" /\ req[c].key \notin SessionKeys =>
            req[c].body = req[c].payload

\* A lane lock is taken from its holder by its TTL alone: no request releases the lock
\* that a later request acquired after the expiry (the GET and DEL of tryRelease).
LockTakenOnlyByExpiry ==
    [][\A l \in Lanes : \A c \in Clients :
          lock[l] = c /\ lock'[l] = Nothing =>
              \/ req[c].phase = "release" /\ req'[c].phase = "idle"
              \/ UNCHANGED req]_vars

\* A key that the session or heartbeat routes claimed is settled in the end, unless a
\* fault struck (then the row stays IN_PROGRESS for good: nothing else settles it).
ClaimSettles ==
    \A k \in SessionKeys \cup HeartbeatKeys :
        rows[k].status = "IN_PROGRESS" ~>
            (rows[k].status \in {"SUCCEEDED", "FAILED"} \/ faults > 0)

\* A capture whose key is claimed is ingested or reported failed in the end.
CaptureSettles ==
    \A k \in CaptureKeys :
        rows[k].status = "IN_PROGRESS" ~> (rows[k].status # "IN_PROGRESS" \/ faults > 0)
=============================================================================

----------------------- MODULE IdempotentRequestProofs -----------------------
(***************************************************************************)
(* Proofs about IdempotentRequest, for any number of clients, keys, lanes  *)
(* and payloads: the type invariant, one effect per key, and that every    *)
(* "ok" is the answer to that effect.                                      *)
(*                                                                         *)
(* None of the three is inductive.  What makes them hold is ownership: a   *)
(* request past its claim is the only one in flight for its key, because   *)
(* the row exists and a row is claimed only while it does not (Owned,      *)
(* OneOwner).  Until the owner has done its work the key has no effect     *)
(* (Unworked), and from then on row, effect and answer agree on payload    *)
(* and response (Worked, RowAgrees, AnswerAgrees).                         *)
(***************************************************************************)
EXTENDS IdempotentRequest, TLAPS

InFlight(c) == req[c].phase # "idle"

\* A request in flight has a key of its route, and the row it claimed is there.
Owned ==
    \A c \in Clients :
        InFlight(c) =>
            /\ req[c].key \in Keys /\ req[c].payload \in Payloads
            /\ req[c].phase \in {"lock", "recheck", "release"} => req[c].key \in CaptureKeys
            /\ rows[req[c].key].status # "ABSENT"
            /\ rows[req[c].key].hash = req[c].payload

OneOwner ==
    \A c, d \in Clients :
        InFlight(c) /\ InFlight(d) /\ req[c].key = req[d].key => c = d

Unworked ==
    /\ \A c \in Clients :
           req[c].phase \in {"lock", "recheck", "work", "resolve"} =>
               /\ effects[req[c].key] = 0
               /\ rows[req[c].key].status = "IN_PROGRESS"
    /\ \A k \in Keys : rows[k].status = "ABSENT" => effects[k] = 0
    /\ \A k \in Keys : effects[k] = 0 => first[k] = Nothing

\* A key is opened at most by its owner, before it does its work.
Unopened ==
    /\ \A c \in Clients :
           req[c].phase \in {"lock", "recheck", "work"} => opened[req[c].key] = 0
    /\ \A k \in Keys : rows[k].status = "ABSENT" => opened[k] = 0

Worked ==
    \A c \in Clients :
        req[c].phase = "record" =>
            effects[req[c].key] > 0 /\ first[req[c].key] = req[c].payload

RowAgrees ==
    \A k \in Keys :
        rows[k].status = "SUCCEEDED" =>
            effects[k] > 0 /\ rows[k].response = first[k] /\ rows[k].response = rows[k].hash

AnswerAgrees ==
    \A c \in Clients :
        req[c].answer = "ok" =>
            /\ req[c].key \in Keys
            /\ effects[req[c].key] > 0 /\ req[c].body = first[req[c].key]
            /\ req[c].key \notin SessionKeys => req[c].body = req[c].payload

IInv ==
    /\ TypeOK /\ Owned /\ OneOwner /\ Unworked /\ Unopened /\ Worked /\ RowAgrees /\ AnswerAgrees
    /\ EffectOncePerKey

-----------------------------------------------------------------------------
(* A step of one request that changes no key and no effect: it only moves  *)
(* towards its answer, and makes no "ok" of its own.                       *)

LEMMA QuietStep ==
    ASSUME IInv, NEW c \in Clients, InFlight(c),
           UNCHANGED <<rows, opened, effects, first>>,
           lock' \in [Lanes -> Clients \cup {Nothing, Orphan}], faults' \in Nat,
           req' \in [Clients -> Request],
           \A d \in Clients \ {c} : req'[d] = req[d],
           req'[c].phase # "idle" \/ req'[c].answer = "ok" =>
               req'[c].key = req[c].key /\ req'[c].payload = req[c].payload,
           \/ req'[c].phase \in {"idle", "spoil"}
           \/ req'[c].phase = "release" /\ req[c].key \in CaptureKeys
           \/ req'[c].phase = "recheck" /\ req[c].phase = "lock",
           req'[c].answer = "ok" => req[c].answer = "ok" /\ req'[c].body = req[c].body
    PROVE  IInv'
<1>1. TypeOK'
  BY DEF IInv, TypeOK
<1>2. Owned'
  BY DEF IInv, Owned, InFlight
<1>3. OneOwner'
  BY DEF IInv, OneOwner, InFlight
<1>4. Unworked' /\ Unopened'
  BY DEF IInv, Unworked, Unopened
<1>5. Worked'
  BY DEF IInv, Worked
<1>6. RowAgrees' /\ EffectOncePerKey'
  BY DEF IInv, RowAgrees, EffectOncePerKey
<1>7. AnswerAgrees'
  BY DEF IInv, AnswerAgrees
<1> QED
  BY <1>1, <1>2, <1>3, <1>4, <1>5, <1>6, <1>7 DEF IInv

\* What the type invariant says of one request.
LEMMA RequestTyped ==
    ASSUME TypeOK, NEW c \in Clients
    PROVE  /\ req[c] \in Request
           /\ req[c].phase \in Phases /\ req[c].key \in Keys \cup {Nothing}
           /\ req[c].payload \in Payloads \cup {Nothing} /\ req[c].answer \in Answers
           /\ req[c].body \in Payloads \cup {Nothing}
           /\ DOMAIN req = Clients
           /\ req[c] = [phase |-> req[c].phase, key |-> req[c].key,
                        payload |-> req[c].payload, answer |-> req[c].answer,
                        body |-> req[c].body]
  BY DEF TypeOK, Request

\* What a request looks like after it was given a phase, an answer and a body.
LEMMA Rewritten ==
    ASSUME TypeOK, NEW c \in Clients, NEW r \in Request,
           req' = [req EXCEPT ![c] = r]
    PROVE  /\ req' \in [Clients -> Request]
           /\ \A d \in Clients \ {c} : req'[d] = req[d]
           /\ req'[c] = r
  BY DEF TypeOK

\* An end without a response leaves nothing but that answer.
LEMMA EndMoves ==
    ASSUME TypeOK, NEW c \in Clients, NEW answer \in Answers \ {"ok"}, Answered(c, answer)
    PROVE  /\ req' \in [Clients -> Request]
           /\ \A d \in Clients \ {c} : req'[d] = req[d]
           /\ req'[c].phase = "idle" /\ req'[c].answer # "ok"
<1>1. Ended(answer) \in Request
  BY DEF Ended, Request, Phases
<1>2. req' = [req EXCEPT ![c] = Ended(answer)]
  BY DEF Answered
<1>3. Ended(answer).phase = "idle" /\ Ended(answer).answer = answer
  BY DEF Ended
<1> QED
  BY <1>1, <1>2, <1>3, Rewritten

-----------------------------------------------------------------------------
(* Steps that claim, refuse, work and record, one lemma per action.        *)

LEMMA ClaimKeeps == ASSUME IInv, NEW c \in Clients, Claim(c) PROVE IInv'
<1> USE DEF Keys
<1>1. PICK k \in Keys, p \in Payloads :
        /\ req[c].phase = "idle" /\ rows[k].status = "ABSENT"
        /\ rows' = [rows EXCEPT ![k] =
               [status |-> "IN_PROGRESS", hash |-> p, response |-> Nothing]]
        /\ req' = [req EXCEPT ![c] = [phase |-> FirstPhase(k), key |-> k, payload |-> p,
                                      answer |-> "none", body |-> Nothing]]
        /\ UNCHANGED <<opened, effects, first, lock, faults>>
  BY DEF Claim, Claimed
<1>2. /\ FirstPhase(k) \in {"lock", "work"}
      /\ FirstPhase(k) = "lock" => k \in CaptureKeys
  BY DEF FirstPhase, IsCapture
<1>3. \A d \in Clients : InFlight(d) => req[d].key # k
  BY <1>1 DEF IInv, Owned
<1>4. effects[k] = 0 /\ first[k] = Nothing
  BY <1>1 DEF IInv, Unworked
<1>5. /\ \A d \in Clients \ {c} : req'[d] = req[d]
      /\ req'[c] = [phase |-> FirstPhase(k), key |-> k, payload |-> p,
                    answer |-> "none", body |-> Nothing]
      /\ \A j \in Keys \ {k} : rows'[j] = rows[j]
      /\ rows'[k] = [status |-> "IN_PROGRESS", hash |-> p, response |-> Nothing]
  BY <1>1 DEF IInv, TypeOK
<1>6. TypeOK'
  <2>1. req' \in [Clients -> Request]
    BY <1>1, <1>2 DEF IInv, TypeOK, Request, Phases, Answers
  <2>2. rows' \in [Keys -> KeyRow]
    BY <1>1 DEF IInv, TypeOK, KeyRow
  <2> QED
    BY <1>1, <2>1, <2>2 DEF IInv, TypeOK
<1>7. Owned'
  BY <1>2, <1>3, <1>5 DEF IInv, Owned, InFlight
<1>8. OneOwner'
  BY <1>3, <1>5 DEF IInv, OneOwner, InFlight
<1>9. Unworked' /\ Unopened'
  BY <1>1, <1>2, <1>3, <1>4, <1>5 DEF IInv, Unworked, Unopened, Owned, InFlight
<1>10. Worked'
  BY <1>1, <1>2, <1>5 DEF IInv, Worked
<1>11. RowAgrees' /\ EffectOncePerKey'
  BY <1>1, <1>5 DEF IInv, RowAgrees, EffectOncePerKey
<1>12. AnswerAgrees'
  BY <1>1, <1>5 DEF IInv, AnswerAgrees
<1> QED
  BY <1>6, <1>7, <1>8, <1>9, <1>10, <1>11, <1>12 DEF IInv

LEMMA RefuseKeeps == ASSUME IInv, NEW c \in Clients, Refuse(c) PROVE IInv'
<1>1. PICK k \in Keys, p \in Payloads :
        /\ req[c].phase = "idle" /\ rows[k].status # "ABSENT"
        /\ req' = [req EXCEPT ![c] =
               IF Refusal(k, p) = "ok"
               THEN [phase |-> "idle", key |-> k, payload |-> p, answer |-> "ok",
                     body |-> rows[k].response]
               ELSE Ended(Refusal(k, p))]
        /\ UNCHANGED <<rows, opened, effects, first, lock, faults>>
  BY DEF Refuse
<1>2. /\ Refusal(k, p) \in {"ok", "busy", "mismatch"}
      /\ Refusal(k, p) = "ok" =>
             rows[k].status = "SUCCEEDED" /\ (k \notin SessionKeys => rows[k].hash = p)
  BY DEF Refusal
<1>3. rows[k].response \in Payloads \cup {Nothing}
  BY DEF IInv, TypeOK, KeyRow
<1> DEFINE r == IF Refusal(k, p) = "ok"
                THEN [phase |-> "idle", key |-> k, payload |-> p, answer |-> "ok",
                      body |-> rows[k].response]
                ELSE Ended(Refusal(k, p))
<1>4. /\ r \in Request /\ r.phase = "idle"
      /\ r.answer = "ok" =>
             /\ Refusal(k, p) = "ok"
             /\ r.key = k /\ r.payload = p /\ r.body = rows[k].response
  BY <1>2, <1>3 DEF Request, Phases, Answers, Ended
<1>5. /\ req' \in [Clients -> Request] /\ \A d \in Clients \ {c} : req'[d] = req[d]
      /\ req'[c] = r
  BY <1>1, <1>4, Rewritten DEF IInv
<1> HIDE DEF r
<1>6. TypeOK'
  BY <1>1, <1>5 DEF IInv, TypeOK
<1>7. Owned' /\ OneOwner' /\ Unworked' /\ Unopened' /\ Worked'
  BY <1>1, <1>4, <1>5 DEF IInv, Owned, OneOwner, Unworked, Unopened, Worked, InFlight
<1>8. RowAgrees' /\ EffectOncePerKey'
  BY <1>1 DEF IInv, RowAgrees, EffectOncePerKey
<1>9. AnswerAgrees'
  BY <1>1, <1>2, <1>4, <1>5 DEF IInv, RowAgrees, AnswerAgrees
<1> QED
  BY <1>6, <1>7, <1>8, <1>9 DEF IInv

\* Inside the lock the key is the request's own claim, so it is refused as busy.
LEMMA RecheckKeeps == ASSUME IInv, NEW c \in Clients, Recheck(c) PROVE IInv'
<1>1. /\ InFlight(c) /\ req[c].key \in CaptureKeys /\ req[c].key \in Keys
      /\ rows[req[c].key].status = "IN_PROGRESS"
  BY DEF IInv, Owned, Unworked, Recheck, InFlight
<1>2. Refusal(req[c].key, req[c].payload) \in {"busy", "mismatch"}
  BY <1>1 DEF Refusal
<1>3. req' = [req EXCEPT ![c] =
          [@ EXCEPT !.phase = "release", !.answer = Refusal(req[c].key, req[c].payload),
                    !.body = Nothing]]
  BY <1>1, <1>2 DEF Recheck
<1>4. UNCHANGED <<rows, opened, effects, first, lock, faults>>
  BY <1>1 DEF Recheck
<1> DEFINE r == [req[c] EXCEPT !.phase = "release",
                     !.answer = Refusal(req[c].key, req[c].payload), !.body = Nothing]
<1>5. /\ r \in Request /\ r.phase = "release" /\ r.answer # "ok"
      /\ r.key = req[c].key /\ r.payload = req[c].payload
  <2>1. req[c] \in Request
    BY RequestTyped DEF IInv
  <2> QED
    BY <1>2, <2>1 DEF Request, Phases, Answers
<1>6. /\ req' \in [Clients -> Request] /\ \A d \in Clients \ {c} : req'[d] = req[d]
      /\ req'[c] = r
  <2> HIDE DEF r
  <2>1. req' = [req EXCEPT ![c] = r]
    BY <1>3 DEF r
  <2> QED
    BY <1>5, <2>1, Rewritten DEF IInv
<1> HIDE DEF r
<1> QED
  BY <1>1, <1>4, <1>5, <1>6, QuietStep DEF IInv, TypeOK

LEMMA OpenFirstKeeps == ASSUME IInv, NEW c \in Clients, OpenFirst(c) PROVE IInv'
<1> DEFINE k == req[c].key
<1>1. /\ req[c].phase = "work" /\ InFlight(c) /\ k \in Keys /\ opened[k] = 0
  BY DEF IInv, Owned, Unopened, OpenFirst, InFlight
<1>2. /\ opened' = [opened EXCEPT ![k] = 1]
      /\ req' = [req EXCEPT ![c].phase = "resolve"]
      /\ UNCHANGED <<rows, effects, first, lock, faults>>
  BY <1>1 DEF OpenFirst, Goto, IInv, TypeOK
<1>3. /\ \A d \in Clients \ {c} : req'[d] = req[d]
      /\ req'[c].key = k /\ req'[c].payload = req[c].payload
      /\ req'[c].phase = "resolve" /\ req'[c].answer = req[c].answer
      /\ req'[c].body = req[c].body
  BY <1>2, RequestTyped DEF IInv, TypeOK
<1>4. opened'[k] = 1 /\ \A j \in Keys \ {k} : opened'[j] = opened[j]
  BY <1>1, <1>2 DEF IInv, TypeOK
<1>5. \A d \in Clients \ {c} : InFlight(d) => req[d].key \in Keys \ {k}
  BY <1>1 DEF IInv, OneOwner, Owned
<1>6. TypeOK'
  <2>1. req' \in [Clients -> Request]
    BY <1>2 DEF IInv, TypeOK, Request, Phases
  <2>2. opened' \in [Keys -> Nat]
    BY <1>1, <1>2 DEF IInv, TypeOK
  <2> QED
    BY <1>2, <2>1, <2>2 DEF IInv, TypeOK
<1>7. Owned' /\ OneOwner'
  BY <1>1, <1>2, <1>3 DEF IInv, Owned, OneOwner, InFlight
<1>8. Unworked' /\ Worked' /\ RowAgrees' /\ AnswerAgrees'
  BY <1>1, <1>2, <1>3 DEF IInv, Unworked, Worked, RowAgrees, AnswerAgrees
<1>9. Unopened'
  <2>1. ASSUME NEW d \in Clients, req'[d].phase \in {"lock", "recheck", "work"}
        PROVE  opened'[req'[d].key] = 0
    <3>1. d # c /\ req'[d] = req[d] /\ InFlight(d)
      BY <2>1, <1>3 DEF InFlight
    <3> QED
      BY <2>1, <3>1, <1>4, <1>5 DEF IInv, Unopened
  <2>2. rows[k].status # "ABSENT"
    BY <1>1 DEF IInv, Owned
  <2> QED
    BY <1>2, <1>4, <2>1, <2>2 DEF IInv, Unopened
<1>10. EffectOncePerKey'
  BY <1>2, <1>4 DEF IInv, EffectOncePerKey
<1> QED
  BY <1>6, <1>7, <1>8, <1>9, <1>10 DEF IInv

LEMMA WorkKeeps == ASSUME IInv, NEW c \in Clients, Work(c) PROVE IInv'
<1> DEFINE k == req[c].key
<1>1. /\ req[c].phase \in {"work", "resolve"} /\ InFlight(c)
      /\ k \in Keys /\ req[c].payload \in Payloads
      /\ effects[k] = 0 /\ first[k] = Nothing /\ rows[k].status = "IN_PROGRESS"
  BY DEF IInv, Owned, Unworked, Work, Working, InFlight
<1>2. /\ effects' = [effects EXCEPT ![k] = 1]
      /\ first' = [first EXCEPT ![k] = req[c].payload]
      /\ req' = [req EXCEPT ![c].phase = "record"]
      /\ UNCHANGED <<rows, opened, lock, faults>>
  BY <1>1 DEF Work, Goto, IInv, TypeOK
<1>3. /\ \A d \in Clients \ {c} : req'[d] = req[d]
      /\ req'[c].key = k /\ req'[c].payload = req[c].payload
      /\ req'[c].phase = "record" /\ req'[c].answer = req[c].answer
      /\ req'[c].body = req[c].body
  BY <1>2, RequestTyped DEF IInv, TypeOK
<1>4. /\ \A j \in Keys \ {k} : effects'[j] = effects[j] /\ first'[j] = first[j]
      /\ effects'[k] = 1 /\ first'[k] = req[c].payload
  BY <1>1, <1>2 DEF IInv, TypeOK
<1>5. \A d \in Clients \ {c} : InFlight(d) => req[d].key # k
  BY <1>1 DEF IInv, OneOwner
<1>6. TypeOK'
  <2>1. req' \in [Clients -> Request]
    BY <1>2 DEF IInv, TypeOK, Request, Phases
  <2>2. effects' \in [Keys -> Nat] /\ first' \in [Keys -> Payloads \cup {Nothing}]
    BY <1>1, <1>2 DEF IInv, TypeOK
  <2> QED
    BY <1>2, <2>1, <2>2 DEF IInv, TypeOK
<1>7. Owned' /\ OneOwner'
  BY <1>1, <1>2, <1>3 DEF IInv, Owned, OneOwner, InFlight
<1>8. Unworked'
  <2>1. ASSUME NEW d \in Clients, req'[d].phase \in {"lock", "recheck", "work", "resolve"}
        PROVE  effects'[req'[d].key] = 0 /\ rows'[req'[d].key].status = "IN_PROGRESS"
    <3>1. d # c /\ req'[d] = req[d] /\ InFlight(d)
      BY <2>1, <1>3 DEF InFlight
    <3>2. req[d].key \in Keys \ {k}
      BY <3>1, <1>5 DEF IInv, Owned
    <3> QED
      BY <2>1, <3>1, <3>2, <1>2, <1>4 DEF IInv, Unworked
  <2>2. \A j \in Keys : rows'[j].status = "ABSENT" => effects'[j] = 0
    BY <1>1, <1>2, <1>4 DEF IInv, Unworked
  <2>3. \A j \in Keys : effects'[j] = 0 => first'[j] = Nothing
    BY <1>4 DEF IInv, Unworked
  <2> QED
    BY <2>1, <2>2, <2>3 DEF Unworked
<1>9. Worked'
  <2>1. ASSUME NEW d \in Clients, d # c, req'[d].phase = "record"
        PROVE  effects'[req'[d].key] > 0 /\ first'[req'[d].key] = req'[d].payload
    <3>1. req'[d] = req[d] /\ InFlight(d)
      BY <2>1, <1>3 DEF InFlight
    <3>2. req[d].key \in Keys \ {k}
      BY <2>1, <3>1, <1>5 DEF IInv, Owned
    <3> QED
      BY <2>1, <3>1, <3>2, <1>4 DEF IInv, Worked
  <2> QED
    BY <2>1, <1>3, <1>4 DEF Worked
<1>10. RowAgrees' /\ EffectOncePerKey'
  BY <1>1, <1>2, <1>4 DEF IInv, RowAgrees, EffectOncePerKey
<1>11. AnswerAgrees'
  <2>1. ASSUME NEW d \in Clients, req'[d].answer = "ok"
        PROVE  req[d].answer = "ok" /\ req[d].key \in Keys \ {k} /\ req'[d].key = req[d].key
               /\ req'[d].body = req[d].body /\ req'[d].payload = req[d].payload
    <3>1. req[d].answer = "ok" /\ req'[d].key = req[d].key
          /\ req'[d].body = req[d].body /\ req'[d].payload = req[d].payload
      BY <2>1, <1>3
    <3>2. req[d].key \in Keys /\ effects[req[d].key] > 0
      BY <3>1 DEF IInv, AnswerAgrees
    <3> QED
      BY <3>1, <3>2, <1>1
  <2>2. ASSUME NEW d \in Clients, req'[d].answer = "ok"
        PROVE  /\ req'[d].key \in Keys
               /\ effects'[req'[d].key] > 0 /\ req'[d].body = first'[req'[d].key]
               /\ req'[d].key \notin SessionKeys => req'[d].body = req'[d].payload
    BY <2>1, <2>2, <1>4 DEF IInv, AnswerAgrees
  <2> QED
    BY <2>2 DEF AnswerAgrees
<1>12. Unopened'
  BY <1>2, <1>3 DEF IInv, Unopened
<1> QED
  BY <1>6, <1>7, <1>8, <1>9, <1>10, <1>11, <1>12 DEF IInv

\* The row of a key after the recording of its owner.
LEMMA RowRecorded ==
    ASSUME IInv, NEW c \in Clients, req[c].phase = "record",
           rows' = Recorded(req[c].key, req[c].payload),
           UNCHANGED <<opened, effects, first>>
    PROVE  /\ rows' \in [Keys -> KeyRow]
           /\ \A k \in Keys : rows'[k].hash = rows[k].hash
           /\ \A k \in Keys : rows[k].status # "ABSENT" => rows'[k].status # "ABSENT"
           /\ \A k \in Keys \ {req[c].key} : rows'[k] = rows[k]
           /\ RowAgrees'
           /\ req[c].key \in Keys
<1>1. req[c].key \in Keys /\ req[c].payload \in Payloads /\ InFlight(c)
  BY DEF IInv, Owned, InFlight
<1>2. rows' \in [Keys -> KeyRow]
  BY <1>1 DEF Recorded, IInv, TypeOK, KeyRow
<1>3. /\ rows'[req[c].key].status = "SUCCEEDED"
      /\ rows'[req[c].key].response = req[c].payload
      /\ rows'[req[c].key].hash = rows[req[c].key].hash
      /\ \A k \in Keys \ {req[c].key} : rows'[k] = rows[k]
  BY <1>1 DEF Recorded, IInv, TypeOK, KeyRow
<1>4. /\ effects[req[c].key] > 0 /\ first[req[c].key] = req[c].payload
      /\ rows[req[c].key].hash = req[c].payload
  BY <1>1 DEF IInv, Owned, Worked
<1>5. RowAgrees'
  BY <1>1, <1>3, <1>4 DEF IInv, RowAgrees
<1> QED
  BY <1>1, <1>2, <1>3, <1>5

\* A step of the owner, past its work, that updates its own row and nothing else.
LEMMA OwnerStep ==
    ASSUME IInv, NEW c \in Clients, req[c].phase \in {"record", "spoil"},
           rows' \in [Keys -> KeyRow],
           \A k \in Keys : rows'[k].hash = rows[k].hash,
           \A k \in Keys : rows[k].status # "ABSENT" => rows'[k].status # "ABSENT",
           \A k \in Keys \ {req[c].key} : rows'[k] = rows[k],
           RowAgrees',
           UNCHANGED <<opened, effects, first, lock>>, faults' \in Nat,
           req' \in [Clients -> Request],
           \A d \in Clients \ {c} : req'[d] = req[d],
           req'[c].phase # "idle" \/ req'[c].answer = "ok" =>
               req'[c].key = req[c].key /\ req'[c].payload = req[c].payload,
           \/ req'[c].phase \in {"idle", "spoil"}
           \/ req'[c].phase = "release" /\ req[c].key \in CaptureKeys,
           \/ req'[c].answer # "ok"
           \/ req[c].answer = "ok" /\ req'[c].body = req[c].body
           \/ req[c].phase = "record" /\ req'[c].body = req[c].payload
    PROVE  IInv'
<1>1. req[c].key \in Keys /\ InFlight(c)
  BY DEF IInv, Owned, InFlight
<1>2. \A d \in Clients \ {c} : InFlight(d) => req[d].key \in Keys \ {req[c].key}
  BY <1>1 DEF IInv, Owned, OneOwner
<1>3. TypeOK'
  BY DEF IInv, TypeOK
<1>4. Owned' /\ OneOwner'
  BY <1>1 DEF IInv, Owned, OneOwner, InFlight
<1>5. Unworked'
  <2>1. ASSUME NEW d \in Clients, req'[d].phase \in {"lock", "recheck", "work", "resolve"}
        PROVE  effects'[req'[d].key] = 0 /\ rows'[req'[d].key].status = "IN_PROGRESS"
    <3>1. d # c /\ req'[d] = req[d] /\ InFlight(d)
      BY <2>1 DEF InFlight
    <3> QED
      BY <2>1, <3>1, <1>2 DEF IInv, Unworked
  <2> QED
    BY <2>1 DEF IInv, Unworked
<1>6. Worked'
  BY DEF IInv, Worked
<1>7. AnswerAgrees'
  BY <1>1 DEF IInv, AnswerAgrees, Worked, Owned
<1>8. EffectOncePerKey' /\ Unopened'
  BY DEF IInv, EffectOncePerKey, Unopened
<1> QED
  BY <1>3, <1>4, <1>5, <1>6, <1>7, <1>8 DEF IInv

-----------------------------------------------------------------------------
(* The remaining actions, by the lemma that fits.                          *)

LEMMA LockKeeps ==
    ASSUME IInv, NEW c \in Clients,
           AcquireLock(c) \/ LaneBusy(c) \/ ReleaseLock(c)
    PROVE  IInv'
<1>1. CASE AcquireLock(c)
  <2>1. InFlight(c) /\ req[c].key \in CaptureKeys
    BY <1>1 DEF IInv, Owned, AcquireLock, InFlight
  <2>2. lock' \in [Lanes -> Clients \cup {Nothing, Orphan}]
    BY <1>1, <2>1, LaneAssumption DEF IInv, TypeOK, AcquireLock
  <2>3. req' = [req EXCEPT ![c].phase = "recheck"] /\ req[c].phase = "lock"
        /\ UNCHANGED <<rows, opened, effects, first, faults>>
    BY <1>1 DEF AcquireLock, Goto
  <2>4. req' \in [Clients -> Request] /\ \A d \in Clients \ {c} : req'[d] = req[d]
    BY <2>3 DEF IInv, TypeOK, Request, Phases
  <2>5. /\ req'[c].phase = "recheck" /\ req'[c].key = req[c].key
        /\ req'[c].payload = req[c].payload /\ req'[c].answer = req[c].answer
        /\ req'[c].body = req[c].body
    BY <2>3, RequestTyped DEF IInv, TypeOK
  <2> QED
    BY <2>1, <2>2, <2>3, <2>4, <2>5, QuietStep DEF IInv, TypeOK
<1>2. CASE LaneBusy(c)
  <2>1. InFlight(c) /\ UNCHANGED <<rows, opened, effects, first, lock, faults>>
    BY <1>2 DEF LaneBusy, InFlight
  <2>2. Answered(c, "busy") /\ "busy" \in Answers \ {"ok"}
    BY <1>2 DEF LaneBusy, Answers
  <2>3. /\ req' \in [Clients -> Request] /\ \A d \in Clients \ {c} : req'[d] = req[d]
        /\ req'[c].phase = "idle" /\ req'[c].answer # "ok"
    BY <2>2, EndMoves DEF IInv
  <2> QED
    BY <2>1, <2>3, QuietStep DEF IInv, TypeOK
<1>3. CASE ReleaseLock(c)
  <2>1. InFlight(c) /\ req[c].key \in CaptureKeys
        /\ UNCHANGED <<rows, opened, effects, first, faults>>
    BY <1>3 DEF IInv, Owned, ReleaseLock, InFlight
  <2>2. lock' \in [Lanes -> Clients \cup {Nothing, Orphan}]
    BY <1>3, <2>1, LaneAssumption DEF IInv, TypeOK, ReleaseLock, Released
  <2>3. CASE req[c].answer = "ok"
    <3>1. req' = [req EXCEPT ![c].phase = "idle"]
      BY <1>3, <2>3 DEF ReleaseLock, Goto
    <3>2. req' \in [Clients -> Request] /\ \A d \in Clients \ {c} : req'[d] = req[d]
      BY <3>1 DEF IInv, TypeOK, Request, Phases
    <3>3. /\ req'[c].phase = "idle" /\ req'[c].key = req[c].key
          /\ req'[c].payload = req[c].payload /\ req'[c].answer = req[c].answer
          /\ req'[c].body = req[c].body
      BY <3>1, RequestTyped DEF IInv, TypeOK
    <3> QED
      BY <2>1, <2>2, <3>2, <3>3, QuietStep DEF IInv, TypeOK
  <2>4. CASE req[c].answer # "ok"
    <3>1. Answered(c, req[c].answer) /\ req[c].answer \in Answers \ {"ok"}
      BY <1>3, <2>4, RequestTyped DEF ReleaseLock, IInv
    <3>2. /\ req' \in [Clients -> Request] /\ \A d \in Clients \ {c} : req'[d] = req[d]
          /\ req'[c].phase = "idle" /\ req'[c].answer # "ok"
      BY <3>1, EndMoves DEF IInv
    <3> QED
      BY <2>1, <2>2, <3>2, QuietStep DEF IInv, TypeOK
  <2> QED
    BY <2>3, <2>4
<1> QED
  BY <1>1, <1>2, <1>3

\* An error goes to a release of the lane lock or to the spoiling of the key.
LEMMA ErrorPhaseMoves ==
    ASSUME IInv, NEW c \in Clients, InFlight(c), ErrorPhase(c)
    PROVE  /\ req' \in [Clients -> Request]
           /\ \A d \in Clients \ {c} : req'[d] = req[d]
           /\ req'[c].key = req[c].key /\ req'[c].payload = req[c].payload
           /\ \/ req'[c].phase = "spoil"
              \/ req'[c].phase = "release" /\ req[c].key \in CaptureKeys
           /\ req'[c].answer = "ok" => req[c].answer = "ok" /\ req'[c].body = req[c].body
<1>1. CASE IsCapture(req[c].key)
  <2>1. req' = [req EXCEPT ![c] = [@ EXCEPT !.phase = "release", !.answer = "error"]]
    BY <1>1 DEF ErrorPhase
  <2> DEFINE r == [req[c] EXCEPT !.phase = "release", !.answer = "error",
                                 !.body = req[c].body]
  <2>2. /\ r \in Request /\ r.phase = "release" /\ r.answer = "error"
        /\ r.key = req[c].key /\ r.payload = req[c].payload
    <3>1. req[c] \in Request
      BY RequestTyped DEF IInv
    <3> QED
      BY <3>1 DEF Request, Phases, Answers
  <2>3. req' = [req EXCEPT ![c] = r]
    BY <2>1, RequestTyped DEF IInv
  <2> HIDE DEF r
  <2>4. /\ req' \in [Clients -> Request] /\ \A d \in Clients \ {c} : req'[d] = req[d]
        /\ req'[c] = r
    BY <2>2, <2>3, Rewritten DEF IInv
  <2> QED
    BY <1>1, <2>2, <2>4 DEF IsCapture
<1>2. CASE ~IsCapture(req[c].key)
  <2>1. req' = [req EXCEPT ![c].phase = "spoil"]
    BY <1>2 DEF ErrorPhase, Goto
  <2>2. req' \in [Clients -> Request] /\ \A d \in Clients \ {c} : req'[d] = req[d]
    BY <2>1 DEF IInv, TypeOK, Request, Phases
  <2> QED
    BY <2>1, <2>2, RequestTyped DEF IInv, TypeOK
<1> QED
  BY <1>1, <1>2

LEMMA WorkRejectedKeeps == ASSUME IInv, NEW c \in Clients, WorkRejected(c) PROVE IInv'
<1>1. InFlight(c) /\ ErrorPhase(c) /\ UNCHANGED <<rows, opened, effects, first, lock, faults>>
  BY DEF WorkRejected, Working, InFlight
<1> QED
  BY <1>1, ErrorPhaseMoves, QuietStep DEF IInv, TypeOK

LEMMA RecordKeeps == ASSUME IInv, NEW c \in Clients, Record(c) PROVE IInv'
<1>1. req[c].phase = "record" /\ rows' = Recorded(req[c].key, req[c].payload)
      /\ UNCHANGED <<opened, effects, first, lock, faults>> /\ InFlight(c)
  BY DEF Record, InFlight
<1>2. req' = [req EXCEPT ![c] =
          [@ EXCEPT !.phase = IF IsCapture(req[c].key) THEN "release" ELSE "idle",
                    !.answer = "ok", !.body = req[c].payload]]
  BY DEF Record
<1> DEFINE ph == IF IsCapture(req[c].key) THEN "release" ELSE "idle"
           r == [req[c] EXCEPT !.phase = ph, !.answer = "ok", !.body = req[c].payload]
<1>3. /\ r \in Request /\ r.phase = ph /\ r.body = req[c].payload
      /\ r.key = req[c].key /\ r.payload = req[c].payload
  <2>1. req[c].payload \in Payloads
    BY <1>1 DEF IInv, Owned
  <2>2. ph \in Phases
    BY DEF Phases
  <2>3. req[c] \in Request
    BY RequestTyped DEF IInv
  <2> HIDE DEF ph
  <2> QED
    BY <2>1, <2>2, <2>3 DEF Request, Answers
<1>4. /\ req' \in [Clients -> Request] /\ \A d \in Clients \ {c} : req'[d] = req[d]
      /\ req'[c] = r
  <2> HIDE DEF r
  <2>1. req' = [req EXCEPT ![c] = r]
    BY <1>2 DEF r
  <2> QED
    BY <1>3, <2>1, Rewritten DEF IInv
<1>5. \/ req'[c].phase \in {"idle", "spoil"}
      \/ req'[c].phase = "release" /\ req[c].key \in CaptureKeys
  BY <1>3, <1>4 DEF IsCapture
<1>6. /\ req'[c].key = req[c].key /\ req'[c].payload = req[c].payload
      /\ req'[c].body = req[c].payload
  BY <1>3, <1>4
<1> HIDE DEF r
<1> QED
  BY <1>1, <1>4, <1>5, <1>6, RowRecorded, OwnerStep DEF IInv, TypeOK

LEMMA RecordFailsKeeps == ASSUME IInv, NEW c \in Clients, RecordFails(c) PROVE IInv'
<1>1. req[c].phase = "record" /\ InFlight(c) /\ ErrorPhase(c)
      /\ rows' \in {rows, Recorded(req[c].key, req[c].payload)}
      /\ UNCHANGED <<opened, effects, first, lock>> /\ faults' = faults + 1
  BY DEF RecordFails, InFlight
<1>2. faults' \in Nat /\ lock' \in [Lanes -> Clients \cup {Nothing, Orphan}]
  BY <1>1 DEF IInv, TypeOK
<1>3. CASE rows' = rows
  BY <1>1, <1>2, <1>3, ErrorPhaseMoves, QuietStep
<1>4. CASE rows' = Recorded(req[c].key, req[c].payload)
  BY <1>1, <1>2, <1>4, ErrorPhaseMoves, RowRecorded, OwnerStep
<1> QED
  BY <1>1, <1>3, <1>4

LEMMA SpoilKeeps ==
    ASSUME IInv, NEW c \in Clients, Spoil(c) \/ SpoilFails(c) PROVE IInv'
<1>1. /\ req[c].phase = "spoil" /\ InFlight(c) /\ UNCHANGED <<opened, effects, first, lock>>
      /\ faults' \in Nat
      /\ rows' = Failed(req[c].key) \/ rows' = rows
  BY DEF Spoil, SpoilFails, InFlight, IInv, TypeOK
<1>2. Answered(c, "error") /\ "error" \in Answers \ {"ok"}
  BY DEF Spoil, SpoilFails, Answers
<1>3. /\ req' \in [Clients -> Request] /\ \A d \in Clients \ {c} : req'[d] = req[d]
      /\ req'[c].phase = "idle" /\ req'[c].answer # "ok"
  BY <1>2, EndMoves DEF IInv
<1>4. CASE rows' = rows
  BY <1>1, <1>3, <1>4, QuietStep DEF IInv, TypeOK
<1>5. CASE rows' = Failed(req[c].key)
  <2>1. req[c].key \in Keys
    BY <1>1 DEF IInv, Owned
  <2>2. rows' \in [Keys -> KeyRow]
    BY <1>5, <2>1 DEF Failed, IInv, TypeOK, KeyRow
  <2>3. /\ rows'[req[c].key].status = "FAILED"
        /\ rows'[req[c].key].hash = rows[req[c].key].hash
        /\ \A k \in Keys \ {req[c].key} : rows'[k] = rows[k]
    BY <1>5, <2>1 DEF Failed, IInv, TypeOK, KeyRow
  <2>4. RowAgrees'
    BY <1>1, <2>3 DEF IInv, RowAgrees
  <2> QED
    BY <1>1, <1>3, <2>2, <2>3, <2>4, OwnerStep
<1> QED
  BY <1>1, <1>4, <1>5

LEMMA CrashKeeps == ASSUME IInv, NEW c \in Clients, Crash(c) PROVE IInv'
<1>1. /\ InFlight(c) /\ UNCHANGED <<rows, opened, effects, first>> /\ faults' \in Nat
      /\ lock' = [l \in Lanes |-> IF Holds(c, l) THEN Orphan ELSE lock[l]]
  BY DEF Crash, InFlight, IInv, TypeOK
<1>2. lock' \in [Lanes -> Clients \cup {Nothing, Orphan}]
  BY <1>1 DEF IInv, TypeOK
<1>3. Answered(c, "error") /\ "error" \in Answers \ {"ok"}
  BY DEF Crash, Answers
<1>4. /\ req' \in [Clients -> Request] /\ \A d \in Clients \ {c} : req'[d] = req[d]
      /\ req'[c].phase = "idle" /\ req'[c].answer # "ok"
  BY <1>3, EndMoves DEF IInv
<1> QED
  BY <1>1, <1>2, <1>4, QuietStep

\* Steps that touch neither keys nor requests.
LEMMA IdleStep ==
    ASSUME IInv, UNCHANGED <<rows, opened, effects, first, req>>,
           lock' \in [Lanes -> Clients \cup {Nothing, Orphan}], faults' \in Nat
    PROVE  IInv'
  BY DEF IInv, TypeOK, Owned, OneOwner, Unworked, Unopened, Worked, RowAgrees, AnswerAgrees,
         EffectOncePerKey, InFlight

-----------------------------------------------------------------------------
LEMMA InitHolds == Init => IInv
<1> SUFFICES ASSUME Init PROVE IInv
  OBVIOUS
<1>1. TypeOK
  BY BoundAssumption DEF Init, TypeOK, KeyRow, NoRow, Request, Phases, Answers, Ended
<1>2. Owned /\ OneOwner /\ Unworked /\ Unopened /\ Worked /\ RowAgrees /\ AnswerAgrees
  BY DEF Init, NoRow, Ended, Owned, OneOwner, Unworked, Unopened, Worked, RowAgrees, AnswerAgrees,
         InFlight
<1>3. EffectOncePerKey
  BY DEF Init, EffectOncePerKey
<1> QED
  BY <1>1, <1>2, <1>3 DEF IInv

LEMMA NextKeeps == IInv /\ [Next]_vars => IInv'
<1> SUFFICES ASSUME IInv, [Next]_vars PROVE IInv'
  OBVIOUS
<1>1. ASSUME NEW c \in Clients, Handle(c) PROVE IInv'
  BY <1>1, LockKeeps, RecheckKeeps, OpenFirstKeeps, WorkKeeps, WorkRejectedKeeps, RecordKeeps,
     SpoilKeeps
     DEF Handle
<1>2. ASSUME NEW c \in Clients,
             Claim(c) \/ Refuse(c) \/ RecordFails(c) \/ SpoilFails(c) \/ Crash(c)
      PROVE  IInv'
  BY <1>2, ClaimKeeps, RefuseKeeps, RecordFailsKeeps, SpoilKeeps, CrashKeeps
<1>3. ASSUME NEW l \in Lanes, LockExpires(l) PROVE IInv'
  <2>1. lock' \in [Lanes -> Clients \cup {Nothing, Orphan}] /\ faults' \in Nat
    BY <1>3 DEF LockExpires, IInv, TypeOK
  <2> QED
    BY <1>3, <2>1, IdleStep DEF LockExpires
<1>4. CASE UNCHANGED vars
  BY <1>4, IdleStep DEF vars, IInv, TypeOK
<1> QED
  BY <1>1, <1>2, <1>3, <1>4 DEF Next

\* The inductive invariant holds in every behaviour: it relates each request in flight to
\* the row of its key, which the routes themselves never re-check.
THEOREM Invariant == Spec => []IInv
<1> QED
  BY InitHolds, NextKeeps, PTL DEF Spec

\* The tables and requests stay well formed.
THEOREM TypeCorrect == Spec => []TypeOK
<1>1. IInv => TypeOK
  BY DEF IInv
<1> QED
  BY <1>1, Invariant, PTL

\* However callers repeat a key and whatever fails, its handler commits at most once.
THEOREM OneEffect == Spec => []EffectOncePerKey
<1>1. IInv => EffectOncePerKey
  BY DEF IInv
<1> QED
  BY <1>1, Invariant, PTL

\* Every "ok", first answer or replay, is the response of the one committed effect.
THEOREM OkIsTrue == Spec => []OkAnswersTheEffect
<1>1. IInv => OkAnswersTheEffect
  BY DEF IInv, AnswerAgrees, OkAnswersTheEffect
<1> QED
  BY <1>1, Invariant, PTL

\* A device is never answered with the response to another payload.
THEOREM DeviceAnswersMatch == Spec => []DeviceReplayMatches
<1>1. IInv => DeviceReplayMatches
  BY DEF IInv, AnswerAgrees, DeviceReplayMatches
<1> QED
  BY <1>1, Invariant, PTL

-----------------------------------------------------------------------------
\* The step of one request or of a TTL that frees a lane.
FreedByHolder ==
    \A l \in Lanes : \A c \in Clients :
        lock[l] = c /\ lock'[l] = Nothing =>
            \/ req[c].phase = "release" /\ req'[c].phase = "idle"
            \/ UNCHANGED req

LEMMA StepFrees == IInv /\ [Next]_vars => [FreedByHolder]_vars
<1> SUFFICES ASSUME IInv, Next PROVE FreedByHolder
  OBVIOUS
<1>1. \A c \in Clients : c # Nothing /\ Orphan # Nothing
  BY NullAssumption
<1>2. CASE UNCHANGED lock
  BY <1>1, <1>2 DEF FreedByHolder
<1>3. ASSUME NEW d \in Clients, AcquireLock(d) PROVE FreedByHolder
  BY <1>1, <1>3 DEF AcquireLock, FreedByHolder, IInv, TypeOK
<1>4. ASSUME NEW d \in Clients, ReleaseLock(d) PROVE FreedByHolder
  <2>1. \A l \in Lanes : lock'[l] # lock[l] => lock[l] = d
    BY <1>4 DEF ReleaseLock, Released, Holds, IInv, TypeOK
  <2>2. req[d].phase = "release" /\ req'[d].phase = "idle"
    BY <1>4 DEF ReleaseLock, Goto, Answered, Ended, IInv, TypeOK, Request
  <2> QED
    BY <1>1, <2>1, <2>2 DEF FreedByHolder
<1>5. ASSUME NEW d \in Clients, Crash(d) PROVE FreedByHolder
  <2>1. \A l \in Lanes : lock'[l] = lock[l] \/ lock'[l] = Orphan
    BY <1>5 DEF Crash
  <2> QED
    BY <1>1, <2>1 DEF FreedByHolder
<1>6. ASSUME NEW l \in Lanes, LockExpires(l) PROVE FreedByHolder
  BY <1>6 DEF LockExpires, FreedByHolder
<1>7. ASSUME NEW c \in Clients,
             Claim(c) \/ Refuse(c) \/ Handle(c) \/ RecordFails(c) \/ SpoilFails(c)
      PROVE  UNCHANGED lock \/ AcquireLock(c) \/ ReleaseLock(c)
  BY <1>7 DEF Claim, Refuse, Handle, RecordFails, SpoilFails, LaneBusy, Recheck, OpenFirst, Work,
              WorkRejected, Record, Spoil
<1> QED
  BY <1>2, <1>3, <1>4, <1>5, <1>6, <1>7 DEF Next

\* A lane lock is taken from its holder by its TTL alone: tryRelease compares the stored
\* value with its own, so a late holder never frees its successor's lock.
THEOREM LockKept == Spec => LockTakenOnlyByExpiry
<1>1. IInv /\ [Next]_vars =>
          [\A l \in Lanes : \A c \in Clients :
              lock[l] = c /\ lock'[l] = Nothing =>
                  \/ req[c].phase = "release" /\ req'[c].phase = "idle"
                  \/ UNCHANGED req]_vars
  BY StepFrees, Zenon DEF FreedByHolder
<1> QED
  BY <1>1, Invariant, PTL DEF Spec, LockTakenOnlyByExpiry

-----------------------------------------------------------------------------
(* Captures.                                                               *)

\* No capture was ingested, answered "ok" or settled.
CapturesStuck ==
    /\ \A k \in CaptureKeys :
           effects[k] = 0 /\ rows[k].status \in {"ABSENT", "IN_PROGRESS"}
    /\ \A c \in Clients : req[c].answer = "ok" => req[c].key \notin CaptureKeys

\* No capture is past its second claim.
CapturesWait ==
    /\ \A k \in CaptureKeys :
           effects[k] = 0 /\ rows[k].status \in {"ABSENT", "IN_PROGRESS"}
    /\ \A c \in Clients :
           req[c].phase \in {"work", "resolve", "record", "spoil"} =>
               req[c].key \notin CaptureKeys

\* A request that waits for its lane or its second claim has claimed its key already, so
\* the second claim is refused.
LEMMA CaptureRefused ==
    ASSUME IInv, NEW c \in Clients, Recheck(c)
    PROVE  UNCHANGED rows /\ req'[c].phase = "release" /\ \A d \in Clients \ {c} : req'[d] = req[d]
<1>1. rows[req[c].key].status = "IN_PROGRESS"
  BY DEF IInv, Unworked, Recheck
<1>2. req[c] \in Request /\ req \in [Clients -> Request]
  BY DEF IInv, TypeOK
<1> QED  BY <1>1, <1>2 DEF Recheck, Request

LEMMA WaitKeeps ==
    ASSUME IInv, CapturesWait, NEW c \in Clients,
           Claim(c) \/ Refuse(c) \/ Handle(c) \/ RecordFails(c) \/ SpoilFails(c) \/ Crash(c)
    PROVE  CapturesWait'
<1> DEFINE k == req[c].key
<1>1. /\ req \in [Clients -> Request] /\ req[c] \in Request
      /\ rows \in [Keys -> KeyRow] /\ CaptureKeys \subseteq Keys
  BY DEF IInv, TypeOK, Keys
<1>2. ASSUME \A d \in Clients \ {c} : req'[d] = req[d],
             \/ req'[c].phase \notin {"work", "resolve", "record", "spoil"}
             \/ req'[c].key \notin CaptureKeys,
             \A j \in CaptureKeys :
                /\ effects'[j] = effects[j]
                /\ rows'[j] = rows[j] \/ rows'[j].status = "IN_PROGRESS"
      PROVE  CapturesWait'
  BY <1>2 DEF CapturesWait
<1>3. CASE Claim(c)
  <2>1. PICK j \in Keys, p \in Payloads :
            /\ rows' = Claimed(j, p)
            /\ req' = [req EXCEPT ![c] = [phase |-> FirstPhase(j), key |-> j, payload |-> p,
                                          answer |-> "none", body |-> Nothing]]
    BY <1>3 DEF Claim
  <2>2. \/ req'[c].phase \notin {"work", "resolve", "record", "spoil"}
        \/ req'[c].key \notin CaptureKeys
    BY <1>1, <2>1 DEF FirstPhase, IsCapture
  <2>3. \A i \in CaptureKeys : rows'[i] = rows[i] \/ rows'[i].status = "IN_PROGRESS"
    BY <1>1, <2>1 DEF Claimed
  <2>4. UNCHANGED effects
    BY <1>3 DEF Claim
  <2> QED  BY <1>1, <1>2, <2>1, <2>2, <2>3, <2>4
<1>4. CASE Recheck(c)
  BY <1>2, <1>4, CaptureRefused DEF Recheck
<1>5. CASE Refuse(c) \/ AcquireLock(c) \/ LaneBusy(c) \/ ReleaseLock(c) \/ SpoilFails(c) \/ Crash(c)
  <2>1. /\ \A d \in Clients \ {c} : req'[d] = req[d]
        /\ req'[c].phase \notin {"work", "resolve", "record", "spoil"}
    <3>1. CASE Refuse(c)
      <4>1. PICK j \in Keys, p \in Payloads :
                req' = [req EXCEPT ![c] =
                    IF Refusal(j, p) = "ok"
                    THEN [phase |-> "idle", key |-> j, payload |-> p, answer |-> "ok",
                          body |-> rows[j].response]
                    ELSE Ended(Refusal(j, p))]
        BY <3>1 DEF Refuse
      <4> QED  BY <1>1, <4>1 DEF Ended
    <3>2. CASE AcquireLock(c)
      BY <1>1, <3>2 DEF AcquireLock, Goto, Request
    <3>3. CASE ReleaseLock(c)
      BY <1>1, <3>3 DEF ReleaseLock, Goto, Answered, Ended, Request
    <3>4. ASSUME NEW answer, Answered(c, answer)
          PROVE  /\ \A d \in Clients \ {c} : req'[d] = req[d]
                 /\ req'[c].phase = "idle"
      BY <1>1, <3>4 DEF Answered, Ended
    <3>5. CASE LaneBusy(c) \/ SpoilFails(c) \/ Crash(c)
      BY <3>4, <3>5 DEF LaneBusy, SpoilFails, Crash
    <3> QED  BY <1>5, <3>1, <3>2, <3>3, <3>5
  <2>2. UNCHANGED <<rows, effects>>
    BY <1>5 DEF Refuse, AcquireLock, LaneBusy, ReleaseLock, SpoilFails, Crash
  <2> QED  BY <1>2, <2>1, <2>2
<1>6. CASE OpenFirst(c) \/ Work(c) \/ WorkRejected(c) \/ Record(c) \/ RecordFails(c) \/ Spoil(c)
  <2>1. k \notin CaptureKeys
    BY <1>6 DEF CapturesWait, Working, OpenFirst, Work, WorkRejected, Record, RecordFails, Spoil
  <2>2. /\ \A d \in Clients \ {c} : req'[d] = req[d]
        /\ req'[c].phase = "idle" \/ req'[c].key = k
    <3>1. CASE OpenFirst(c) \/ Work(c)
      BY <1>1, <3>1 DEF OpenFirst, Work, Goto, Request
    <3>2. CASE WorkRejected(c) \/ RecordFails(c)
      BY <3>2, ErrorPhaseMoves DEF WorkRejected, Working, RecordFails, InFlight
    <3>3. CASE Record(c)
      BY <1>1, <3>3 DEF Record, Request
    <3>4. CASE Spoil(c)
      BY <1>1, <3>4 DEF Spoil, Answered, Ended
    <3> QED  BY <1>6, <3>1, <3>2, <3>3, <3>4
  <2>3. \A j \in CaptureKeys : effects'[j] = effects[j] /\ rows'[j] = rows[j]
    <3>1. CASE Work(c)
      BY <1>1, <2>1, <3>1 DEF Work, IInv, TypeOK
    <3>2. CASE ~Work(c)
      <4>1. UNCHANGED effects
        BY <1>6, <3>2 DEF OpenFirst, WorkRejected, Record, RecordFails, Spoil
      <4>2. rows' = rows \/ rows' = Recorded(k, req[c].payload) \/ rows' = Failed(k)
        BY <1>6, <3>2 DEF OpenFirst, WorkRejected, Record, RecordFails, Spoil
      <4> QED  BY <1>1, <2>1, <4>1, <4>2 DEF Recorded, Failed
    <3> QED  BY <3>1, <3>2
  <2> QED  BY <1>2, <2>1, <2>2, <2>3
<1> QED  BY <1>3, <1>4, <1>5, <1>6 DEF Handle

\* However many captures there are, whatever fails or expires, none is ever ingested or
\* answered "ok", and a key that a capture claimed is never settled: inside the lane lock
\* the route claims the key that it holds already (register-gate-capture-routes.ts;
\* capture_claims shows one such capture).
THEOREM CapturesNeverIngested == Spec => []CapturesStuck
<1>1. Init => CapturesWait
  BY DEF Init, NoRow, Ended, CapturesWait, Keys
<1>2. IInv /\ CapturesWait /\ [Next]_vars => CapturesWait'
  <2>1. UNCHANGED <<rows, effects, req>> /\ CapturesWait => CapturesWait'
    BY DEF CapturesWait
  <2> QED  BY <2>1, WaitKeeps DEF Next, vars, LockExpires
<1>3. IInv /\ CapturesWait => CapturesStuck
  BY DEF IInv, AnswerAgrees, CapturesWait, CapturesStuck
<1> QED  BY <1>1, <1>2, <1>3, Invariant, PTL DEF Spec
=============================================================================

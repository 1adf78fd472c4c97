-------------------------- MODULE AuthSessionsProofs --------------------------
(***************************************************************************)
(* Proofs about AuthSessions, for any number of sessions, requests,        *)
(* addresses and revocations, and any limit and threshold.                 *)
(*                                                                         *)
(* Three invariants, each kept on top of the one before.  IInv: rows only  *)
(* age, and what a request in flight relies on stays true whatever the     *)
(* others do (Grounded, BarredNow).  CapInv: the limit holds whichever of  *)
(* the logins that picked sessions come through, since one whose picks are *)
(* stale is itself still counted.  LockInv: without overlap the counter is *)
(* behind the failures by no more than the one about to be written.        *)
(***************************************************************************)
EXTENDS AuthSessions, FiniteSetTheorems, TLAPS

Gone == Revoked \cup {"DELETED"}

\* The sessions that have been created.
Made == {s \in Sids : sessions[s].state # "ABSENT"}

\* Each of these sessions was created no later than one that is not among them.
Outlived(batch) ==
    \A s \in batch : \E k \in Made \ batch : sessions[k].created >= sessions[s].created

\* What a request in flight relies on: its session and its batch exist, a batch leaves out
\* the session to keep, and is outlived when it comes from the session limit.
Grounded(r) ==
    /\ r.phase \in {"user", "rotate", "granted", "revoke"} => r.sid \in Made
    /\ r.phase \in LoginPhases => r.address \in Addresses
    /\ r.batch \subseteq Made
    /\ r.phase = "call" => r.sid \notin r.batch
    /\ r.phase = "evict" => Outlived(r.batch)

\* A request is barred by the user's status alone, and only while that is DISABLED.
BarredNow(r) ==
    /\ r.barred \subseteq {"user"}
    /\ r.barred # {} => user.status = "DISABLED"
    /\ r.phase = "granted" => r.barred = {}

IInv ==
    /\ TypeOK /\ EndedStaysEnded /\ RevokeAllReachesAll /\ NewestNotEvicted
    /\ \A p \in Procs : Grounded(procs[p]) /\ BarredNow(procs[p])

-----------------------------------------------------------------------------
(* Types.                                                                  *)

LEMMA PhasesAre ==
    /\ Phases = {"free", "user", "rotate", "granted", "revoke", "targets", "call", "answer",
                 "verify", "count", "writeUser", "writeAddress", "clear", "insert", "list",
                 "evict"}
    /\ LoginPhases = {"verify", "count", "writeUser", "writeAddress", "clear", "insert",
                      "list", "evict"}
  BY DEF Phases, LoginPhases

LEMMA FreeTyped ==
    /\ Free \in Proc /\ Free.phase = "free" /\ Free.batch = {} /\ Free.barred = {}
  BY CountAssumption DEF Free, Proc, Phases, RequestKinds

LEMMA AnsweringTyped ==
    /\ Answering \in Proc /\ Answering.phase = "answer"
    /\ Answering.batch = {} /\ Answering.barred = {}
  BY FreeTyped DEF Answering, Free, Proc, Phases

\* What becomes of a request that has written what it will.
LEMMA RestTyped ==
    ASSUME NEW p \in Procs, Finish(p) \/ ToAnswer(p)
    PROVE  \E r \in Proc : /\ procs' = [procs EXCEPT ![p] = r]
                           /\ r.phase \in {"free", "answer"} /\ r.batch = {} /\ r.barred = {}
  BY FreeTyped, AnsweringTyped DEF Finish, ToAnswer

LEMMA ProcTyped ==
    ASSUME TypeOK, NEW p \in Procs
    PROVE  /\ procs[p] \in Proc /\ procs[p].phase \in Phases
           /\ procs[p].sid \in Sids \cup {None}
           /\ procs[p].address \in Addresses \cup {None}
           /\ procs[p].seen \in [Buckets -> 0..Threshold]
           /\ procs[p].batch \subseteq Sids /\ procs[p].barred \subseteq {"user", "session"}
           /\ DOMAIN procs = Procs
           /\ procs[p] = [phase |-> procs[p].phase, kind |-> procs[p].kind,
                          sid |-> procs[p].sid, address |-> procs[p].address,
                          seen |-> procs[p].seen, batch |-> procs[p].batch,
                          barred |-> procs[p].barred]
  BY DEF TypeOK, Proc

LEMMA GotoTyped ==
    ASSUME TypeOK, NEW p \in Procs, NEW phase \in Phases
    PROVE  LET r == [procs[p] EXCEPT !.phase = phase]
           IN  /\ r \in Proc /\ r.phase = phase /\ r.sid = procs[p].sid
               /\ r.address = procs[p].address /\ r.seen = procs[p].seen
               /\ r.batch = procs[p].batch /\ r.barred = procs[p].barred
               /\ r.kind = procs[p].kind
               /\ Goto(p, phase) <=> procs' = [procs EXCEPT ![p] = r]
<1> DEFINE r == [procs[p] EXCEPT !.phase = phase]
<1>1. procs[p] \in Proc /\ DOMAIN procs = Procs
  BY ProcTyped
<1>2. /\ r \in Proc /\ r.phase = phase /\ r.sid = procs[p].sid
      /\ r.address = procs[p].address /\ r.seen = procs[p].seen
      /\ r.batch = procs[p].batch /\ r.barred = procs[p].barred
      /\ r.kind = procs[p].kind
  BY <1>1 DEF Proc
<1>3. Goto(p, phase) <=> procs' = [procs EXCEPT ![p] = r]
  BY <1>1 DEF Goto
<1> QED
  BY <1>2, <1>3

LEMMA SessionTyped ==
    ASSUME TypeOK, NEW s \in Sids
    PROVE  /\ sessions[s] \in Session /\ DOMAIN sessions = Sids
           /\ sessions[s].created \in Nat
           /\ sessions[s] = [state |-> sessions[s].state, access |-> sessions[s].access,
                             refresh |-> sessions[s].refresh,
                             created |-> sessions[s].created, epoch |-> sessions[s].epoch]
  BY DEF TypeOK, Session

\* Rows end and never come back, and keep when they were created.
Aged ==
    \A s \in Made :
        /\ sessions'[s].created = sessions[s].created
        /\ sessions'[s].epoch = sessions[s].epoch
        /\ sessions'[s].state \in {sessions[s].state} \cup Gone

LEMMA EndedIs ==
    ASSUME TypeOK, NEW gone, gone \subseteq Made, NEW state \in Gone,
           sessions' = Ended(gone, state)
    PROVE  /\ sessions' \in [Sids -> Session] /\ Aged
           /\ \A s \in gone : sessions'[s].state = state
           /\ \A s \in Sids \ gone : sessions'[s] = sessions[s]
<1>1. /\ \A s \in gone : /\ sessions'[s] \in Session /\ sessions'[s].state = state
                         /\ sessions'[s].created = sessions[s].created
                         /\ sessions'[s].epoch = sessions[s].epoch
      /\ \A s \in Sids \ gone : sessions'[s] = sessions[s]
  BY SessionTyped DEF Ended, Made, Gone, Revoked, Session
<1>2. sessions' \in [Sids -> Session]
  <2>1. sessions' = [s \in Sids |-> sessions'[s]]
    BY DEF Ended
  <2>2. \A s \in Sids : sessions'[s] \in Session
    BY <1>1, SessionTyped
  <2> QED
    BY <2>1, <2>2
<1>3. Aged
  BY <1>1 DEF Aged, Made
<1> QED
  BY <1>1, <1>2, <1>3

-----------------------------------------------------------------------------
(* What a step may do without disturbing the invariant.                    *)

\* The rest of TypeOK.
OthersTyped ==
    /\ load \subseteq RequestKinds \cup Events
    /\ user \in [status: {"ACTIVE", "DISABLED"}, role: BOOLEAN]
    /\ attempts \in [Buckets -> Attempt]
    /\ ended \subseteq Sids
    /\ second \in Nat /\ cuts \in Nat /\ strays \in Nat /\ crashes \in Nat
    /\ guesses \in 0..Threshold /\ mixed \in BOOLEAN

\* What a request relies on stays true while rows age and the user is not enabled.
LEMMA GroundStays ==
    ASSUME TypeOK, Aged, NEW CONSTANT r, Grounded(r), r.batch \subseteq Sids
    PROVE  Grounded(r)'
<1>1. Made \subseteq Made'
  BY DEF Aged, Made, Gone, Revoked
<1>2. \A s \in Made : sessions'[s].created = sessions[s].created
  BY DEF Aged, Made
<1>3. Outlived(r.batch) /\ r.batch \subseteq Made => Outlived(r.batch)'
  BY <1>1, <1>2 DEF Outlived
<1> QED
  BY <1>1, <1>3 DEF Grounded

\* The sessions, as far as the invariant speaks of them.
SessionsHold ==
    /\ sessions' \in [Sids -> Session] /\ Aged
    /\ \A s \in ended' : sessions'[s].state \in Gone
    /\ \A s \in Sids : sessions'[s].state = "LIVE" => sessions'[s].epoch = cuts'
    /\ \A s \in Sids :
           sessions'[s].state = "EVICTED" =>
               \/ sessions[s].state = "EVICTED"
               \/ \E k \in Sids \ {s} :
                     sessions'[k].state # "ABSENT"
                     /\ sessions'[k].created >= sessions'[s].created

LEMMA SessionsStay ==
    ASSUME IInv, UNCHANGED <<sessions, ended, cuts>>
    PROVE  SessionsHold
<1>1. Aged
  BY DEF Aged, Made
<1> QED
  BY <1>1 DEF SessionsHold, IInv, TypeOK, EndedStaysEnded, RevokeAllReachesAll, Live, Gone

LEMMA SessionsKeep ==
    ASSUME IInv, SessionsHold
    PROVE  /\ EndedStaysEnded' /\ RevokeAllReachesAll' /\ NewestNotEvicted'
<1>1. EndedStaysEnded'
  BY DEF SessionsHold, EndedStaysEnded, Gone
<1>2. RevokeAllReachesAll'
  BY DEF SessionsHold, RevokeAllReachesAll, Live
<1>3. NewestNotEvicted'
  <2> SUFFICES ASSUME NEW s \in Sids, sessions'[s].state = "EVICTED",
                      sessions[s].state = "EVICTED"
               PROVE  \E k \in Sids \ {s} :
                         sessions'[k].state # "ABSENT"
                         /\ sessions'[k].created >= sessions'[s].created
    BY DEF SessionsHold, NewestNotEvicted
  <2>1. PICK k \in Sids \ {s} :
          sessions[k].state # "ABSENT" /\ sessions[k].created >= sessions[s].created
    BY DEF IInv, NewestNotEvicted
  <2>2. k \in Made /\ s \in Made
    BY <2>1 DEF Made
  <2>3. /\ sessions'[k].created = sessions[k].created
        /\ sessions'[s].created = sessions[s].created
        /\ sessions'[k].state \in {sessions[k].state} \cup Gone
    BY <2>2 DEF SessionsHold, Aged
  <2> QED
    BY <2>1, <2>3 DEF Gone, Revoked
<1> QED
  BY <1>1, <1>2, <1>3

\* A step of one request.
LEMMA StepKeeps ==
    ASSUME IInv, NEW p \in Procs, NEW r \in Proc,
           procs' = [procs EXCEPT ![p] = r],
           SessionsHold, OthersTyped',
           user.status = "DISABLED" => user'.status = "DISABLED",
           Grounded(r)', BarredNow(r)'
    PROVE  IInv'
<1>1. procs'[p] = r /\ \A q \in Procs \ {p} : procs'[q] = procs[q]
  BY DEF IInv, TypeOK
<1>2. TypeOK'
  BY DEF IInv, TypeOK, OthersTyped, SessionsHold
<1>3. ASSUME NEW q \in Procs PROVE Grounded(procs[q])' /\ BarredNow(procs[q])'
  <2>1. CASE q = p
    BY <1>1, <2>1 DEF Grounded, BarredNow, Outlived, Made
  <2>2. CASE q # p
    <3>1. PICK rq : rq = procs[q]
      OBVIOUS
    <3>2. Grounded(rq) /\ BarredNow(rq) /\ rq.batch \subseteq Sids
      BY <3>1, ProcTyped DEF IInv
    <3>3. Grounded(rq)'
      BY <3>2, GroundStays DEF IInv, SessionsHold
    <3>4. BarredNow(rq)'
      BY <3>2 DEF BarredNow
    <3>5. procs'[q] = rq
      BY <1>1, <2>2, <3>1
    <3> QED
      BY <3>3, <3>4, <3>5 DEF Grounded, BarredNow, Outlived, Made
  <2> QED
    BY <2>1, <2>2
<1> QED
  BY <1>2, <1>3, SessionsKeep DEF IInv

\* A step of no request.
LEMMA WorldKeeps ==
    ASSUME IInv, procs' = procs, SessionsHold, OthersTyped',
           user.status = "DISABLED" => user'.status = "DISABLED"
    PROVE  IInv'
<1>1. TypeOK'
  BY DEF IInv, TypeOK, OthersTyped, SessionsHold
<1>2. ASSUME NEW q \in Procs PROVE Grounded(procs[q])' /\ BarredNow(procs[q])'
  <2>1. PICK rq : rq = procs[q]
    OBVIOUS
  <2>2. Grounded(rq) /\ BarredNow(rq) /\ rq.batch \subseteq Sids
    BY <2>1, ProcTyped DEF IInv
  <2>3. Grounded(rq)'
    BY <2>2, GroundStays DEF IInv, SessionsHold
  <2>4. BarredNow(rq)'
    BY <2>2 DEF BarredNow
  <2>5. procs'[q] = rq
    BY <2>1
  <2> QED
    BY <2>3, <2>4, <2>5 DEF Grounded, BarredNow, Outlived, Made
<1> QED
  BY <1>1, <1>2, SessionsKeep DEF IInv

\* A step of one request that leaves sessions and user alone.
LEMMA QuietStep ==
    ASSUME IInv, NEW p \in Procs, NEW r \in Proc,
           procs' = [procs EXCEPT ![p] = r],
           UNCHANGED <<user, sessions, ended, cuts, load, second>>,
           attempts' \in [Buckets -> Attempt], guesses' \in 0..Threshold,
           mixed' \in BOOLEAN, strays' \in Nat, crashes' \in Nat,
           Grounded(r), BarredNow(r)
    PROVE  IInv'
<1>1. OthersTyped'
  BY DEF OthersTyped, IInv, TypeOK
<1>2. Grounded(r)' /\ BarredNow(r)'
  BY DEF Grounded, BarredNow, Outlived, Made
<1> QED
  BY <1>1, <1>2, SessionsStay, StepKeeps

-----------------------------------------------------------------------------
(* Logins.                                                                 *)

\* A request that arrives, from Free.
LEMMA ArriveKeeps ==
    ASSUME IInv, NEW p \in Procs, NEW kind, NEW r \in Proc, Arrive(p, kind, r),
           UNCHANGED <<user, sessions, attempts, ended, cuts, guesses, rest>>,
           mixed' \in BOOLEAN, Grounded(r), BarredNow(r)
    PROVE  IInv'
  BY QuietStep DEF Arrive, rest, IInv, TypeOK

LEMMA StartLoginKeeps ==
    ASSUME IInv, NEW p \in Procs, NEW a \in Addresses, StartLogin(p, a)
    PROVE  IInv'
<1> DEFINE r == [Free EXCEPT !.phase = "verify", !.address = a]
<1>1. /\ r \in Proc /\ r.phase = "verify" /\ r.address = a /\ r.batch = {} /\ r.barred = {}
  BY FreeTyped, PhasesAre DEF Free, Proc
<1>2. mixed' \in BOOLEAN
  BY DEF StartLogin, OtherLogins, IInv, TypeOK
<1>3. /\ Arrive(p, "login", r)
      /\ UNCHANGED <<user, sessions, attempts, ended, cuts, guesses, rest>>
  BY DEF StartLogin
<1> HIDE DEF r
<1>4. Grounded(r) /\ BarredNow(r)
  BY <1>1 DEF Grounded, BarredNow
<1> QED
  BY <1>1, <1>2, <1>3, <1>4, ArriveKeeps

\* A login that goes on to another phase.
LEMMA LoginGoes ==
    ASSUME IInv, NEW p \in Procs, NEW phase \in LoginPhases \ {"evict"}, Goto(p, phase),
           procs[p].phase \in LoginPhases,
           UNCHANGED <<user, sessions, ended, cuts, rest>>,
           attempts' \in [Buckets -> Attempt], guesses' \in 0..Threshold, mixed' \in BOOLEAN
    PROVE  IInv'
<1> DEFINE r == [procs[p] EXCEPT !.phase = phase]
<1>1. /\ r \in Proc /\ r.phase = phase /\ r.sid = procs[p].sid
      /\ r.address = procs[p].address /\ r.batch = procs[p].batch
      /\ r.barred = procs[p].barred /\ procs' = [procs EXCEPT ![p] = r]
  <2>1. phase \in Phases
    BY DEF Phases
  <2> QED
    BY <2>1, GotoTyped DEF IInv
<1> HIDE DEF r
<1>2. Grounded(procs[p]) /\ BarredNow(procs[p])
  BY DEF IInv
<1>3. Grounded(r)
  BY <1>1, <1>2, PhasesAre DEF Grounded
<1>4. BarredNow(r)
  BY <1>1, <1>2, PhasesAre DEF BarredNow
<1>5. /\ UNCHANGED <<load, second, strays, crashes>> /\ strays' \in Nat /\ crashes' \in Nat
  BY DEF rest, IInv, TypeOK
<1> QED
  BY <1>1, <1>3, <1>4, <1>5, QuietStep

\* A request that is done, or whose process dies.
LEMMA FinishKeeps ==
    ASSUME IInv, NEW p \in Procs, Finish(p),
           UNCHANGED <<user, sessions, ended, load, second>>, cuts' = cuts,
           attempts' \in [Buckets -> Attempt], guesses' \in 0..Threshold,
           mixed' \in BOOLEAN, strays' \in Nat, crashes' \in Nat
    PROVE  IInv'
<1>1. Grounded(Free) /\ BarredNow(Free)
  BY FreeTyped, PhasesAre DEF Grounded, BarredNow
<1> QED
  BY <1>1, FreeTyped, QuietStep DEF Finish

LEMMA FailureTyped ==
    ASSUME NEW n \in 0..Threshold PROVE NextFailure(n) \in Attempt
<1>1. (IF n < Threshold THEN n + 1 ELSE n) \in 0..Threshold
  BY CountAssumption
<1>2. (n + 1 >= Threshold) \in BOOLEAN
  OBVIOUS
<1> QED
  BY <1>1, <1>2 DEF NextFailure, Attempt

LEMMA AddressIsBucket ==
    ASSUME IInv, NEW p \in Procs, procs[p].phase \in LoginPhases
    PROVE  procs[p].address \in Addresses /\ procs[p].address \in Buckets
  BY DEF IInv, Grounded, Buckets

LEMMA PasswordKeeps ==
    ASSUME IInv, NEW p \in Procs, PasswordGood(p) \/ PasswordBad(p)
    PROVE  IInv'
<1>1. CASE PasswordGood(p)
  BY <1>1, LoginGoes, PhasesAre DEF PasswordGood, Is, throttle, IInv, TypeOK
<1>2. CASE PasswordBad(p)
  <2>1. guesses' \in 0..Threshold
    BY <1>2, CountAssumption DEF PasswordBad, IInv, TypeOK
  <2> QED
    BY <1>2, <2>1, LoginGoes, PhasesAre DEF PasswordBad, Is, IInv, TypeOK
<1> QED
  BY <1>1, <1>2

\* The record of a login that has read its counters.
LEMMA SeenTyped ==
    ASSUME IInv, NEW p \in Procs, ReadAttempts(p)
    PROVE  \E r \in Proc :
              /\ procs' = [procs EXCEPT ![p] = r]
              /\ r.phase = "writeUser" /\ r.address = procs[p].address
              /\ r.batch = procs[p].batch /\ r.barred = procs[p].barred
              /\ r.seen["USERNAME"] = attempts["USERNAME"].count
<1> DEFINE seen == [b \in Buckets |->
               IF b \in BucketsOf(procs[p].address) THEN attempts[b].count ELSE 0]
           r == [procs[p] EXCEPT !.phase = "writeUser", !.seen = seen]
<1>1. seen \in [Buckets -> 0..Threshold] /\ seen["USERNAME"] = attempts["USERNAME"].count
  <2>1. \A b \in Buckets : attempts[b].count \in 0..Threshold
    BY DEF IInv, TypeOK, Attempt
  <2>2. "USERNAME" \in Buckets /\ "USERNAME" \in BucketsOf(procs[p].address)
    BY DEF Buckets, BucketsOf
  <2> QED
    BY <2>1, <2>2, CountAssumption
<1>2. procs' = [procs EXCEPT ![p] = r]
  BY ProcTyped DEF ReadAttempts, IInv
<1> HIDE DEF seen
<1>3. /\ r \in Proc /\ r.phase = "writeUser" /\ r.address = procs[p].address
      /\ r.batch = procs[p].batch /\ r.barred = procs[p].barred /\ r.seen = seen
  BY <1>1, ProcTyped, PhasesAre DEF Proc, IInv
<1> HIDE DEF r
<1> QED
  BY <1>1, <1>2, <1>3

LEMMA CountKeeps ==
    ASSUME IInv, NEW p \in Procs,
           ReadAttempts(p) \/ WriteUserBucket(p) \/ WriteAddressBucket(p) \/ ClearAttempts(p)
    PROVE  IInv'
<1>1. CASE ReadAttempts(p)
  <2>1. PICK r \in Proc :
          /\ procs' = [procs EXCEPT ![p] = r]
          /\ r.phase = "writeUser" /\ r.address = procs[p].address
          /\ r.batch = procs[p].batch /\ r.barred = procs[p].barred
    BY <1>1, SeenTyped
  <2>2. procs[p].phase \in LoginPhases
    BY <1>1, PhasesAre DEF ReadAttempts, Is
  <2>3. Grounded(r) /\ BarredNow(r)
    BY <2>1, <2>2, PhasesAre DEF IInv, Grounded, BarredNow
  <2> QED
    BY <1>1, <2>1, <2>3, QuietStep DEF ReadAttempts, throttle, rest, IInv, TypeOK
<1>2. CASE WriteUserBucket(p)
  <2>1. NextFailure(procs[p].seen["USERNAME"]) \in Attempt
    BY ProcTyped, FailureTyped DEF Buckets, IInv
  <2>2. attempts' \in [Buckets -> Attempt]
    BY <1>2, <2>1 DEF WriteUserBucket, IInv, TypeOK
  <2> QED
    BY <1>2, <2>2, LoginGoes, PhasesAre DEF WriteUserBucket, Is, IInv, TypeOK
<1>3. CASE WriteAddressBucket(p)
  <2>1. procs[p].address \in Buckets
    BY <1>3, AddressIsBucket, PhasesAre DEF WriteAddressBucket, Is
  <2>2. NextFailure(procs[p].seen[procs[p].address]) \in Attempt
    BY <2>1, ProcTyped, FailureTyped DEF IInv
  <2>3. attempts' \in [Buckets -> Attempt]
    BY <1>3, <2>2 DEF WriteAddressBucket, IInv, TypeOK
  <2> QED
    BY <1>3, <2>3, FinishKeeps DEF WriteAddressBucket, rest, IInv, TypeOK
<1>4. CASE ClearAttempts(p)
  <2>1. attempts' \in [Buckets -> Attempt]
    BY <1>4, CountAssumption DEF ClearAttempts, NoAttempt, Attempt, IInv, TypeOK
  <2>2. guesses' \in 0..Threshold /\ mixed' \in BOOLEAN
    BY <1>4, CountAssumption DEF ClearAttempts, OtherLogins
  <2> QED
    BY <1>4, <2>1, <2>2, LoginGoes, PhasesAre DEF ClearAttempts, Is
<1> QED
  BY <1>1, <1>2, <1>3, <1>4

LEMMA RoleRefusedKeeps == ASSUME IInv, NEW p \in Procs, RoleRefused(p) PROVE IInv'
  BY FinishKeeps DEF RoleRefused, throttle, rest, IInv, TypeOK

LEMMA CreateKeeps ==
    ASSUME IInv, NEW p \in Procs, NEW s \in Sids, CreateSession(p, s)
    PROVE  IInv'
<1> DEFINE row == [state |-> "LIVE", access |-> TRUE, refresh |-> TRUE,
                   created |-> second, epoch |-> cuts]
<1>1. row \in Session /\ row.state = "LIVE" /\ row.epoch = cuts
  BY DEF Session, IInv, TypeOK
<1>2. sessions[s].state = "ABSENT" /\ sessions' = [sessions EXCEPT ![s] = row]
      /\ UNCHANGED <<user, throttle, ended, cuts, rest>>
  BY DEF CreateSession
<1>3. procs[p].phase = "insert"
  BY DEF CreateSession, Is
<1> HIDE DEF row
<1>4. sessions'[s] = row /\ \A t \in Sids \ {s} : sessions'[t] = sessions[t]
  BY <1>2 DEF IInv, TypeOK
<1>5. SessionsHold
  <2>1. sessions' \in [Sids -> Session] /\ Aged
    BY <1>1, <1>2, <1>4 DEF Aged, Made, IInv, TypeOK
  <2>2. \A t \in ended' : sessions'[t].state \in Gone
    BY <1>2, <1>4 DEF IInv, EndedStaysEnded, Gone, Revoked, TypeOK
  <2>3. \A t \in Sids : sessions'[t].state = "LIVE" => sessions'[t].epoch = cuts'
    BY <1>1, <1>2, <1>4 DEF IInv, RevokeAllReachesAll, Live
  <2>4. \A t \in Sids : sessions'[t].state = "EVICTED" => sessions[t].state = "EVICTED"
    BY <1>1, <1>4
  <2> QED
    BY <2>1, <2>2, <2>3, <2>4 DEF SessionsHold
<1>6. PICK r \in Proc :
        /\ procs' = [procs EXCEPT ![p] = r]
        /\ r.phase = "list" /\ r.address = procs[p].address
        /\ r.batch = procs[p].batch /\ r.barred = procs[p].barred
  <2> DEFINE r == [procs[p] EXCEPT !.phase = "list", !.sid = s]
  <2>1. procs' = [procs EXCEPT ![p] = r]
    BY ProcTyped DEF CreateSession, IInv
  <2>2. /\ r \in Proc /\ r.phase = "list" /\ r.address = procs[p].address
        /\ r.batch = procs[p].batch /\ r.barred = procs[p].barred
    BY ProcTyped, PhasesAre DEF Proc, IInv
  <2> HIDE DEF r
  <2> QED
    BY <2>1, <2>2
<1>7. Made \subseteq Made'
  BY <1>1, <1>4 DEF Made
<1>8. Grounded(r)'
  BY <1>3, <1>6, <1>7, PhasesAre DEF IInv, Grounded
<1>9. BarredNow(r)'
  BY <1>2, <1>6 DEF IInv, BarredNow
<1>10. OthersTyped'
  BY <1>2 DEF OthersTyped, throttle, rest, IInv, TypeOK
<1> QED
  BY <1>2, <1>5, <1>6, <1>8, <1>9, <1>10, StepKeeps DEF throttle, rest

\* The sessions to evict leave out one that was created no earlier.
LEMMA EvictableIs ==
    ASSUME IInv, NEW out, out \subseteq Live, Evictable(out)
    PROVE  Outlived(out)
<1>1. IsFiniteSet(Live) /\ IsFiniteSet(out) /\ Cardinality(Live) \in Nat
  BY ProcAssumption, FS_Subset, FS_CardinalityType DEF Live
<1>2. SUFFICES ASSUME NEW s \in out
               PROVE  \E k \in Made \ out : sessions[k].created >= sessions[s].created
  BY DEF Outlived
<1>3. out # Live
  <2>1. Cardinality(out) # 0
    BY <1>1, FS_EmptySet
  <2>2. Cardinality(out) < Cardinality(Live)
    BY <1>1, <2>1, CountAssumption DEF Evictable, Excess
  <2> QED
    BY <1>1, <2>2
<1>4. PICK k \in Live \ out : TRUE
  BY <1>3
<1>5. k \in Made /\ sessions[s].created <= sessions[k].created
  BY <1>4 DEF Evictable, Live, Made
<1>6. sessions[k].created >= sessions[s].created
  BY <1>4, <1>5, SessionTyped DEF IInv, Live
<1> QED
  BY <1>4, <1>5, <1>6

LEMMA ListKeeps == ASSUME IInv, NEW p \in Procs, ListSessions(p) PROVE IInv'
<1>1. PICK out \in SUBSET Live :
        /\ Evictable(out)
        /\ procs' = [procs EXCEPT ![p] =
               IF out = {} THEN Free ELSE [procs[p] EXCEPT !.phase = "evict", !.batch = out]]
  BY DEF ListSessions
<1>2. /\ procs[p].phase = "list"
      /\ UNCHANGED <<user, sessions, throttle, ended, cuts, rest>>
  BY DEF ListSessions, Is
<1>3. CASE out = {}
  BY <1>1, <1>2, <1>3, FinishKeeps DEF Finish, throttle, rest, IInv, TypeOK
<1>4. CASE out # {}
  <2> DEFINE r == [procs[p] EXCEPT !.phase = "evict", !.batch = out]
  <2>1. procs' = [procs EXCEPT ![p] = r]
    BY <1>1, <1>4
  <2>2. /\ r \in Proc /\ r.phase = "evict" /\ r.batch = out
        /\ r.address = procs[p].address /\ r.barred = procs[p].barred
    BY ProcTyped, PhasesAre DEF Proc, IInv, Live
  <2>3. Outlived(out) /\ out \subseteq Made
    BY <1>1, EvictableIs DEF Live, Made
  <2> HIDE DEF r
  <2>4. Grounded(r) /\ BarredNow(r)
    BY <1>2, <2>2, <2>3, PhasesAre DEF IInv, Grounded, BarredNow
  <2> QED
    BY <1>2, <2>1, <2>2, <2>4, QuietStep DEF throttle, rest, IInv, TypeOK
<1> QED
  BY <1>3, <1>4

\* Steps that end sessions and are done.
LEMMA EndKeeps ==
    ASSUME IInv, NEW p \in Procs, Finish(p) \/ ToAnswer(p),
           NEW gone, gone \subseteq Made, NEW state \in Gone,
           sessions' = Ended(gone, state),
           \A s \in ended' : s \in ended \/ s \in gone \/ sessions[s].state \in Gone,
           ended' \subseteq Sids, cuts' \in Nat,
           cuts' = cuts \/ Live \subseteq gone,
           state = "EVICTED" => Outlived(procs[p].batch) /\ gone \subseteq procs[p].batch,
           UNCHANGED <<user, throttle, rest>>
    PROVE  IInv'
<1>1. /\ sessions' \in [Sids -> Session] /\ Aged
      /\ \A s \in gone : sessions'[s].state = state
      /\ \A s \in Sids \ gone : sessions'[s] = sessions[s]
  BY EndedIs DEF IInv
<1>2. \A s \in ended' : sessions'[s].state \in Gone
  BY <1>1 DEF IInv, EndedStaysEnded, Gone
<1>3. \A s \in Sids : sessions'[s].state = "LIVE" => sessions'[s].epoch = cuts'
  <2> SUFFICES ASSUME NEW s \in Sids, sessions'[s].state = "LIVE"
               PROVE  sessions'[s].epoch = cuts'
    OBVIOUS
  <2>1. s \notin gone
    BY <1>1 DEF Gone, Revoked
  <2>2. s \in Live /\ sessions'[s] = sessions[s]
    BY <1>1, <2>1 DEF Live
  <2> QED
    BY <2>1, <2>2 DEF IInv, RevokeAllReachesAll
<1>4. ASSUME NEW s \in Sids, sessions'[s].state = "EVICTED"
      PROVE  \/ sessions[s].state = "EVICTED"
             \/ \E k \in Sids \ {s} :
                   sessions'[k].state # "ABSENT"
                   /\ sessions'[k].created >= sessions'[s].created
  <2>1. CASE s \notin gone
    BY <1>1, <1>4, <2>1
  <2>2. CASE s \in gone
    <3>1. PICK k \in Made \ procs[p].batch : sessions[k].created >= sessions[s].created
      BY <1>1, <1>4, <2>2 DEF Outlived
    <3>2. k # s /\ k \in Sids /\ k \in Made /\ s \in Made
      BY <1>1, <1>4, <2>2, <3>1 DEF Made
    <3>3. /\ sessions'[k].created = sessions[k].created
          /\ sessions'[s].created = sessions[s].created
          /\ sessions'[k].state # "ABSENT"
      BY <1>1, <3>2 DEF Aged, Made, Gone, Revoked
    <3> QED
      BY <3>1, <3>2, <3>3
  <2> QED
    BY <2>1, <2>2
<1>5. SessionsHold
  BY <1>1, <1>2, <1>3, <1>4 DEF SessionsHold
<1>6. OthersTyped'
  BY DEF OthersTyped, throttle, rest, IInv, TypeOK
<1>7. PICK r \in Proc : /\ procs' = [procs EXCEPT ![p] = r]
                       /\ r.phase \in {"free", "answer"} /\ r.batch = {} /\ r.barred = {}
  BY RestTyped
<1>8. Grounded(r)' /\ BarredNow(r)'
  BY <1>7, PhasesAre DEF Grounded, BarredNow
<1>9. UNCHANGED user
  OBVIOUS
<1> QED
  BY <1>5, <1>6, <1>7, <1>8, <1>9, StepKeeps

LEMMA EvictKeeps == ASSUME IInv, NEW p \in Procs, Evict(p) PROVE IInv'
<1>1. /\ procs[p].phase = "evict" /\ Finish(p)
      /\ sessions' = Ended(procs[p].batch \cap Live, "EVICTED")
      /\ ended' = ended \cup procs[p].batch
      /\ UNCHANGED <<user, throttle, cuts, rest>>
  BY DEF Evict, Is
<1>2. Outlived(procs[p].batch) /\ procs[p].batch \subseteq Made
  BY <1>1 DEF IInv, Grounded
<1>3. \A s \in procs[p].batch : s \in Live \/ sessions[s].state \in Gone
  BY <1>2, SessionTyped DEF Made, Live, Gone, Revoked, Session, IInv
<1>4. ended' \subseteq Sids /\ cuts' \in Nat
  BY <1>1, <1>2 DEF Made, IInv, TypeOK
<1>5. procs[p].batch \cap Live \subseteq Made /\ "EVICTED" \in Gone
  BY <1>2 DEF Gone, Revoked
<1> QED
  BY <1>1, <1>2, <1>3, <1>4, <1>5, EndKeeps

LEMMA RevokeKeeps == ASSUME IInv, NEW p \in Procs, Revoke(p) PROVE IInv'
<1> DEFINE s == procs[p].sid
           gone == {s} \cap {t \in Sids : Exists(t)}
<1>1. /\ procs[p].phase = "revoke" /\ Finish(p)
      /\ sessions' = Ended(gone, "REVOKED") /\ ended' = ended \cup {s}
      /\ UNCHANGED <<user, throttle, cuts, rest>>
  BY DEF Revoke, Is
<1>2. s \in Made
  BY <1>1 DEF IInv, Grounded
<1>3. s \in gone \/ sessions[s].state \in Gone
  BY <1>2, SessionTyped DEF Made, Exists, Gone, Revoked, Session, IInv
<1>4. gone \subseteq Made /\ "REVOKED" \in Gone
  BY <1>2 DEF Gone, Revoked
<1>5. ended' \subseteq Sids /\ cuts' \in Nat
  BY <1>1, <1>2 DEF Made, IInv, TypeOK
<1>6. \A t \in ended' : t \in ended \/ t \in gone \/ sessions[t].state \in Gone
  BY <1>1, <1>3
<1> HIDE DEF gone
<1> QED
  BY <1>1, <1>4, <1>5, <1>6, EndKeeps

\* The procedure revokes what the store listed, and more.
LEMMA RevokeTargetsKeeps == ASSUME IInv, NEW p \in Procs, RevokeTargets(p) PROVE IInv'
<1> DEFINE gone == Live \ {procs[p].sid}
<1>1. /\ procs[p].phase = "call" /\ ToAnswer(p)
      /\ sessions' = Ended(gone, "REVOKED") /\ ended' = ended \cup procs[p].batch
      /\ cuts' = Cut(p)
      /\ UNCHANGED <<user, throttle, rest>>
  BY DEF RevokeTargets, Targets, Is
<1>2. procs[p].batch \subseteq Made /\ procs[p].sid \notin procs[p].batch
  BY <1>1 DEF IInv, Grounded
<1>3. \A s \in procs[p].batch : s \in gone \/ sessions[s].state \in Gone
  BY <1>2, SessionTyped DEF Made, Live, Gone, Revoked, Session, IInv
<1>4. gone \subseteq Made /\ "REVOKED" \in Gone
  BY DEF Live, Made, Gone, Revoked
<1>5. ended' \subseteq Sids
  BY <1>1, <1>2 DEF Made, IInv, TypeOK
<1>6. cuts' \in Nat /\ (cuts' = cuts \/ Live \subseteq gone)
  BY <1>1, NoneAssumption DEF Cut, Live, IInv, TypeOK
<1> HIDE DEF gone
<1> QED
  BY <1>1, <1>3, <1>4, <1>5, <1>6, EndKeeps

-----------------------------------------------------------------------------
(* The other requests.                                                     *)

LEMMA RefreshKeeps ==
    ASSUME IInv, NEW p \in Procs, NEW s \in Sids, StartRefresh(p, s) \/ StartLogout(p, s)
    PROVE  IInv'
<1>1. s \in Made
  BY DEF StartRefresh, StartLogout, Live, Exists, Made, Revoked
<1>2. ASSUME NEW phase \in {"user", "revoke"}, NEW kind \in {"refresh", "logout"},
             Arrive(p, kind, [Free EXCEPT !.phase = phase, !.kind = kind, !.sid = s]),
             UNCHANGED <<user, sessions, throttle, ended, cuts, rest>>
      PROVE  IInv'
  <2> DEFINE r == [Free EXCEPT !.phase = phase, !.kind = kind, !.sid = s]
  <2>1. /\ r \in Proc /\ r.phase = phase /\ r.sid = s /\ r.batch = {} /\ r.barred = {}
    BY FreeTyped, PhasesAre DEF Free, Proc, RequestKinds
  <2>2. Arrive(p, kind, r)
    BY <1>2
  <2> HIDE DEF r
  <2>3. Grounded(r) /\ BarredNow(r)
    BY <1>1, <2>1, PhasesAre DEF Grounded, BarredNow
  <2> QED
    BY <1>2, <2>1, <2>2, <2>3, ArriveKeeps DEF throttle, IInv, TypeOK
<1> QED
  BY <1>2 DEF StartRefresh, StartLogout

\* A live session has not ended, so only the user's status can bar the request.
LEMMA AuthenticateKeeps ==
    ASSUME IInv, NEW p \in Procs, NEW s \in Sids, StartAuthenticate(p, s)
    PROVE  IInv'
<1> DEFINE r == [Free EXCEPT !.phase = "user", !.kind = "authenticate", !.sid = s,
                             !.barred = Bars(s)]
<1>1. s \in Live /\ s \in Made
  BY DEF StartAuthenticate, AccessValid, Live, Made
<1>2. s \notin ended
  BY <1>1 DEF IInv, EndedStaysEnded, Live, Revoked
<1>3. Bars(s) \subseteq {"user"} /\ (Bars(s) # {} => user.status = "DISABLED")
  BY <1>2 DEF Bars
<1>4. /\ r \in Proc /\ r.phase = "user" /\ r.sid = s /\ r.batch = {} /\ r.barred = Bars(s)
  <2> HIDE DEF Bars
  <2>1. Bars(s) \in SUBSET {"user", "session"}
    BY <1>3
  <2> QED
    BY <2>1, FreeTyped, PhasesAre DEF Free, Proc, RequestKinds
<1>5. /\ Arrive(p, "authenticate", r)
      /\ UNCHANGED <<user, sessions, throttle, ended, cuts, rest>>
  BY DEF StartAuthenticate
<1> HIDE DEF r
<1>6. Grounded(r) /\ BarredNow(r)
  BY <1>1, <1>3, <1>4, PhasesAre DEF Grounded, BarredNow
<1> QED
  BY <1>4, <1>5, <1>6, ArriveKeeps DEF throttle, IInv, TypeOK

\* Reading the user again turns away whoever its status bars.
LEMMA ReadUserKeeps == ASSUME IInv, NEW p \in Procs, ReadUser(p) PROVE IInv'
<1>1. procs[p].phase = "user" /\ UNCHANGED <<user, sessions, throttle, ended, cuts, rest>>
  BY DEF ReadUser, Is
<1>2. CASE UserAllowed
  <2>1. PICK phase \in {"rotate", "granted"} : Goto(p, phase)
    BY <1>2 DEF ReadUser
  <2> DEFINE r == [procs[p] EXCEPT !.phase = phase]
  <2>2. /\ r \in Proc /\ r.phase = phase /\ r.sid = procs[p].sid /\ r.batch = procs[p].batch
        /\ r.barred = procs[p].barred /\ procs' = [procs EXCEPT ![p] = r]
    <3>1. phase \in Phases
      BY PhasesAre
    <3> QED
      BY <2>1, <3>1, GotoTyped DEF IInv
  <2> HIDE DEF r
  <2>3. procs[p].barred = {}
    BY <1>2 DEF UserAllowed, IInv, BarredNow
  <2>4. Grounded(procs[p])
    BY DEF IInv
  <2>5. Grounded(r) /\ BarredNow(r)
    BY <1>1, <2>2, <2>3, <2>4, PhasesAre DEF Grounded, BarredNow
  <2> QED
    BY <1>1, <2>2, <2>5, QuietStep DEF throttle, rest, IInv, TypeOK
<1>3. CASE ~UserAllowed
  BY <1>1, <1>3, FinishKeeps DEF ReadUser, throttle, rest, IInv, TypeOK
<1> QED
  BY <1>2, <1>3

\* Rotating keeps the state of the row, whatever it is by then.
LEMMA RotateKeeps == ASSUME IInv, NEW p \in Procs, Rotate(p) PROVE IInv'
<1> DEFINE s == procs[p].sid
<1>1. /\ procs' = [procs EXCEPT ![p] = Free]
      /\ UNCHANGED <<user, throttle, ended, cuts, rest>>
  BY DEF Rotate, Finish
<1>2. s \in Made /\ s \in Sids
  BY DEF Rotate, Is, IInv, Grounded, Made
<1>3. /\ Renewed(s) \in Session /\ Renewed(s).state = sessions[s].state
      /\ Renewed(s).created = sessions[s].created /\ Renewed(s).epoch = sessions[s].epoch
  BY <1>2, SessionTyped DEF Renewed, Session, IInv
<1>4. /\ sessions' \in [Sids -> Session]
      /\ \A t \in Sids : /\ sessions'[t].state = sessions[t].state
                          /\ sessions'[t].created = sessions[t].created
                          /\ sessions'[t].epoch = sessions[t].epoch
  <2>1. CASE Exists(s)
    <3>1. sessions' = [sessions EXCEPT ![s] = Renewed(s)]
      BY <2>1 DEF Rotate
    <3> HIDE DEF s
    <3> QED
      BY <3>1, <1>2, <1>3 DEF IInv, TypeOK
  <2>2. CASE ~Exists(s)
    BY <2>2 DEF Rotate, IInv, TypeOK
  <2> QED
    BY <2>1, <2>2
<1>5. SessionsHold
  BY <1>1, <1>4 DEF SessionsHold, Aged, Made, IInv, EndedStaysEnded, RevokeAllReachesAll, Live,
     Gone, TypeOK
<1>6. OthersTyped'
  BY <1>1 DEF OthersTyped, throttle, rest, IInv, TypeOK
<1>7. Grounded(Free)' /\ BarredNow(Free)'
  BY FreeTyped, PhasesAre DEF Grounded, BarredNow
<1> QED
  BY <1>1, <1>5, <1>6, <1>7, FreeTyped, StepKeeps DEF throttle, rest

LEMMA ServeKeeps == ASSUME IInv, NEW p \in Procs, Serve(p) PROVE IInv'
  BY FinishKeeps DEF Serve, throttle, rest, IInv, TypeOK

LEMMA AnswerKeeps == ASSUME IInv, NEW p \in Procs, Answer(p) PROVE IInv'
  BY FinishKeeps DEF Answer, throttle, rest, IInv, TypeOK

LEMMA StartRevokeAllKeeps ==
    ASSUME IInv, NEW p \in Procs, NEW keep \in Sids \cup {None}, StartRevokeAll(p, keep)
    PROVE  IInv'
<1> DEFINE r == [Free EXCEPT !.phase = "targets", !.kind = "revokeAll", !.sid = keep]
<1>1. r \in Proc /\ r.phase = "targets" /\ r.batch = {} /\ r.barred = {}
  BY FreeTyped, PhasesAre DEF Free, Proc, RequestKinds
<1>2. Arrive(p, "revokeAll", r) /\ UNCHANGED <<user, sessions, throttle, ended, cuts, rest>>
  BY DEF StartRevokeAll
<1> HIDE DEF r
<1>3. Grounded(r) /\ BarredNow(r)
  BY <1>1, PhasesAre DEF Grounded, BarredNow
<1> QED
  BY <1>1, <1>2, <1>3, ArriveKeeps DEF throttle, IInv, TypeOK

LEMMA StartDisableKeeps == ASSUME IInv, NEW p \in Procs, StartDisable(p) PROVE IInv'
<1> DEFINE r == [Free EXCEPT !.phase = "targets", !.kind = "disable"]
<1>1. r \in Proc /\ r.phase = "targets" /\ r.batch = {} /\ r.barred = {}
  BY FreeTyped, PhasesAre DEF Free, Proc, RequestKinds
<1>2. /\ procs' = [procs EXCEPT ![p] = r] /\ user' = DisabledRow
      /\ UNCHANGED <<sessions, throttle, ended, cuts, rest>>
  BY DEF StartDisable, Arrive
<1>3. user' \in [status : {"ACTIVE", "DISABLED"}, role : BOOLEAN] /\ user'.status = "DISABLED"
  BY <1>2 DEF DisabledRow, IInv, TypeOK
<1> HIDE DEF r
<1>4. OthersTyped'
  BY <1>2, <1>3 DEF OthersTyped, throttle, rest, IInv, TypeOK
<1>5. PICK free \in Proc : /\ procs' = [procs EXCEPT ![p] = free] /\ free.phase = "targets"
                           /\ free.batch = {} /\ free.barred = {}
  BY <1>1, <1>2
<1>6. Grounded(free)' /\ BarredNow(free)'
  BY <1>5, PhasesAre DEF Grounded, BarredNow
<1> QED
  BY <1>2, <1>3, <1>4, <1>5, <1>6, SessionsStay, StepKeeps

LEMMA ListTargetsKeeps == ASSUME IInv, NEW p \in Procs, ListTargets(p) PROVE IInv'
<1> DEFINE targets == Live \ {procs[p].sid}
<1>1. procs[p].phase = "targets" /\ UNCHANGED <<user, sessions, throttle, ended, rest>>
  BY DEF ListTargets, Is
<1>2. CASE targets = {}
  <2>1. procs' = [procs EXCEPT ![p] = Answering] /\ cuts' = Cut(p)
    BY <1>2 DEF ListTargets, ToAnswer
  <2>2. cuts' \in Nat /\ (cuts' = cuts \/ Live = {})
    BY <1>2, <2>1, NoneAssumption DEF Cut, Live, IInv, TypeOK
  <2>3. SessionsHold
    <3>1. Aged
      BY <1>1 DEF Aged, Made
    <3> QED
      BY <1>1, <2>2, <3>1 DEF SessionsHold, IInv, TypeOK, EndedStaysEnded,
         RevokeAllReachesAll, Live, Gone
  <2>4. OthersTyped'
    BY <1>1, <2>2 DEF OthersTyped, throttle, rest, IInv, TypeOK
  <2>5. PICK r \in Proc : /\ procs' = [procs EXCEPT ![p] = r]
                         /\ r.phase = "answer" /\ r.batch = {} /\ r.barred = {}
    BY <2>1, AnsweringTyped
  <2>6. Grounded(r)' /\ BarredNow(r)'
    BY <2>5, PhasesAre DEF Grounded, BarredNow
  <2> QED
    BY <1>1, <2>3, <2>4, <2>5, <2>6, StepKeeps
<1>3. CASE targets # {}
  <2> DEFINE r == [procs[p] EXCEPT !.phase = "call", !.batch = targets]
  <2>1. procs' = [procs EXCEPT ![p] = r] /\ cuts' = cuts
    BY <1>3 DEF ListTargets
  <2>2. /\ r \in Proc /\ r.phase = "call" /\ r.batch = targets /\ r.sid = procs[p].sid
        /\ r.barred = procs[p].barred
    BY ProcTyped, PhasesAre DEF Proc, IInv, Live
  <2>3. targets \subseteq Made /\ procs[p].sid \notin targets
    BY DEF Live, Made
  <2> HIDE DEF r, targets
  <2>4. Grounded(r) /\ BarredNow(r)
    BY <1>1, <2>2, <2>3, PhasesAre DEF IInv, Grounded, BarredNow
  <2> QED
    BY <1>1, <2>1, <2>2, <2>4, QuietStep DEF throttle, rest, IInv, TypeOK
<1> QED
  BY <1>2, <1>3

LEMMA CrashKeeps == ASSUME IInv, NEW p \in Procs, Crash(p) PROVE IInv'
<1>1. mixed' \in BOOLEAN /\ strays' \in Nat /\ crashes' \in Nat
  <2>1. strays' \in {strays, strays + 1} /\ crashes' = crashes + 1
    BY DEF Crash
  <2>2. mixed' \in BOOLEAN
    BY DEF Crash, IInv, TypeOK
  <2> QED
    BY <2>1, <2>2 DEF IInv, TypeOK
<1> QED
  BY <1>1, FinishKeeps DEF Crash, IInv, TypeOK

-----------------------------------------------------------------------------
(* Administrators and time.                                                *)

LEMMA EnableKeeps == ASSUME IInv, Enable PROVE IInv'
<1>1. /\ user' = [user EXCEPT !.status = "ACTIVE"]
      /\ procs' = [p \in Procs |-> [procs[p] EXCEPT !.barred = @ \ {"user"}]]
      /\ UNCHANGED <<sessions, throttle, ended, cuts, rest>>
  BY DEF Enable
<1>2. \A p \in Procs : /\ procs'[p] \in Proc /\ procs'[p].phase = procs[p].phase
                       /\ procs'[p].sid = procs[p].sid /\ procs'[p].batch = procs[p].batch
                       /\ procs'[p].address = procs[p].address
                       /\ procs'[p].barred = procs[p].barred \ {"user"}
  BY <1>1, ProcTyped DEF IInv, Proc
<1>3. procs' \in [Procs -> Proc]
  <2>1. procs' = [p \in Procs |-> procs'[p]]
    BY <1>1
  <2> QED
    BY <1>2, <2>1
<1>4. TypeOK'
  BY <1>1, <1>3 DEF IInv, TypeOK, throttle, rest
<1>5. \A p \in Procs : Grounded(procs[p])'
  BY <1>1, <1>2 DEF IInv, Grounded, Outlived, Made
<1>6. \A p \in Procs : BarredNow(procs[p])'
  <2> SUFFICES ASSUME NEW p \in Procs PROVE procs'[p].barred = {}
    BY DEF BarredNow
  <2>1. procs[p].barred \subseteq {"user"}
    BY DEF IInv, BarredNow
  <2> QED
    BY <1>2, <2>1
<1> QED
  BY <1>1, <1>4, <1>5, <1>6, SessionsStay, SessionsKeep DEF IInv

LEMMA CleanupKeeps == ASSUME IInv, Cleanup PROVE IInv'
<1>1. PICK gone \in SUBSET {s \in Sids : Exists(s) /\ (s \notin Live \/ ~sessions[s].refresh)} :
        sessions' = Ended(gone, "DELETED")
  BY DEF Cleanup
<1>2. UNCHANGED <<user, procs, throttle, ended, cuts, rest>>
  BY DEF Cleanup
<1>3. gone \subseteq Made /\ "DELETED" \in Gone
  BY DEF Exists, Made, Gone, Revoked
<1>4. /\ sessions' \in [Sids -> Session] /\ Aged
      /\ \A s \in gone : sessions'[s].state = "DELETED"
      /\ \A s \in Sids \ gone : sessions'[s] = sessions[s]
  BY <1>1, <1>3, EndedIs DEF IInv
<1>5. SessionsHold
  <2>1. \A s \in ended' : sessions'[s].state \in Gone
    BY <1>2, <1>4 DEF IInv, EndedStaysEnded, Gone, TypeOK
  <2>2. \A s \in Sids : sessions'[s].state = "LIVE" => sessions'[s].epoch = cuts'
    BY <1>2, <1>4 DEF IInv, RevokeAllReachesAll, Live
  <2>3. \A s \in Sids : sessions'[s].state = "EVICTED" => sessions[s].state = "EVICTED"
    BY <1>4
  <2> QED
    BY <1>4, <2>1, <2>2, <2>3 DEF SessionsHold
<1>6. OthersTyped'
  BY <1>2 DEF OthersTyped, throttle, rest, IInv, TypeOK
<1> QED
  BY <1>2, <1>5, <1>6, WorldKeeps

LEMMA ExpiryKeeps ==
    ASSUME IInv, NEW s \in Sids, AccessExpires(s) \/ RefreshExpires(s)
    PROVE  IInv'
<1>1. PICK row \in Session :
        /\ sessions' = [sessions EXCEPT ![s] = row]
        /\ row.state = sessions[s].state /\ row.created = sessions[s].created
        /\ row.epoch = sessions[s].epoch
  <2>1. CASE AccessExpires(s)
    <3> DEFINE row == [sessions[s] EXCEPT !.access = FALSE]
    <3>1. /\ row \in Session /\ row.state = sessions[s].state
          /\ row.created = sessions[s].created /\ row.epoch = sessions[s].epoch
      BY SessionTyped DEF Session, IInv
    <3>2. sessions' = [sessions EXCEPT ![s] = row]
      BY <2>1, SessionTyped DEF AccessExpires, IInv
    <3> HIDE DEF row
    <3> QED
      BY <3>1, <3>2
  <2>2. CASE RefreshExpires(s)
    <3> DEFINE row == [sessions[s] EXCEPT !.refresh = FALSE]
    <3>1. /\ row \in Session /\ row.state = sessions[s].state
          /\ row.created = sessions[s].created /\ row.epoch = sessions[s].epoch
      BY SessionTyped DEF Session, IInv
    <3>2. sessions' = [sessions EXCEPT ![s] = row]
      BY <2>2, SessionTyped DEF RefreshExpires, IInv
    <3> HIDE DEF row
    <3> QED
      BY <3>1, <3>2
  <2> QED
    BY <2>1, <2>2
<1>2. UNCHANGED <<user, procs, throttle, ended, cuts, rest>>
  BY DEF AccessExpires, RefreshExpires
<1>3. /\ sessions' \in [Sids -> Session]
      /\ \A t \in Sids : /\ sessions'[t].state = sessions[t].state
                          /\ sessions'[t].created = sessions[t].created
                          /\ sessions'[t].epoch = sessions[t].epoch
  BY <1>1 DEF IInv, TypeOK
<1>4. SessionsHold
  BY <1>2, <1>3 DEF SessionsHold, Aged, Made, IInv, EndedStaysEnded, RevokeAllReachesAll, Live,
     Gone, TypeOK
<1>5. OthersTyped'
  BY <1>2 DEF OthersTyped, throttle, rest, IInv, TypeOK
<1> QED
  BY <1>2, <1>4, <1>5, WorldKeeps

LEMMA CountAnewTyped ==
    ASSUME IInv, NEW b \in Buckets, CountAnew(b)
    PROVE  guesses' \in 0..Threshold /\ mixed' \in BOOLEAN
<1>1. CASE b = "USERNAME"
  <2>1. guesses' = 0 /\ 0 \in 0..Threshold
    BY <1>1, CountAssumption DEF CountAnew
  <2>2. (\E p \in Procs : procs[p].phase \in LoginPhases) \in BOOLEAN
    OBVIOUS
  <2>3. mixed' = (\E p \in Procs : procs[p].phase \in LoginPhases)
    BY <1>1 DEF CountAnew
  <2> QED
    BY <2>1, <2>2, <2>3, Zenon
<1>2. CASE b # "USERNAME"
  BY <1>2 DEF CountAnew, IInv, TypeOK
<1> QED
  BY <1>1, <1>2

LEMMA TimerKeeps ==
    ASSUME IInv, NEW b \in Buckets, LockoutEnds(b) \/ WindowPasses(b)
    PROVE  IInv'
<1>1. attempts' \in [Buckets -> Attempt]
  <2>1. attempts \in [Buckets -> Attempt] /\ 0 \in 0..Threshold
    BY CountAssumption DEF IInv, TypeOK
  <2>2. CASE attempts' = [attempts EXCEPT ![b].locked = FALSE]
    BY <2>1, <2>2 DEF Attempt
  <2>3. CASE attempts' = [attempts EXCEPT ![b].count = 0]
    BY <2>1, <2>3 DEF Attempt
  <2> QED
    BY <2>2, <2>3 DEF LockoutEnds, WindowPasses
<1>2. guesses' \in 0..Threshold /\ mixed' \in BOOLEAN
  BY CountAnewTyped DEF LockoutEnds, WindowPasses
<1>3. UNCHANGED <<user, sessions, procs, ended, cuts, rest>>
  BY DEF LockoutEnds, WindowPasses
<1>4. OthersTyped'
  BY <1>1, <1>2, <1>3 DEF OthersTyped, rest, IInv, TypeOK
<1> QED
  BY <1>3, <1>4, SessionsStay, WorldKeeps

LEMMA WorldSteps == ASSUME IInv, ChangeRoles \/ Tick PROVE IInv'
<1>1. UNCHANGED <<sessions, procs, throttle, ended, cuts>>
  BY DEF ChangeRoles, Tick
<1>2. /\ user' \in [status : {"ACTIVE", "DISABLED"}, role : BOOLEAN]
      /\ user'.status = user.status
  BY DEF ChangeRoles, Tick, IInv, TypeOK
<1>3. second' \in Nat /\ UNCHANGED <<load, strays, crashes>>
  BY DEF ChangeRoles, Tick, rest, IInv, TypeOK
<1>4. OthersTyped'
  BY <1>1, <1>2, <1>3 DEF OthersTyped, throttle, IInv, TypeOK
<1> QED
  BY <1>1, <1>2, <1>4, SessionsStay, WorldKeeps

-----------------------------------------------------------------------------
LEMMA InitHolds == Init => IInv
<1> SUFFICES ASSUME Init PROVE IInv
  OBVIOUS
<1>1. TypeOK
  <2>1. load \subseteq RequestKinds \cup Events
    BY LoadAssumption DEF Init
  <2>2. NoSession \in Session
    BY DEF NoSession, Session
  <2>3. sessions \in [Sids -> Session]
    BY <2>2 DEF Init
  <2>4. 0 \in 0..Threshold
    BY CountAssumption
  <2>5. attempts \in [Buckets -> Attempt]
    BY <2>4 DEF Init, NoAttempt, Attempt
  <2>6. procs \in [Procs -> Proc]
    BY FreeTyped DEF Init
  <2>7. /\ user \in [status : {"ACTIVE", "DISABLED"}, role : BOOLEAN]
        /\ ended \subseteq Sids /\ mixed \in BOOLEAN
        /\ second \in Nat /\ cuts \in Nat /\ strays \in Nat /\ crashes \in Nat
    BY DEF Init
  <2> QED
    BY <2>1, <2>3, <2>4, <2>5, <2>6, <2>7 DEF Init, TypeOK
<1>2. EndedStaysEnded /\ RevokeAllReachesAll /\ NewestNotEvicted
  BY DEF Init, EndedStaysEnded, RevokeAllReachesAll, NewestNotEvicted, Live, NoSession
<1>3. \A p \in Procs : procs[p] = Free
  BY DEF Init
<1>4. Grounded(Free) /\ BarredNow(Free)
  BY FreeTyped, PhasesAre DEF Grounded, BarredNow
<1> QED
  BY <1>1, <1>2, <1>3, <1>4 DEF IInv

LEMMA NextKeeps == IInv /\ [Next]_vars => IInv'
<1> SUFFICES ASSUME IInv, [Next]_vars PROVE IInv'
  OBVIOUS
<1>1. CASE UNCHANGED vars
  <2>1. UNCHANGED <<user, sessions, procs, throttle, ended, cuts, rest>>
    BY <1>1 DEF vars, throttle, rest
  <2>2. OthersTyped'
    BY <2>1 DEF OthersTyped, throttle, rest, IInv, TypeOK
  <2> QED
    BY <2>1, <2>2, SessionsStay, WorldKeeps
<1>2. ASSUME NEW p \in Procs,
             \/ LoginStep(p) \/ ReadUser(p) \/ Rotate(p) \/ Serve(p) \/ Revoke(p)
             \/ StartDisable(p) \/ ListTargets(p) \/ RevokeTargets(p) \/ Answer(p)
             \/ Crash(p)
      PROVE  IInv'
  BY <1>2, PasswordKeeps, CountKeeps, RoleRefusedKeeps, ListKeeps, EvictKeeps, ReadUserKeeps,
     RotateKeeps, ServeKeeps, RevokeKeeps, StartDisableKeeps, ListTargetsKeeps,
     RevokeTargetsKeeps, AnswerKeeps, CrashKeeps DEF LoginStep
<1>3. ASSUME NEW p \in Procs, NEW a \in Addresses, StartLogin(p, a) PROVE IInv'
  BY <1>3, StartLoginKeeps
<1>4. ASSUME NEW p \in Procs, NEW keep \in Sids \cup {None}, StartRevokeAll(p, keep)
      PROVE  IInv'
  BY <1>4, StartRevokeAllKeeps
<1>5. ASSUME NEW p \in Procs, NEW s \in Sids,
             \/ CreateSession(p, s) \/ StartRefresh(p, s) \/ StartAuthenticate(p, s)
             \/ StartLogout(p, s)
      PROVE  IInv'
  BY <1>5, CreateKeeps, RefreshKeeps, AuthenticateKeeps
<1>6. ASSUME NEW s \in Sids, AccessExpires(s) \/ RefreshExpires(s) PROVE IInv'
  BY <1>6, ExpiryKeeps
<1>7. ASSUME NEW b \in Buckets, LockoutEnds(b) \/ WindowPasses(b) PROVE IInv'
  BY <1>7, TimerKeeps
<1>8. CASE Enable \/ ChangeRoles \/ Cleanup \/ Tick
  BY <1>8, EnableKeeps, CleanupKeeps, WorldSteps
<1> QED
  BY <1>1, <1>2, <1>3, <1>4, <1>5, <1>6, <1>7, <1>8 DEF Next

\* The invariant, for any number of sessions, requests and addresses.
THEOREM Invariant == Spec => []IInv
  BY InitHolds, NextKeeps, PTL DEF Spec

\* Rows, counters and requests are well formed in every reachable state.
THEOREM TypeCorrect == Spec => []TypeOK
<1>1. IInv => TypeOK
  BY DEF IInv
<1> QED
  BY <1>1, Invariant, PTL

\* A session that was ended never comes back.
THEOREM EndedForever == Spec => []EndedStaysEnded
<1>1. IInv => EndedStaysEnded
  BY DEF IInv
<1> QED
  BY <1>1, Invariant, PTL

\* No session works that is older than the last statement of a complete revocation.
THEOREM RevocationComplete == Spec => []RevokeAllReachesAll
<1>1. IInv => RevokeAllReachesAll
  BY DEF IInv
<1> QED
  BY <1>1, Invariant, PTL

\* Nobody is let in by a request that began when the user was disabled, or with a session
\* that had ended.
THEOREM GrantsCurrent == Spec => []GrantsAreCurrent
<1>1. IInv => GrantsAreCurrent
  BY DEF IInv, GrantsAreCurrent, BarredNow, Is
<1> QED
  BY <1>1, Invariant, PTL

\* The session limit never ends a session that is newer than all the others.
THEOREM NewestKept == Spec => []NewestNotEvicted
<1>1. IInv => NewestNotEvicted
  BY DEF IInv
<1> QED
  BY <1>1, Invariant, PTL

-----------------------------------------------------------------------------
(* The lockout and the session limit.                                      *)

OutsideLogin == Phases \ LoginPhases

\* A step of one request outside a login, which touches no counter and opens no session.
Aside(p) ==
    /\ \E r \in Proc : /\ procs' = [procs EXCEPT ![p] = r]
                       /\ r.phase \in OutsideLogin
    /\ procs[p].phase \in OutsideLogin
    /\ UNCHANGED <<throttle, strays>> /\ Live' \subseteq Live

LEMMA EndedLessLive ==
    ASSUME NEW gone, NEW state \in Gone, sessions' = Ended(gone, state)
    PROVE  Live' = Live \ gone
  BY DEF Live, Ended, Gone, Revoked

\* A request that arrives, or is done.
LEMMA ArrivesAside ==
    ASSUME TypeOK, NEW p \in Procs, NEW kind, NEW r \in Proc, Arrive(p, kind, r),
           r.phase \in OutsideLogin, UNCHANGED <<throttle, rest>>, Live' \subseteq Live
    PROVE  Aside(p)
<1>1. procs[p].phase \in OutsideLogin
  BY PhasesAre DEF Arrive, Is, OutsideLogin
<1> QED
  BY <1>1 DEF Arrive, Aside, rest

LEMMA FinishesAside ==
    ASSUME TypeOK, NEW p \in Procs, Finish(p) \/ ToAnswer(p),
           procs[p].phase \in OutsideLogin,
           UNCHANGED <<throttle, strays>>, Live' \subseteq Live
    PROVE  Aside(p)
<1>1. PICK r \in Proc : procs' = [procs EXCEPT ![p] = r] /\ r.phase \in {"free", "answer"}
  BY RestTyped
<1>2. r.phase \in OutsideLogin
  BY <1>1, PhasesAre DEF OutsideLogin
<1> QED
  BY <1>1, <1>2 DEF Aside

LEMMA ArrivalsAside ==
    ASSUME IInv, NEW p \in Procs,
           \/ \E s \in Sids : \/ StartRefresh(p, s) \/ StartAuthenticate(p, s)
                              \/ StartLogout(p, s)
           \/ \E keep \in Sids \cup {None} : StartRevokeAll(p, keep)
           \/ StartDisable(p)
    PROVE  Aside(p)
<1>1. TypeOK
  BY DEF IInv
<1>2. ASSUME NEW s \in Sids, StartRefresh(p, s) PROVE Aside(p)
  <2> DEFINE r == [Free EXCEPT !.phase = "user", !.kind = "refresh", !.sid = s]
  <2>1. r \in Proc /\ r.phase \in OutsideLogin
    BY FreeTyped, PhasesAre DEF Proc, Free, OutsideLogin, RequestKinds
  <2>2. Arrive(p, "refresh", r) /\ UNCHANGED <<sessions, throttle, rest>>
    BY <1>2 DEF StartRefresh
  <2> HIDE DEF r
  <2> QED
    BY <1>1, <2>1, <2>2, ArrivesAside DEF Live
<1>3. ASSUME NEW s \in Sids, StartAuthenticate(p, s) PROVE Aside(p)
  <2> DEFINE r == [Free EXCEPT !.phase = "user", !.kind = "authenticate", !.sid = s,
                               !.barred = Bars(s)]
  <2>1. r \in Proc /\ r.phase \in OutsideLogin
    <3>1. Bars(s) \subseteq {"user", "session"}
      BY DEF Bars
    <3> QED
      BY <3>1, FreeTyped, PhasesAre DEF Proc, Free, OutsideLogin, RequestKinds
  <2>2. Arrive(p, "authenticate", r) /\ UNCHANGED <<sessions, throttle, rest>>
    BY <1>3 DEF StartAuthenticate
  <2> HIDE DEF r
  <2> QED
    BY <1>1, <2>1, <2>2, ArrivesAside DEF Live
<1>4. ASSUME NEW s \in Sids, StartLogout(p, s) PROVE Aside(p)
  <2> DEFINE r == [Free EXCEPT !.phase = "revoke", !.kind = "logout", !.sid = s]
  <2>1. r \in Proc /\ r.phase \in OutsideLogin
    BY FreeTyped, PhasesAre DEF Proc, Free, OutsideLogin, RequestKinds
  <2>2. Arrive(p, "logout", r) /\ UNCHANGED <<sessions, throttle, rest>>
    BY <1>4 DEF StartLogout
  <2> HIDE DEF r
  <2> QED
    BY <1>1, <2>1, <2>2, ArrivesAside DEF Live
<1>5. ASSUME NEW keep \in Sids \cup {None}, StartRevokeAll(p, keep) PROVE Aside(p)
  <2> DEFINE r == [Free EXCEPT !.phase = "targets", !.kind = "revokeAll", !.sid = keep]
  <2>1. r \in Proc /\ r.phase \in OutsideLogin
    BY FreeTyped, PhasesAre DEF Proc, Free, OutsideLogin, RequestKinds
  <2>2. Arrive(p, "revokeAll", r) /\ UNCHANGED <<sessions, throttle, rest>>
    BY <1>5 DEF StartRevokeAll
  <2> HIDE DEF r
  <2> QED
    BY <1>1, <2>1, <2>2, ArrivesAside DEF Live
<1>6. CASE StartDisable(p)
  <2> DEFINE r == [Free EXCEPT !.phase = "targets", !.kind = "disable"]
  <2>1. r \in Proc /\ r.phase \in OutsideLogin
    BY FreeTyped, PhasesAre DEF Proc, Free, OutsideLogin, RequestKinds
  <2>2. Arrive(p, "disable", r) /\ UNCHANGED <<sessions, throttle, rest>>
    BY <1>6 DEF StartDisable
  <2> HIDE DEF r
  <2> QED
    BY <1>1, <2>1, <2>2, ArrivesAside DEF Live
<1> QED
  BY <1>2, <1>3, <1>4, <1>5, <1>6

LEMMA StepsAside ==
    ASSUME IInv, NEW p \in Procs,
           \/ ReadUser(p) \/ Rotate(p) \/ Serve(p) \/ Revoke(p)
           \/ ListTargets(p) \/ RevokeTargets(p) \/ Answer(p)
    PROVE  Aside(p)
<1>1. TypeOK
  BY DEF IInv
<1>2. procs[p].phase \in OutsideLogin
  BY PhasesAre
  DEF OutsideLogin, Is, ReadUser, Rotate, Serve, Revoke, ListTargets, RevokeTargets, Answer
<1>3. UNCHANGED <<throttle, strays>>
  BY DEF rest, ReadUser, Rotate, Serve, Revoke, ListTargets, RevokeTargets, Answer
<1>4. CASE ReadUser(p)
  <2>1. Live' \subseteq Live
    BY <1>4 DEF ReadUser, Live
  <2>2. CASE Finish(p)
    BY <1>1, <1>2, <1>3, <2>1, <2>2, FinishesAside
  <2>3. CASE Goto(p, "rotate") \/ Goto(p, "granted")
    <3>1. PICK phase \in {"rotate", "granted"} : Goto(p, phase)
      BY <2>3
    <3>2. phase \in Phases /\ phase \in OutsideLogin
      BY <3>1, PhasesAre DEF OutsideLogin
    <3> DEFINE r == [procs[p] EXCEPT !.phase = phase]
    <3>3. r \in Proc /\ r.phase = phase /\ procs' = [procs EXCEPT ![p] = r]
      BY <1>1, <3>1, <3>2, GotoTyped
    <3> HIDE DEF r
    <3> QED
      BY <1>2, <1>3, <2>1, <3>2, <3>3 DEF Aside
  <2> QED
    BY <1>4, <2>2, <2>3 DEF ReadUser
<1>5. CASE Rotate(p)
  <2>1. \A s \in Sids : sessions'[s].state = sessions[s].state
    BY <1>1, <1>5, SessionTyped DEF Rotate, Renewed
  <2> QED
    BY <1>1, <1>2, <1>3, <1>5, <2>1, FinishesAside DEF Rotate, Live
<1>6. CASE Serve(p)
  BY <1>1, <1>2, <1>3, <1>6, FinishesAside DEF Serve, Live
<1>7. CASE Revoke(p)
  <2>1. Live' \subseteq Live
    BY <1>7, EndedLessLive DEF Revoke, Gone, Revoked
  <2> QED
    BY <1>1, <1>2, <1>3, <1>7, <2>1, FinishesAside DEF Revoke
<1>8. CASE ListTargets(p)
  <2>1. Live' \subseteq Live
    BY <1>8 DEF ListTargets, Live
  <2>2. CASE ToAnswer(p)
    BY <1>1, <1>2, <1>3, <2>1, <2>2, FinishesAside
  <2>3. CASE procs' = [procs EXCEPT ![p] =
                 [@ EXCEPT !.phase = "call", !.batch = Live \ {procs[p].sid}]]
    <3> DEFINE r == [procs[p] EXCEPT !.phase = "call", !.batch = Live \ {procs[p].sid}]
    <3>1. r \in Proc /\ r.phase \in OutsideLogin
      BY <1>1, ProcTyped, PhasesAre DEF Proc, OutsideLogin, Live
    <3>2. procs' = [procs EXCEPT ![p] = r]
      BY <2>3
    <3> HIDE DEF r
    <3> QED
      BY <1>2, <1>3, <2>1, <3>1, <3>2 DEF Aside
  <2> QED
    BY <1>8, <2>2, <2>3 DEF ListTargets
<1>9. CASE RevokeTargets(p)
  <2>1. Live' \subseteq Live
    BY <1>9, EndedLessLive DEF RevokeTargets, Gone, Revoked
  <2> QED
    BY <1>1, <1>2, <1>3, <1>9, <2>1, FinishesAside DEF RevokeTargets
<1>10. CASE Answer(p)
  BY <1>1, <1>2, <1>3, <1>10, FinishesAside DEF Answer, Live
<1> QED
  BY <1>4, <1>5, <1>6, <1>7, <1>8, <1>9, <1>10

\* A step of no request, as far as the limit and the lockout are concerned.
LEMMA WorldAside ==
    ASSUME IInv,
           \/ \E s \in Sids : AccessExpires(s) \/ RefreshExpires(s)
           \/ \E b \in Buckets : LockoutEnds(b) \/ WindowPasses(b)
           \/ Enable \/ ChangeRoles \/ Cleanup \/ Tick
    PROVE  /\ strays' = strays /\ Live' \subseteq Live
           /\ \A p \in Procs : /\ procs'[p].phase = procs[p].phase
                               /\ procs'[p].seen = procs[p].seen
                               /\ procs'[p].batch = procs[p].batch
<1>1. CASE \E s \in Sids : AccessExpires(s) \/ RefreshExpires(s)
  <2>1. PICK s \in Sids : AccessExpires(s) \/ RefreshExpires(s)
    BY <1>1
  <2>2. \A t \in Sids : sessions'[t].state = sessions[t].state
    <3>1. CASE sessions' = [sessions EXCEPT ![s].access = FALSE]
      BY <3>1, SessionTyped DEF IInv
    <3>2. CASE sessions' = [sessions EXCEPT ![s].refresh = FALSE]
      BY <3>2, SessionTyped DEF IInv
    <3> QED
      BY <2>1, <3>1, <3>2 DEF AccessExpires, RefreshExpires
  <2> QED
    BY <2>1, <2>2 DEF Live, AccessExpires, RefreshExpires, rest
<1>2. CASE \E b \in Buckets : LockoutEnds(b) \/ WindowPasses(b)
  BY <1>2 DEF LockoutEnds, WindowPasses, rest, Live
<1>3. CASE Enable
  <2>1. ASSUME NEW p \in Procs
        PROVE  /\ procs'[p].phase = procs[p].phase /\ procs'[p].seen = procs[p].seen
               /\ procs'[p].batch = procs[p].batch
    <3>1. procs'[p] = [procs[p] EXCEPT !.barred = @ \ {"user"}]
      BY <1>3 DEF Enable
    <3> QED
      BY <3>1, ProcTyped DEF IInv
  <2> QED
    BY <1>3, <2>1 DEF Enable, rest, Live
<1>4. CASE ChangeRoles \/ Tick
  BY <1>4 DEF ChangeRoles, Tick, rest, Live
<1>5. CASE Cleanup
  BY <1>5, EndedLessLive DEF Cleanup, rest, Gone
<1> QED
  BY <1>1, <1>2, <1>3, <1>4, <1>5

-----------------------------------------------------------------------------
(* The session limit.                                                      *)

Pending == {p \in Procs : procs[p].phase \in {"list", "evict"}}
Evicting == {p \in Procs : procs[p].phase = "evict"}

\* What is left once the logins in S have revoked what they picked.
Kept(S) == Live \ UNION {procs[p].batch : p \in S}

\* Whichever of the logins that picked sessions come through, what is left is within the
\* limit, but for the other logins.
CapInv ==
    \A S \in SUBSET Evicting :
        Cardinality(Kept(S)) <= Limit + Cardinality(Pending \ S) + strays

LEMMA CapFinite ==
    ASSUME TypeOK
    PROVE  /\ IsFiniteSet(Live) /\ IsFiniteSet(Pending) /\ Cardinality(Live) \in Nat
           /\ \A S \in SUBSET Evicting :
                 /\ IsFiniteSet(Kept(S)) /\ Cardinality(Kept(S)) \in Nat
                 /\ IsFiniteSet(Pending \ S) /\ Cardinality(Pending \ S) \in Nat
<1>1. IsFiniteSet(Live) /\ IsFiniteSet(Pending)
  BY ProcAssumption, FS_Subset DEF Live, Pending
<1>2. ASSUME NEW S \in SUBSET Evicting
      PROVE  IsFiniteSet(Kept(S)) /\ IsFiniteSet(Pending \ S)
  <2>1. Kept(S) \subseteq Live /\ Pending \ S \subseteq Pending
    BY DEF Kept
  <2> QED
    BY <1>1, <2>1, FS_Subset
<1> QED
  BY <1>1, <1>2, FS_CardinalityType

\* Steps that leave alone who is pending and what they picked.
LEMMA CapStays ==
    ASSUME TypeOK, TypeOK', CapInv, strays' = strays, Live' \subseteq Live,
           Pending' = Pending, Evicting' = Evicting,
           \A p \in Evicting : procs'[p].batch = procs[p].batch
    PROVE  CapInv'
<1> SUFFICES ASSUME NEW S \in SUBSET Evicting
             PROVE  Cardinality(Kept(S)') <= Limit + Cardinality(Pending \ S) + strays
  BY DEF CapInv
<1>1. Kept(S)' \subseteq Kept(S)
  BY DEF Kept
<1>2. IsFiniteSet(Kept(S)) /\ Cardinality(Kept(S)) \in Nat /\ Cardinality(Pending \ S) \in Nat
  BY CapFinite
<1>3. Cardinality(Kept(S)') <= Cardinality(Kept(S)) /\ Cardinality(Kept(S)') \in Nat
  BY <1>1, <1>2, FS_Subset, FS_CardinalityType
<1>4. Cardinality(Kept(S)) <= Limit + Cardinality(Pending \ S) + strays
  BY DEF CapInv
<1> QED
  BY <1>2, <1>3, <1>4, CountAssumption DEF TypeOK

LEMMA AsideKeepsCap ==
    ASSUME TypeOK, TypeOK', CapInv, NEW p \in Procs, Aside(p)
    PROVE  CapInv'
<1>1. PICK r \in Proc : procs' = [procs EXCEPT ![p] = r] /\ r.phase \in OutsideLogin
  BY DEF Aside
<1>2. procs'[p] = r /\ \A q \in Procs \ {p} : procs'[q] = procs[q]
  BY <1>1 DEF TypeOK
<1>3. procs[p].phase \notin {"list", "evict"} /\ r.phase \notin {"list", "evict"}
  BY <1>1, PhasesAre DEF Aside, OutsideLogin
<1>4. Pending' = Pending /\ Evicting' = Evicting /\ p \notin Evicting
  BY <1>2, <1>3 DEF Pending, Evicting
<1> QED
  BY <1>2, <1>4, CapStays DEF Aside, Evicting

\* A login that is not at its limit check, before and after.
LEMMA LoginKeepsCap ==
    ASSUME TypeOK, TypeOK', CapInv, NEW p \in Procs, NEW r,
           procs' = [procs EXCEPT ![p] = r],
           r.phase \notin {"list", "evict"}, procs[p].phase \notin {"list", "evict"},
           strays' = strays, sessions' = sessions
    PROVE  CapInv'
<1>1. procs'[p] = r /\ \A q \in Procs \ {p} : procs'[q] = procs[q]
  BY DEF TypeOK
<1>2. Pending' = Pending /\ Evicting' = Evicting /\ p \notin Evicting /\ Live' = Live
  BY <1>1 DEF Pending, Evicting, Live
<1> QED
  BY <1>1, <1>2, CapStays DEF Evicting

LEMMA CreateKeepsCap ==
    ASSUME TypeOK, TypeOK', CapInv, NEW p \in Procs, NEW s \in Sids, CreateSession(p, s)
    PROVE  CapInv'
<1>1. /\ procs'[p].phase = "list" /\ procs[p].phase = "insert"
      /\ \A q \in Procs \ {p} : procs'[q] = procs[q]
  <2>1. procs' = [procs EXCEPT ![p] = [procs[p] EXCEPT !.phase = "list", !.sid = s]]
    BY ProcTyped DEF CreateSession
  <2>2. [procs[p] EXCEPT !.phase = "list", !.sid = s].phase = "list"
    BY ProcTyped DEF Proc
  <2> QED
    BY <2>1, <2>2 DEF CreateSession, Is, TypeOK
<1>2. Live' \subseteq Live \cup {s} /\ strays' = strays
  BY DEF CreateSession, Live, rest, TypeOK
<1>3. /\ p \notin Pending /\ p \notin Evicting
      /\ Pending' = Pending \cup {p} /\ Evicting' = Evicting
  BY <1>1 DEF Pending, Evicting
<1> SUFFICES ASSUME NEW S \in SUBSET Evicting
             PROVE  Cardinality(Kept(S)') <= Limit + Cardinality(Pending' \ S) + strays
  BY <1>2, <1>3 DEF CapInv
<1>4. Kept(S)' \subseteq Kept(S) \cup {s}
  BY <1>1, <1>2, <1>3 DEF Kept, Evicting
<1>5. /\ IsFiniteSet(Kept(S)) /\ Cardinality(Kept(S)) \in Nat
      /\ IsFiniteSet(Pending \ S) /\ Cardinality(Pending \ S) \in Nat
  BY CapFinite
<1>6. /\ IsFiniteSet(Kept(S) \cup {s})
      /\ Cardinality(Kept(S) \cup {s}) <= Cardinality(Kept(S)) + 1
      /\ Cardinality(Kept(S) \cup {s}) \in Nat
  <2> DEFINE K == Kept(S)
  <2>1. IsFiniteSet(K) /\ Cardinality(K) \in Nat
    BY <1>5
  <2> HIDE DEF K
  <2>2. /\ IsFiniteSet(K \cup {s})
        /\ Cardinality(K \cup {s}) = IF s \in K THEN Cardinality(K) ELSE Cardinality(K) + 1
    BY <2>1, FS_AddElement
  <2>3. Cardinality(K \cup {s}) <= Cardinality(K) + 1 /\ Cardinality(K \cup {s}) \in Nat
    BY <2>1, <2>2
  <2> QED
    BY <2>2, <2>3 DEF K
<1>7. Cardinality(Kept(S)') <= Cardinality(Kept(S)) + 1 /\ Cardinality(Kept(S)') \in Nat
  <2>1. /\ Cardinality(Kept(S)') <= Cardinality(Kept(S) \cup {s})
        /\ Cardinality(Kept(S)') \in Nat
    BY <1>4, <1>6, FS_Subset, FS_CardinalityType
  <2> QED
    BY <1>5, <1>6, <2>1
<1>8. Cardinality(Pending' \ S) = Cardinality(Pending \ S) + 1
  <2>1. Pending' \ S = (Pending \ S) \cup {p} /\ p \notin Pending \ S
    BY <1>3
  <2> QED
    BY <1>5, <2>1, FS_AddElement
<1>9. Cardinality(Kept(S)) <= Limit + Cardinality(Pending \ S) + strays
  BY DEF CapInv
<1> QED
  BY <1>5, <1>7, <1>8, <1>9, CountAssumption DEF TypeOK

\* Without the sessions it picks, a login leaves no more than the limit.
LEMMA EvictableFits ==
    ASSUME TypeOK, NEW out, out \subseteq Live, Evictable(out)
    PROVE  Cardinality(Live \ out) <= Limit /\ IsFiniteSet(Live \ out)
<1>1. IsFiniteSet(Live) /\ Cardinality(Live) \in Nat
  BY CapFinite
<1>2. IsFiniteSet(out) /\ Cardinality(out) \in Nat
  BY <1>1, FS_Subset, FS_CardinalityType
<1>3. Cardinality(Live \ out) = Cardinality(Live) - Cardinality(out)
  <2>1. Live \cap out = out
    OBVIOUS
  <2>2. Cardinality(Live \ out) = Cardinality(Live) - Cardinality(Live \cap out)
    BY <1>1, <1>2, FS_Difference
  <2> QED
    BY <2>1, <2>2
<1>4. IsFiniteSet(Live \ out)
  BY <1>1, FS_Subset
<1> QED
  BY <1>1, <1>2, <1>3, <1>4, CountAssumption DEF Evictable, Excess

LEMMA ListKeepsCap ==
    ASSUME TypeOK, TypeOK', CapInv, NEW p \in Procs, ListSessions(p)
    PROVE  CapInv'
<1>1. PICK out \in SUBSET Live :
        /\ Evictable(out)
        /\ procs' = [procs EXCEPT ![p] =
               IF out = {} THEN Free ELSE [procs[p] EXCEPT !.phase = "evict", !.batch = out]]
  BY DEF ListSessions
<1>2. procs[p].phase = "list" /\ sessions' = sessions /\ strays' = strays
  BY DEF ListSessions, Is, rest
<1>3. \A q \in Procs \ {p} : procs'[q] = procs[q]
  BY <1>1 DEF TypeOK
<1>4. p \in Pending /\ p \notin Evicting /\ Live' = Live
  BY <1>2 DEF Pending, Evicting, Live
<1> SUFFICES ASSUME NEW S \in SUBSET Evicting'
             PROVE  Cardinality(Kept(S)') <= Limit + Cardinality(Pending' \ S) + strays
  BY <1>2 DEF CapInv
<1>5. /\ IsFiniteSet(Pending' \ S) /\ Cardinality(Pending' \ S) \in Nat
      /\ IsFiniteSet(Kept(S)') /\ Cardinality(Kept(S)') \in Nat
  <2>1. IsFiniteSet(Pending') /\ Pending' \ S \subseteq Pending'
    BY ProcAssumption, FS_Subset DEF Pending
  <2>2. IsFiniteSet(Live) /\ Kept(S)' \subseteq Live
    BY <1>4, CapFinite DEF Kept
  <2> QED
    BY <2>1, <2>2, FS_Subset, FS_CardinalityType
<1>6. CASE Kept(S)' \subseteq Live \ out
  <2>1. Cardinality(Live \ out) <= Limit /\ IsFiniteSet(Live \ out)
    BY <1>1, EvictableFits
  <2>2. Cardinality(Kept(S)') <= Cardinality(Live \ out) /\ Cardinality(Live \ out) \in Nat
    BY <1>6, <2>1, FS_Subset, FS_CardinalityType
  <2> QED
    BY <1>5, <2>1, <2>2, CountAssumption DEF TypeOK
<1>7. CASE out = {}
  BY <1>4, <1>6, <1>7 DEF Kept
<1>8. CASE out # {}
  <2>1. procs'[p].phase = "evict" /\ procs'[p].batch = out
    <3>1. /\ [procs[p] EXCEPT !.phase = "evict", !.batch = out].phase = "evict"
          /\ [procs[p] EXCEPT !.phase = "evict", !.batch = out].batch = out
      BY ProcTyped DEF Proc
    <3>2. procs'[p] = [procs[p] EXCEPT !.phase = "evict", !.batch = out]
      BY <1>1, <1>8, ProcTyped
    <3> QED
      BY <3>1, <3>2
  <2>2. CASE p \in S
    <3>1. Kept(S)' \subseteq Live \ out
      BY <1>4, <2>1, <2>2 DEF Kept
    <3> QED
      BY <1>6, <3>1
  <2>3. CASE p \notin S
    <3>1. S \subseteq Evicting
      BY <1>3, <2>3 DEF Evicting
    <3>2. Kept(S)' = Kept(S)
      BY <1>3, <1>4, <2>3, <3>1 DEF Kept, Evicting
    <3>3. Pending' = Pending
      BY <1>2, <1>3, <2>1 DEF Pending
    <3> QED
      BY <3>1, <3>2, <3>3 DEF CapInv
  <2> QED
    BY <2>2, <2>3
<1> QED
  BY <1>7, <1>8

LEMMA EvictKeepsCap ==
    ASSUME TypeOK, TypeOK', CapInv, NEW p \in Procs, Evict(p)
    PROVE  CapInv'
<1>1. /\ procs[p].phase = "evict" /\ procs'[p].phase = "free" /\ strays' = strays
      /\ \A q \in Procs \ {p} : procs'[q] = procs[q]
  BY FreeTyped DEF Evict, Finish, Is, rest, TypeOK
<1>2. Live' = Live \ procs[p].batch
  BY EndedLessLive DEF Evict, Gone, Revoked
<1>3. p \in Evicting /\ Pending' = Pending \ {p} /\ Evicting' = Evicting \ {p}
  BY <1>1 DEF Pending, Evicting
<1> SUFFICES ASSUME NEW S \in SUBSET (Evicting \ {p})
             PROVE  Cardinality(Kept(S)') <= Limit + Cardinality(Pending' \ S) + strays
  BY <1>1, <1>3 DEF CapInv
<1>4. Kept(S)' = Kept(S \cup {p})
  BY <1>1, <1>2 DEF Kept, Evicting
<1>5. Pending' \ S = Pending \ (S \cup {p}) /\ S \cup {p} \subseteq Evicting
  BY <1>3
<1> QED
  BY <1>4, <1>5 DEF CapInv

LEMMA CrashKeepsCap ==
    ASSUME TypeOK, TypeOK', CapInv, NEW p \in Procs, Crash(p)
    PROVE  CapInv'
<1>1. /\ procs'[p].phase = "free" /\ \A q \in Procs \ {p} : procs'[q] = procs[q]
      /\ Live' = Live
  BY FreeTyped DEF Crash, Finish, Live, TypeOK
<1>2. Evicting' = Evicting \ {p} /\ Pending' = Pending \ {p}
  BY <1>1 DEF Evicting, Pending
<1> SUFFICES ASSUME NEW S \in SUBSET (Evicting \ {p})
             PROVE  Cardinality(Kept(S)') <= Limit + Cardinality(Pending' \ S) + strays'
  BY <1>2 DEF CapInv
<1>3. Kept(S)' = Kept(S)
  BY <1>1 DEF Kept, Evicting
<1>4. /\ Cardinality(Kept(S)) <= Limit + Cardinality(Pending \ S) + strays
      /\ IsFiniteSet(Pending \ S) /\ Cardinality(Pending \ S) \in Nat
      /\ Cardinality(Kept(S)) \in Nat
  BY CapFinite DEF CapInv
<1>5. CASE p \in Pending
  <2>1. strays' = strays + 1
    BY <1>5 DEF Crash, Pending
  <2>2. Pending' \ S = (Pending \ S) \ {p} /\ p \in Pending \ S
    BY <1>2, <1>5
  <2>3. Cardinality(Pending' \ S) = Cardinality(Pending \ S) - 1
    BY <1>4, <2>2, FS_RemoveElement
  <2> QED
    BY <1>3, <1>4, <2>1, <2>3, CountAssumption DEF TypeOK
<1>6. CASE p \notin Pending
  <2>1. Pending' = Pending /\ strays' = strays
    BY <1>2, <1>6 DEF Crash, Pending
  <2> QED
    BY <1>3, <1>4, <2>1
<1> QED
  BY <1>5, <1>6

LEMMA CapInit == Init => CapInv
<1> SUFFICES ASSUME Init PROVE CapInv
  OBVIOUS
<1>1. Live = {} /\ Evicting = {} /\ Pending = {} /\ strays = 0
  BY FreeTyped DEF Init, Live, NoSession, Evicting, Pending
<1>2. ASSUME NEW S \in SUBSET Evicting PROVE Kept(S) = {} /\ Pending \ S = {}
  BY <1>1 DEF Kept
<1> QED
  BY <1>1, <1>2, FS_EmptySet, CountAssumption DEF CapInv

LEMMA LoginKeepsLimit ==
    ASSUME TypeOK, TypeOK', CapInv, NEW p \in Procs,
           \/ \E a \in Addresses : StartLogin(p, a)
           \/ PasswordGood(p) \/ PasswordBad(p) \/ ReadAttempts(p) \/ WriteUserBucket(p)
           \/ WriteAddressBucket(p) \/ ClearAttempts(p) \/ RoleRefused(p)
    PROVE  CapInv'
<1>1. /\ strays' = strays /\ sessions' = sessions
      /\ procs[p].phase \notin {"list", "evict"}
  BY DEF StartLogin, Arrive, PasswordGood, PasswordBad, ReadAttempts, WriteUserBucket,
     WriteAddressBucket, ClearAttempts, RoleRefused, rest, Is
<1>2. PICK r : procs' = [procs EXCEPT ![p] = r]
  BY DEF StartLogin, Arrive, PasswordGood, PasswordBad, ReadAttempts, WriteUserBucket,
     WriteAddressBucket, ClearAttempts, RoleRefused, Goto, Finish
<1>3. procs'[p].phase \notin {"list", "evict"}
  <2>1. CASE \E a \in Addresses : StartLogin(p, a)
    <3>1. \A a : [Free EXCEPT !.phase = "verify", !.address = a].phase = "verify"
      BY DEF Free
    <3> QED
      BY <2>1, <3>1 DEF StartLogin, Arrive, TypeOK
  <2>2. CASE ReadAttempts(p)
    <3>1. \A seen : [procs[p] EXCEPT !.phase = "writeUser", !.seen = seen].phase = "writeUser"
      BY ProcTyped DEF Proc
    <3> QED
      BY <2>2, <3>1, ProcTyped DEF ReadAttempts
  <2>3. CASE \E phase \in {"clear", "count", "writeAddress", "insert"} : Goto(p, phase)
    <3>1. \A phase : [procs[p] EXCEPT !.phase = phase].phase = phase
      BY ProcTyped DEF Proc
    <3> QED
      BY <2>3, <3>1, ProcTyped DEF Goto
  <2>4. CASE Finish(p)
    BY <2>4, FreeTyped DEF Finish, TypeOK
  <2> QED
    BY <2>1, <2>2, <2>3, <2>4 DEF PasswordGood, PasswordBad, WriteUserBucket,
       WriteAddressBucket, ClearAttempts, RoleRefused
<1>4. procs'[p] = r
  BY <1>2 DEF TypeOK
<1> QED
  BY <1>1, <1>2, <1>3, <1>4, LoginKeepsCap

LEMMA CapKeeps == ASSUME IInv, TypeOK', CapInv, [Next]_vars PROVE CapInv'
<1>0. TypeOK
  BY DEF IInv
<1>1. CASE UNCHANGED vars
  BY <1>0, <1>1, CapStays DEF vars, Live, Pending, Evicting
<1>2. ASSUME NEW p \in Procs,
             \/ LoginStep(p) \/ \E a \in Addresses : StartLogin(p, a)
             \/ \E s \in Sids : CreateSession(p, s)
             \/ Crash(p)
      PROVE  CapInv'
  BY <1>0, <1>2, LoginKeepsLimit, CreateKeepsCap, ListKeepsCap, EvictKeepsCap, CrashKeepsCap
  DEF LoginStep
<1>3. ASSUME NEW p \in Procs, Aside(p) PROVE CapInv'
  BY <1>0, <1>3, AsideKeepsCap
<1>4. CASE \/ \E s \in Sids : AccessExpires(s) \/ RefreshExpires(s)
           \/ \E b \in Buckets : LockoutEnds(b) \/ WindowPasses(b)
           \/ Enable \/ ChangeRoles \/ Cleanup \/ Tick
  <2>1. /\ strays' = strays /\ Live' \subseteq Live
        /\ \A p \in Procs : /\ procs'[p].phase = procs[p].phase
                            /\ procs'[p].batch = procs[p].batch
    BY <1>4, WorldAside
  <2>2. Pending' = Pending /\ Evicting' = Evicting
    BY <2>1 DEF Pending, Evicting
  <2> QED
    BY <1>0, <2>1, <2>2, CapStays DEF Evicting
<1> QED
  BY <1>1, <1>2, <1>3, <1>4, ArrivalsAside, StepsAside DEF Next

\* However logins overlap, the user has no more sessions than the limit, but for the logins
\* that have not come to the limit check, or died before it.
THEOREM LimitHolds == Spec => []SessionCap
<1>1. Init => CapInv
  BY CapInit
<1>2. IInv /\ IInv' /\ CapInv /\ [Next]_vars => CapInv'
  BY CapKeeps DEF IInv
<1>3. IInv /\ CapInv => SessionCap
  <2> SUFFICES ASSUME IInv, CapInv PROVE SessionCap
    OBVIOUS
  <2>1. Kept({}) = Live /\ Pending \ {} = Pending /\ {} \in SUBSET Evicting
    BY DEF Kept
  <2> QED
    BY <2>1 DEF CapInv, SessionCap, Pending
<1> QED
  BY <1>1, <1>2, <1>3, Invariant, PTL DEF Spec

-----------------------------------------------------------------------------
(* The lockout.                                                            *)

\* While logins do not overlap there is at most one, the counter of the USERNAME bucket is
\* behind the failures by at most the one that login is about to write, and a password is
\* checked only while that bucket is open.
OneLogin ==
    \A p, q \in Procs :
        procs[p].phase \in LoginPhases /\ procs[q].phase \in LoginPhases => p = q
Uncounted == \E p \in Procs : procs[p].phase \in {"count", "writeUser"}
AtMostOneAhead(r) ==
    /\ r.phase = "verify" => ~attempts["USERNAME"].locked
    /\ r.phase = "count" => guesses <= attempts["USERNAME"].count + 1
    /\ r.phase = "writeUser" => guesses <= r.seen["USERNAME"] + 1
InStep ==
    /\ guesses <= attempts["USERNAME"].count
    /\ attempts["USERNAME"].locked \/ guesses < Threshold

LockInv ==
    ~mixed => /\ OneLogin
              /\ \A p \in Procs : AtMostOneAhead(procs[p])
              /\ ~Uncounted => InStep

LEMMA UserBucketTyped ==
    ASSUME TypeOK
    PROVE  /\ "USERNAME" \in Buckets /\ attempts["USERNAME"] \in Attempt
           /\ attempts["USERNAME"].count \in 0..Threshold
           /\ guesses \in 0..Threshold /\ Threshold \in Nat \ {0}
  BY CountAssumption DEF TypeOK, Buckets, Attempt

\* Steps that leave the counters alone: a request outside a login stays outside, and none
\* comes to or leaves the counting.
LEMMA LockStays ==
    ASSUME LockInv, UNCHANGED throttle,
           \A p \in Procs :
              /\ procs'[p].phase \in LoginPhases => procs[p].phase \in LoginPhases
              /\ \/ /\ procs'[p].phase = procs[p].phase
                    /\ procs'[p].seen = procs[p].seen
                 \/ /\ procs'[p].phase \notin {"verify", "count", "writeUser"}
                    /\ procs[p].phase \notin {"count", "writeUser"}
    PROVE  LockInv'
<1> SUFFICES ASSUME ~mixed
             PROVE  /\ OneLogin' /\ \A p \in Procs : AtMostOneAhead(procs[p])'
                    /\ ~Uncounted' => InStep'
  BY DEF LockInv, throttle
<1>1. OneLogin /\ (\A p \in Procs : AtMostOneAhead(procs[p])) /\ (~Uncounted => InStep)
  BY DEF LockInv
<1>2. OneLogin'
  BY <1>1 DEF OneLogin
<1>3. \A p \in Procs : AtMostOneAhead(procs[p])'
  BY <1>1 DEF AtMostOneAhead, throttle
<1>4. ~Uncounted' => ~Uncounted
  BY DEF Uncounted
<1> QED
  BY <1>1, <1>2, <1>3, <1>4 DEF InStep, throttle

LEMMA AsideKeepsLock == ASSUME TypeOK, LockInv, NEW p \in Procs, Aside(p) PROVE LockInv'
<1>1. PICK r \in Proc : procs' = [procs EXCEPT ![p] = r] /\ r.phase \in OutsideLogin
  BY DEF Aside
<1>2. procs'[p] = r /\ \A q \in Procs \ {p} : procs'[q] = procs[q]
  BY <1>1 DEF TypeOK
<1>3. /\ procs[p].phase \notin {"count", "writeUser"} /\ r.phase \notin LoginPhases
      /\ r.phase \notin {"verify", "count", "writeUser"}
  BY <1>1, PhasesAre DEF Aside, OutsideLogin
<1> QED
  BY <1>2, <1>3, LockStays DEF Aside

\* No login is under way, and the failures start over.
LEMMA LockAnew ==
    ASSUME TypeOK', guesses' = 0,
           \A p \in Procs : mixed' \/ procs'[p].phase \notin LoginPhases
    PROVE  LockInv'
<1>1. /\ attempts'["USERNAME"].count \in 0..Threshold /\ Threshold \in Nat \ {0}
  BY CountAssumption DEF TypeOK, Buckets, Attempt
<1> SUFFICES ASSUME ~mixed'
             PROVE  /\ OneLogin' /\ \A p \in Procs : AtMostOneAhead(procs[p])'
                    /\ InStep'
  BY DEF LockInv
<1>2. OneLogin'
  BY DEF OneLogin
<1>3. \A p \in Procs : AtMostOneAhead(procs[p])'
  BY PhasesAre DEF AtMostOneAhead
<1>4. InStep'
  BY <1>1 DEF InStep
<1> QED
  BY <1>2, <1>3, <1>4

LEMMA TimerKeepsLock ==
    ASSUME TypeOK, TypeOK', LockInv, NEW b \in Buckets, LockoutEnds(b) \/ WindowPasses(b)
    PROVE  LockInv'
<1>1. CountAnew(b) /\ procs' = procs
  BY DEF LockoutEnds, WindowPasses
<1>2. CASE b = "USERNAME"
  BY <1>1, <1>2, LockAnew DEF CountAnew
<1>3. CASE b # "USERNAME"
  <2>1. attempts'["USERNAME"] = attempts["USERNAME"] /\ UNCHANGED <<guesses, mixed>>
    BY <1>1, <1>3, UserBucketTyped DEF CountAnew, LockoutEnds, WindowPasses, TypeOK
  <2> QED
    BY <1>1, <2>1 DEF LockInv, OneLogin, AtMostOneAhead, Uncounted, InStep
<1> QED
  BY <1>2, <1>3

LEMMA StartLoginKeepsLock ==
    ASSUME TypeOK, LockInv, NEW p \in Procs, NEW a \in Addresses, StartLogin(p, a)
    PROVE  LockInv'
<1>1. [Free EXCEPT !.phase = "verify", !.address = a].phase = "verify"
  BY DEF Free
<1>2. /\ procs'[p].phase = "verify" /\ \A q \in Procs \ {p} : procs'[q] = procs[q]
      /\ procs[p].phase = "free" /\ UNCHANGED <<attempts, guesses>>
      /\ mixed' = (mixed \/ OtherLogins(p)) /\ ~attempts["USERNAME"].locked
  BY <1>1 DEF StartLogin, Arrive, Is, MayTry, IsLocked, BucketsOf, TypeOK
<1> SUFFICES ASSUME ~mixed, ~OtherLogins(p)
             PROVE  /\ OneLogin' /\ \A q \in Procs : AtMostOneAhead(procs[q])'
                    /\ ~Uncounted' => InStep'
  BY <1>2 DEF LockInv
<1>3. \A q \in Procs \ {p} : procs'[q].phase \notin LoginPhases
  BY <1>2 DEF OtherLogins
<1>4. OneLogin'
  BY <1>3 DEF OneLogin
<1>5. \A q \in Procs : AtMostOneAhead(procs[q])'
  BY <1>2, <1>3, PhasesAre DEF AtMostOneAhead
<1>6. ~Uncounted
  <2>1. \A q \in Procs : procs[q].phase \notin {"count", "writeUser"}
    BY <1>2, <1>3, PhasesAre
  <2> QED
    BY <2>1 DEF Uncounted
<1> QED
  BY <1>2, <1>4, <1>5, <1>6 DEF LockInv, InStep

\* A login that goes on, alone.
LEMMA AloneIs ==
    ASSUME TypeOK, OneLogin, NEW p \in Procs, procs[p].phase \in LoginPhases,
           \A q \in Procs \ {p} : procs'[q] = procs[q],
           procs'[p].phase \in LoginPhases \/ procs'[p].phase = "free"
    PROVE  /\ OneLogin'
           /\ \A q \in Procs \ {p} : /\ procs'[q].phase \notin LoginPhases
                                      /\ AtMostOneAhead(procs[q])'
<1>1. \A q \in Procs \ {p} : procs'[q].phase \notin LoginPhases
  BY DEF OneLogin
<1>2. OneLogin'
  BY <1>1 DEF OneLogin
<1> QED
  BY <1>1, <1>2, PhasesAre DEF AtMostOneAhead

LEMMA BadKeepsLock ==
    ASSUME TypeOK, LockInv, NEW p \in Procs, PasswordBad(p)
    PROVE  LockInv'
<1>1. [procs[p] EXCEPT !.phase = "count"].phase = "count"
  BY ProcTyped DEF Proc
<1>2. /\ procs'[p].phase = "count" /\ \A q \in Procs \ {p} : procs'[q] = procs[q]
      /\ procs[p].phase = "verify" /\ UNCHANGED <<attempts, mixed>>
      /\ guesses' = IF guesses < Threshold THEN guesses + 1 ELSE guesses
  BY <1>1 DEF PasswordBad, Goto, Is, TypeOK
<1> SUFFICES ASSUME ~mixed
             PROVE  /\ OneLogin' /\ \A q \in Procs : AtMostOneAhead(procs[q])'
                    /\ ~Uncounted' => InStep'
  BY <1>2 DEF LockInv
<1>3. OneLogin /\ (~Uncounted => InStep)
  BY DEF LockInv
<1>4. /\ OneLogin'
      /\ \A q \in Procs \ {p} : /\ procs'[q].phase \notin LoginPhases
                                 /\ AtMostOneAhead(procs[q])'
  BY <1>2, <1>3, AloneIs, PhasesAre
<1>5. ~Uncounted
  <2>1. \A q \in Procs : procs[q].phase \notin {"count", "writeUser"}
    BY <1>2, <1>4, PhasesAre
  <2> QED
    BY <2>1 DEF Uncounted
<1>6. guesses' <= attempts'["USERNAME"].count + 1
  BY <1>2, <1>3, <1>5, UserBucketTyped DEF InStep
<1>7. AtMostOneAhead(procs[p])'
  BY <1>2, <1>6 DEF AtMostOneAhead
<1>8. Uncounted'
  BY <1>2 DEF Uncounted
<1> QED
  BY <1>4, <1>7, <1>8

LEMMA ReadKeepsLock ==
    ASSUME IInv, LockInv, NEW p \in Procs, ReadAttempts(p)
    PROVE  LockInv'
<1>1. PICK r \in Proc :
        /\ procs' = [procs EXCEPT ![p] = r]
        /\ r.phase = "writeUser" /\ r.seen["USERNAME"] = attempts["USERNAME"].count
  BY SeenTyped
<1>2. /\ procs'[p] = r /\ \A q \in Procs \ {p} : procs'[q] = procs[q]
      /\ procs[p].phase = "count" /\ UNCHANGED throttle /\ TypeOK
  BY <1>1 DEF ReadAttempts, Is, IInv, TypeOK
<1> SUFFICES ASSUME ~mixed
             PROVE  /\ OneLogin' /\ \A q \in Procs : AtMostOneAhead(procs[q])'
                    /\ ~Uncounted' => InStep'
  BY <1>2 DEF LockInv, throttle
<1>3. OneLogin /\ AtMostOneAhead(procs[p])
  BY DEF LockInv
<1>4. /\ OneLogin'
      /\ \A q \in Procs \ {p} : AtMostOneAhead(procs[q])'
  BY <1>1, <1>2, <1>3, AloneIs, PhasesAre
<1>5. AtMostOneAhead(procs[p])'
  BY <1>1, <1>2, <1>3 DEF AtMostOneAhead, throttle
<1>6. Uncounted'
  BY <1>1, <1>2 DEF Uncounted
<1> QED
  BY <1>4, <1>5, <1>6

LEMMA WriteUserKeepsLock ==
    ASSUME TypeOK, LockInv, NEW p \in Procs, WriteUserBucket(p)
    PROVE  LockInv'
<1>1. [procs[p] EXCEPT !.phase = "writeAddress"].phase = "writeAddress"
  BY ProcTyped DEF Proc
<1>2. /\ procs'[p].phase = "writeAddress" /\ \A q \in Procs \ {p} : procs'[q] = procs[q]
      /\ procs[p].phase = "writeUser" /\ UNCHANGED <<guesses, mixed>>
      /\ attempts'["USERNAME"] = NextFailure(procs[p].seen["USERNAME"])
  BY <1>1, UserBucketTyped DEF WriteUserBucket, Goto, Is, TypeOK
<1> SUFFICES ASSUME ~mixed
             PROVE  /\ OneLogin' /\ \A q \in Procs : AtMostOneAhead(procs[q])'
                    /\ InStep'
  BY <1>2 DEF LockInv
<1>3. OneLogin /\ AtMostOneAhead(procs[p])
  BY DEF LockInv
<1>4. /\ OneLogin'
      /\ \A q \in Procs \ {p} : AtMostOneAhead(procs[q])'
  BY <1>2, <1>3, AloneIs, PhasesAre
<1>5. AtMostOneAhead(procs[p])'
  BY <1>2 DEF AtMostOneAhead
<1>6. PICK n \in 0..Threshold : n = procs[p].seen["USERNAME"]
  BY ProcTyped, UserBucketTyped
<1>7. guesses <= n + 1
  BY <1>2, <1>3, <1>6 DEF AtMostOneAhead
<1>8. /\ attempts'["USERNAME"].count = IF n < Threshold THEN n + 1 ELSE n
      /\ attempts'["USERNAME"].locked = (n + 1 >= Threshold)
  BY <1>2, <1>6 DEF NextFailure
<1>9. guesses \in 0..Threshold /\ Threshold \in Nat \ {0}
  BY UserBucketTyped
<1>10. guesses <= attempts'["USERNAME"].count
  BY <1>7, <1>8, <1>9
<1>11. attempts'["USERNAME"].locked \/ guesses < Threshold
  <2>1. CASE n + 1 >= Threshold
    BY <1>8, <2>1
  <2>2. CASE ~(n + 1 >= Threshold)
    BY <1>7, <1>9, <2>2
  <2> QED
    BY <2>1, <2>2
<1>12. InStep'
  BY <1>2, <1>10, <1>11 DEF InStep
<1> QED
  BY <1>4, <1>5, <1>12

LEMMA WriteAddressKeepsLock ==
    ASSUME IInv, LockInv, NEW p \in Procs, WriteAddressBucket(p)
    PROVE  LockInv'
<1>1. /\ procs'[p].phase = "free" /\ \A q \in Procs \ {p} : procs'[q] = procs[q]
      /\ procs[p].phase = "writeAddress" /\ UNCHANGED <<guesses, mixed>>
  BY FreeTyped DEF WriteAddressBucket, Finish, Is, IInv, TypeOK
<1>2. procs[p].address # "USERNAME"
  BY <1>1, AddressIsBucket, AddressAssumption, PhasesAre
<1>3. attempts'["USERNAME"] = attempts["USERNAME"]
  BY <1>2, UserBucketTyped DEF WriteAddressBucket, IInv, TypeOK
<1>4. \A q \in Procs : procs'[q].phase \in LoginPhases => procs[q].phase \in LoginPhases
  BY <1>1, PhasesAre
<1>5. OneLogin => OneLogin'
  BY <1>4 DEF OneLogin
<1>6. ~Uncounted' => ~Uncounted
  BY <1>1 DEF Uncounted
<1>7. (\A q \in Procs : AtMostOneAhead(procs[q]))
         => \A q \in Procs : AtMostOneAhead(procs[q])'
  BY <1>1, <1>3 DEF AtMostOneAhead
<1> QED
  BY <1>1, <1>3, <1>5, <1>6, <1>7 DEF LockInv, InStep

LEMMA ClearKeepsLock ==
    ASSUME TypeOK, TypeOK', LockInv, NEW p \in Procs, ClearAttempts(p)
    PROVE  LockInv'
<1>1. [procs[p] EXCEPT !.phase = "insert"].phase = "insert"
  BY ProcTyped DEF Proc
<1>2. /\ procs'[p].phase = "insert" /\ \A q \in Procs \ {p} : procs'[q] = procs[q]
      /\ guesses' = 0 /\ mixed' = OtherLogins(p)
  BY <1>1 DEF ClearAttempts, Goto, TypeOK
<1>3. /\ attempts'["USERNAME"].count \in 0..Threshold /\ Threshold \in Nat \ {0}
  BY CountAssumption DEF TypeOK, Buckets, Attempt
<1> SUFFICES ASSUME ~OtherLogins(p)
             PROVE  /\ OneLogin' /\ \A q \in Procs : AtMostOneAhead(procs[q])'
                    /\ InStep'
  BY <1>2 DEF LockInv
<1>4. \A q \in Procs \ {p} : procs'[q].phase \notin LoginPhases
  BY <1>2 DEF OtherLogins
<1>5. OneLogin'
  BY <1>4 DEF OneLogin
<1>6. \A q \in Procs : AtMostOneAhead(procs[q])'
  BY <1>2, <1>4, PhasesAre DEF AtMostOneAhead
<1> QED
  BY <1>2, <1>3, <1>5, <1>6 DEF InStep

\* The other steps of a login come to no count.
LEMMA LoginKeepsLock ==
    ASSUME TypeOK, LockInv, NEW p \in Procs,
           \/ PasswordGood(p) \/ RoleRefused(p) \/ ListSessions(p) \/ Evict(p)
           \/ \E s \in Sids : CreateSession(p, s)
    PROVE  LockInv'
<1>1. /\ procs[p].phase \in {"verify", "insert", "list", "evict"} /\ UNCHANGED throttle
  BY DEF PasswordGood, RoleRefused, ListSessions, Evict, CreateSession, Is
<1>2. /\ procs'[p].phase \in {"clear", "free", "list", "evict"}
      /\ \A q \in Procs \ {p} : procs'[q] = procs[q]
  <2>1. CASE PasswordGood(p)
    <3>1. [procs[p] EXCEPT !.phase = "clear"].phase = "clear"
      BY ProcTyped DEF Proc
    <3> QED
      BY <2>1, <3>1 DEF PasswordGood, Goto, TypeOK
  <2>2. CASE Finish(p)
    BY <2>2, FreeTyped DEF Finish, TypeOK
  <2>3. CASE \E s \in Sids : CreateSession(p, s)
    <3>1. PICK s \in Sids :
            procs' = [procs EXCEPT ![p] = [procs[p] EXCEPT !.phase = "list", !.sid = s]]
      BY <2>3, ProcTyped DEF CreateSession
    <3>2. [procs[p] EXCEPT !.phase = "list", !.sid = s].phase = "list"
      BY ProcTyped DEF Proc
    <3> QED
      BY <3>1, <3>2 DEF TypeOK
  <2>4. CASE ListSessions(p)
    <3>1. \A out : [procs[p] EXCEPT !.phase = "evict", !.batch = out].phase = "evict"
      BY ProcTyped DEF Proc
    <3>2. PICK out \in SUBSET Live :
            procs' = [procs EXCEPT ![p] =
               IF out = {} THEN Free ELSE [procs[p] EXCEPT !.phase = "evict", !.batch = out]]
      BY <2>4 DEF ListSessions
    <3>3. CASE out = {}
      BY <3>2, <3>3, FreeTyped DEF TypeOK
    <3>4. CASE out # {}
      BY <3>1, <3>2, <3>4 DEF TypeOK
    <3> QED
      BY <3>3, <3>4
  <2> QED
    BY <2>1, <2>2, <2>3, <2>4 DEF RoleRefused, Evict
<1>3. /\ procs[p].phase \in LoginPhases /\ procs[p].phase \notin {"count", "writeUser"}
      /\ procs'[p].phase \notin {"verify", "count", "writeUser"}
  BY <1>1, <1>2, PhasesAre
<1> QED
  BY <1>1, <1>2, <1>3, LockStays

LEMMA CrashKeepsLock ==
    ASSUME TypeOK, LockInv, NEW p \in Procs, Crash(p)
    PROVE  LockInv'
<1>1. /\ procs'[p].phase = "free" /\ \A q \in Procs \ {p} : procs'[q] = procs[q]
      /\ UNCHANGED <<attempts, guesses>>
      /\ mixed' = (mixed \/ procs[p].phase \in LoginPhases)
  BY FreeTyped DEF Crash, Finish, TypeOK
<1>2. CASE procs[p].phase \in LoginPhases
  BY <1>1, <1>2 DEF LockInv
<1>3. CASE procs[p].phase \notin LoginPhases
  <2>1. /\ procs[p].phase \notin {"count", "writeUser"} /\ UNCHANGED throttle
        /\ procs'[p].phase \notin LoginPhases
        /\ procs'[p].phase \notin {"verify", "count", "writeUser"}
    <3>1. mixed' = mixed
      BY <1>1, <1>3 DEF TypeOK
    <3> QED
      BY <1>1, <1>3, <3>1, PhasesAre DEF throttle
  <2> QED
    BY <1>1, <2>1, LockStays
<1> QED
  BY <1>2, <1>3

LEMMA LockInit == Init => LockInv
<1> SUFFICES ASSUME Init PROVE LockInv
  OBVIOUS
<1>1. /\ \A p \in Procs : procs[p].phase = "free"
      /\ guesses = 0 /\ attempts["USERNAME"].count = 0
  BY FreeTyped DEF Init, NoAttempt, Buckets
<1>2. OneLogin /\ \A p \in Procs : AtMostOneAhead(procs[p])
  BY <1>1, PhasesAre DEF OneLogin, AtMostOneAhead
<1>3. InStep
  BY <1>1, CountAssumption DEF InStep
<1> QED
  BY <1>2, <1>3 DEF LockInv

LEMMA LockKeeps == ASSUME IInv, TypeOK', LockInv, [Next]_vars PROVE LockInv'
<1>0. TypeOK
  BY DEF IInv
<1>1. CASE UNCHANGED vars
  BY <1>1, LockStays DEF vars, throttle
<1>2. ASSUME NEW p \in Procs,
             \/ LoginStep(p) \/ \E a \in Addresses : StartLogin(p, a)
             \/ \E s \in Sids : CreateSession(p, s)
             \/ Crash(p)
      PROVE  LockInv'
  BY <1>0, <1>2, StartLoginKeepsLock, LoginKeepsLock, BadKeepsLock, ReadKeepsLock,
     WriteUserKeepsLock, WriteAddressKeepsLock, ClearKeepsLock, CrashKeepsLock DEF LoginStep
<1>3. ASSUME NEW p \in Procs, Aside(p) PROVE LockInv'
  BY <1>0, <1>3, AsideKeepsLock
<1>4. CASE \E b \in Buckets : LockoutEnds(b) \/ WindowPasses(b)
  BY <1>0, <1>4, TimerKeepsLock
<1>5. CASE \/ \E s \in Sids : AccessExpires(s) \/ RefreshExpires(s)
           \/ Enable \/ ChangeRoles \/ Cleanup \/ Tick
  <2>1. \A p \in Procs : /\ procs'[p].phase = procs[p].phase
                         /\ procs'[p].seen = procs[p].seen
    BY <1>5, WorldAside
  <2>2. UNCHANGED throttle
    BY <1>5 DEF AccessExpires, RefreshExpires, Enable, ChangeRoles, Cleanup, Tick, throttle
  <2> QED
    BY <2>1, <2>2, LockStays
<1> QED
  BY <1>1, <1>2, <1>3, <1>4, <1>5, ArrivalsAside, StepsAside DEF Next

\* While logins do not overlap, no password is checked any more after Threshold failures,
\* until the lockout ends.
THEOREM LockoutBinds == Spec => []LockoutHolds
<1>1. Init => LockInv
  BY LockInit
<1>2. IInv /\ IInv' /\ LockInv /\ [Next]_vars => LockInv'
  BY LockKeeps DEF IInv
<1>3. IInv /\ LockInv => LockoutHolds
  <2> SUFFICES ASSUME IInv, LockInv, NEW p \in Procs, procs[p].phase = "verify", ~mixed
               PROVE  guesses < Threshold
    BY DEF LockoutHolds, Is
  <2>1. /\ OneLogin /\ (~Uncounted => InStep) /\ ~attempts["USERNAME"].locked
    BY DEF LockInv, AtMostOneAhead
  <2>2. \A q \in Procs : procs[q].phase \notin {"count", "writeUser"}
    BY <2>1, PhasesAre DEF OneLogin
  <2> QED
    BY <2>1, <2>2 DEF Uncounted, InStep
<1> QED
  BY <1>1, <1>2, <1>3, Invariant, PTL DEF Spec
=============================================================================

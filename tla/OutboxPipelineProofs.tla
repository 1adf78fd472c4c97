------------------------- MODULE OutboxPipelineProofs -------------------------
(***************************************************************************)
(* Proofs about OutboxPipeline, for any number of rows and processes:      *)
(*   - whatever expires, crashes or is requeued, the state is well formed, *)
(*     a row is SENT or announced only with its document in MongoDB, and   *)
(*     FAILED only when its attempts are used up;                          *)
(*   - while leases hold, nothing runs without one and no operator         *)
(*     requeues, a row is synced by one process at a time, and, when       *)
(*     MySQL's errors are true as well, the pipeline implements            *)
(*     OutboxDelivery.                                                     *)
(*                                                                         *)
(* The first part needs Traced: a process about to mark or to announce a   *)
(* row has seen its document inserted.  The second rests on the claims of  *)
(* a process, the row it works on and the rest of its batch: a claim is    *)
(* exclusive, and its row is not due (Exclusive, Covered), so that the     *)
(* attempts a process read are the attempts the row has (Counted).         *)
(***************************************************************************)
EXTENDS OutboxPipeline, TLAPS

Traced ==
    \A p \in Procs :
        procs[p].phase \in {"mark", "announce"} \/ procs[p].ok => docs[procs[p].id] > 0

IInv == TypeOK /\ SentHasDocument /\ FailedIsExhausted /\ Traced

LEMMA FreeTyped == Free \in Proc /\ AnyId \in Ids
  BY IdAssumption DEF Free, Proc, Phases, AnyId, WorkPhases

\* What a step of process p may do to the rest without disturbing the invariant.
LEMMA StepKeeps ==
    ASSUME IInv, NEW p \in Procs, NEW r \in Proc,
           procs' = [procs EXCEPT ![p] = r],
           rows' \in [Ids -> Row], docs' \in [Ids -> 0..MaxDocs],
           announced' \subseteq Ids, letters' \subseteq Ids, dlq' \subseteq Ids,
           scans' \in [Ids -> {"none", "waiting", "active"}],
           retries' \in [Ids -> 0..MaxRetries],
           requeues' \in Nat, faults' \in Nat,
           \A i \in Ids : docs[i] > 0 => docs'[i] > 0,
           \A i \in Ids : rows'[i].status = "SENT" => rows[i].status = "SENT" \/ docs'[i] > 0,
           \A i \in Ids : rows'[i].status = "FAILED" => rows'[i].attempts >= MaxAttempts,
           \A i \in announced' : i \in announced \/ docs'[i] > 0,
           r.phase \in {"mark", "announce"} \/ r.ok => docs'[r.id] > 0
    PROVE  IInv'
<1>1. TypeOK'
  BY DEF IInv, TypeOK
<1>2. SentHasDocument'
  BY DEF IInv, SentHasDocument
<1>3. FailedIsExhausted'
  BY DEF FailedIsExhausted
<1>4. Traced'
  <2>1. ASSUME NEW q \in Procs, q # p,
               procs'[q].phase \in {"mark", "announce"} \/ procs'[q].ok
        PROVE  docs'[procs'[q].id] > 0
    <3>1. procs'[q] = procs[q] /\ procs[q].id \in Ids
      BY <2>1 DEF IInv, TypeOK, Proc
    <3> QED
      BY <2>1, <3>1 DEF IInv, Traced
  <2>2. procs'[p] = r
    BY DEF IInv, TypeOK
  <2> QED
    BY <2>1, <2>2 DEF Traced
<1> QED
  BY <1>1, <1>2, <1>3, <1>4 DEF IInv

\* Steps that change only what is queued and what process p does.
LEMMA MoveKeeps ==
    ASSUME IInv, NEW p \in Procs, NEW r \in Proc,
           procs' = [procs EXCEPT ![p] = r],
           UNCHANGED <<rows, docs, announced, dlq, requeues>>,
           letters' \subseteq Ids, faults' \in Nat,
           scans' \in [Ids -> {"none", "waiting", "active"}],
           retries' \in [Ids -> 0..MaxRetries],
           r.phase \in {"mark", "announce"} \/ r.ok => docs[r.id] > 0
    PROVE  IInv'
  BY StepKeeps DEF IInv, TypeOK, FailedIsExhausted

LEMMA ProcTyped ==
    ASSUME IInv, NEW p \in Procs
    PROVE  /\ procs[p] \in Proc /\ procs[p].id \in Ids /\ procs[p].seen \in Nat
           /\ procs[p].todo \subseteq Ids /\ procs[p].ok \in BOOLEAN
           /\ procs[p].phase \in Phases
           /\ DOMAIN procs = Procs
           /\ procs[p] = [phase |-> procs[p].phase, kind |-> procs[p].kind,
                          job |-> procs[p].job, id |-> procs[p].id, seen |-> procs[p].seen,
                          ok |-> procs[p].ok, todo |-> procs[p].todo]
  BY DEF IInv, TypeOK, Proc

\* A process that goes on to another phase keeps the rest of its record.
LEMMA GotoTyped ==
    ASSUME IInv, NEW p \in Procs, NEW phase \in Phases
    PROVE  LET r == [procs[p] EXCEPT !.phase = phase]
           IN  /\ r \in Proc /\ r.phase = phase /\ r.id = procs[p].id /\ r.ok = procs[p].ok
               /\ r.seen = procs[p].seen /\ r.todo = procs[p].todo
               /\ Goto(p, phase) <=> procs' = [procs EXCEPT ![p] = r]
<1> DEFINE r == [procs[p] EXCEPT !.phase = phase]
<1>1. procs[p] \in Proc /\ DOMAIN procs = Procs
  BY ProcTyped
<1>2. r \in Proc /\ r.phase = phase /\ r.id = procs[p].id /\ r.ok = procs[p].ok
      /\ r.seen = procs[p].seen /\ r.todo = procs[p].todo
  BY <1>1 DEF Proc
<1>3. Goto(p, phase) <=> procs' = [procs EXCEPT ![p] = r]
  BY <1>1 DEF Goto
<1> QED
  BY <1>2, <1>3

LEMMA JobDoneTyped ==
    ASSUME IInv, NEW p \in Procs, JobDone(p)
    PROVE  scans' \in [Ids -> {"none", "waiting", "active"}]
  BY DEF JobDone, IInv, TypeOK

LEMMA OutcomePhaseIs ==
    ASSUME NEW p \in Procs, NEW ok \in BOOLEAN, NEW status
    PROVE  /\ OutcomePhase(p, ok, status) \in {"after", "announce", "bury", "again"}
           /\ OutcomePhase(p, ok, status) = "announce" => ok \/ status = "SENT"
  BY DEF OutcomePhase

LEMMA DocAddedIs ==
    ASSUME IInv, NEW i \in Ids
    PROVE  /\ DocAdded(i) \in [Ids -> 0..MaxDocs]
           /\ DocAdded(i)[i] > 0
           /\ \A j \in Ids : docs[j] > 0 => DocAdded(i)[j] > 0
           /\ \A j \in Ids \ {i} : DocAdded(i)[j] = docs[j]
  BY CountAssumption DEF DocAdded, IInv, TypeOK

LEMMA PhasesAre ==
    Phases = {"free", "claim", "after", "announce", "again", "bury",
              "look", "read", "insert", "mark", "fail"}
  BY DEF Phases, WorkPhases

-----------------------------------------------------------------------------
(* Steps without a process.                                                *)

\* Steps that leave the processes alone.
LEMMA WorldKeeps ==
    ASSUME IInv,
           UNCHANGED <<docs, announced, procs>>,
           rows' \in [Ids -> Row], letters' \subseteq Ids, dlq' \subseteq Ids,
           scans' \in [Ids -> {"none", "waiting", "active"}],
           retries' \in [Ids -> 0..MaxRetries],
           requeues' \in Nat, faults' \in Nat,
           \A i \in Ids : rows'[i].status = "SENT" => rows[i].status = "SENT",
           \A i \in Ids :
               rows'[i].status = "FAILED" => rows[i].status = "FAILED"
                                             /\ rows'[i].attempts = rows[i].attempts
    PROVE  IInv'
<1>1. TypeOK'
  BY DEF IInv, TypeOK
<1>2. SentHasDocument' /\ FailedIsExhausted' /\ Traced'
  BY DEF IInv, SentHasDocument, FailedIsExhausted, Traced
<1> QED
  BY <1>1, <1>2 DEF IInv

LEMMA RowEventsKeep ==
    ASSUME IInv, NEW i \in Ids,
           \/ LogEvent(i) \/ TimePasses(i) \/ EnqueueDue(i) \/ PersistDeadLetter(i)
           \/ PersistRaises(i) \/ SweepFailed(i) \/ Requeue(i)
    PROVE  IInv'
<1>1. CASE LogEvent(i)
  BY <1>1, WorldKeeps DEF LogEvent, IInv, TypeOK, Row, queue, results, counters
<1>2. CASE TimePasses(i)
  <2>1. rows' = [rows EXCEPT ![i].held = FALSE]
        /\ UNCHANGED <<docs, queue, results, procs, counters>>
    BY <1>2 DEF TimePasses
  <2> QED
    BY <2>1, WorldKeeps DEF IInv, TypeOK, Row, queue, results, counters
<1>3. CASE EnqueueDue(i)
  BY <1>3, WorldKeeps DEF EnqueueDue, IInv, TypeOK, results, counters
<1>4. CASE PersistDeadLetter(i)
  BY <1>4, WorldKeeps DEF PersistDeadLetter, IInv, TypeOK, queue, counters
<1>5. CASE PersistRaises(i)
  BY <1>5, WorldKeeps DEF PersistRaises, IInv, TypeOK, queue
<1>6. CASE SweepFailed(i)
  BY <1>6, WorldKeeps DEF SweepFailed, IInv, TypeOK, queue, counters
<1>7. CASE Requeue(i)
  <2>1. /\ rows' = [rows EXCEPT ![i] = [@ EXCEPT !.status = "PENDING", !.held = FALSE]]
        /\ requeues' = requeues + 1
        /\ UNCHANGED <<docs, queue, results, procs, faults>>
    BY <1>7 DEF Requeue
  <2>2. requeues' \in Nat
    BY <2>1 DEF IInv, TypeOK
  <2> QED
    BY <2>1, <2>2, WorldKeeps DEF IInv, TypeOK, Row, queue, results
<1> QED
  BY <1>1, <1>2, <1>3, <1>4, <1>5, <1>6, <1>7

LEMMA RequeueFailedKeeps == ASSUME IInv, RequeueFailed PROVE IInv'
<1>1. PICK some \in SUBSET {i \in Ids : rows[i].status = "FAILED"} :
        rows' = [i \in Ids |->
            IF i \in some
            THEN [rows[i] EXCEPT !.status = "PENDING", !.held = FALSE]
            ELSE rows[i]]
  BY DEF RequeueFailed
<1>2. requeues' = requeues + 1 /\ UNCHANGED <<docs, queue, results, procs, faults>>
  BY DEF RequeueFailed
<1>3. requeues' \in Nat
  BY <1>2 DEF IInv, TypeOK
<1> QED
  BY <1>1, <1>2, <1>3, WorldKeeps DEF IInv, TypeOK, Row, queue, results

-----------------------------------------------------------------------------
(* The steps of a process, one case per action.                            *)

LEMMA TakeKeeps ==
    ASSUME IInv, NEW p \in Procs, NEW i \in Ids, TakeScanJob(p, i) \/ TakeRetryJob(p, i)
    PROVE  IInv'
<1>1. CASE TakeScanJob(p, i)
  <2> DEFINE r == [Free EXCEPT !.phase = "claim", !.kind = "worker", !.job = "scan", !.id = i]
  <2>1. r \in Proc /\ r.phase = "claim" /\ ~r.ok
    BY FreeTyped DEF Free, Proc, Phases
  <2>2. procs' = [procs EXCEPT ![p] = r]
    BY <1>1 DEF TakeScanJob, TakeJob
  <2> HIDE DEF r
  <2> QED
    BY <1>1, <2>1, <2>2, MoveKeeps DEF TakeScanJob, IInv, TypeOK, results, counters
<1>2. CASE TakeRetryJob(p, i)
  <2> DEFINE r == [Free EXCEPT !.phase = "claim", !.kind = "worker", !.job = "retry", !.id = i]
  <2>1. r \in Proc /\ r.phase = "claim" /\ ~r.ok
    BY FreeTyped DEF Free, Proc, Phases
  <2>2. procs' = [procs EXCEPT ![p] = r]
    BY <1>2 DEF TakeRetryJob, TakeJob
  <2>3. retries' \in [Ids -> 0..MaxRetries]
    BY <1>2, CountAssumption DEF TakeRetryJob, IInv, TypeOK
  <2> HIDE DEF r
  <2> QED
    BY <1>2, <2>1, <2>2, <2>3, MoveKeeps DEF TakeRetryJob, IInv, TypeOK, results, counters
<1> QED
  BY <1>1, <1>2

LEMMA LogInlineKeeps ==
    ASSUME IInv, NEW p \in Procs, NEW i \in Ids, LogEventInline(p, i)
    PROVE  IInv'
<1> DEFINE r == [Free EXCEPT !.phase = "read", !.kind = "inline", !.id = i]
<1>1. r \in Proc /\ r.phase = "read" /\ ~r.ok
  BY FreeTyped DEF Free, Proc, Phases, WorkPhases
<1>2. procs' = [procs EXCEPT ![p] = r] /\ rows' = [rows EXCEPT ![i].status = "PENDING"]
      /\ UNCHANGED <<docs, queue, results, counters>>
  BY DEF LogEventInline
<1> HIDE DEF r
<1>3. rows' \in [Ids -> Row]
      /\ \A j \in Ids : rows'[j].status # "PENDING" => rows'[j] = rows[j]
  BY <1>2 DEF IInv, TypeOK, Row
<1> QED
  BY <1>1, <1>2, <1>3, StepKeeps DEF IInv, TypeOK, FailedIsExhausted, queue, results, counters

LEMMA ClaimKeeps == ASSUME IInv, NEW p \in Procs, ClaimRow(p) PROVE IInv'
<1> DEFINE i == procs[p].id
<1>1. CASE Claimable(i)
  <2> DEFINE r == [procs[p] EXCEPT !.phase = "look"]
  <2>1. r \in Proc /\ r.phase = "look" /\ r.ok = procs[p].ok /\ r.id = i
        /\ procs' = [procs EXCEPT ![p] = r]
    BY <1>1, GotoTyped, PhasesAre DEF ClaimRow
  <2>2. rows' = [rows EXCEPT ![i].held = TRUE]
        /\ UNCHANGED <<docs, scans, retries, results, counters>>
    BY <1>1 DEF ClaimRow
  <2>3. rows' \in [Ids -> Row]
        /\ \A j \in Ids : rows'[j].status = rows[j].status
                          /\ rows'[j].attempts = rows[j].attempts
    BY <2>2 DEF IInv, TypeOK, Row
  <2>4. r.ok => docs[r.id] > 0
    BY <2>1 DEF IInv, Traced
  <2> HIDE DEF r
  <2> QED
    BY <2>1, <2>2, <2>3, <2>4, StepKeeps
    DEF IInv, TypeOK, FailedIsExhausted, results, counters
<1>2. CASE ~Claimable(i)
  <2>1. procs' = [procs EXCEPT ![p] = Free] /\ JobDone(p)
        /\ UNCHANGED <<rows, docs, retries, results, counters>>
    BY <1>2 DEF ClaimRow
  <2> QED
    BY <2>1, JobDoneTyped, FreeTyped, MoveKeeps DEF Free, IInv, TypeOK, results, counters
<1> QED
  BY <1>1, <1>2

LEMMA DrainKeeps == ASSUME IInv, NEW p \in Procs, StartDrain(p) PROVE IInv'
<1> DEFINE Leases(batch, i) ==
        /\ rows' = [j \in Ids |->
               IF j \in batch THEN [rows[j] EXCEPT !.held = TRUE] ELSE rows[j]]
        /\ procs' = [procs EXCEPT ![p] =
               [Free EXCEPT !.phase = "look", !.kind = "drain", !.id = i,
                            !.todo = batch \ {i}]]
<1>1. PICK batch \in SUBSET {i \in Ids : IsDue(i)} : \E i \in batch : Leases(batch, i)
  BY DEF StartDrain
<1>2. PICK i \in batch : Leases(batch, i)
  BY <1>1
<1> DEFINE r == [Free EXCEPT !.phase = "look", !.kind = "drain", !.id = i,
                             !.todo = batch \ {i}]
<1>3. r \in Proc /\ r.phase = "look" /\ ~r.ok
  BY FreeTyped DEF Free, Proc, Phases, WorkPhases
<1>4. rows' \in [Ids -> Row]
      /\ \A j \in Ids : rows'[j].status = rows[j].status
                        /\ rows'[j].attempts = rows[j].attempts
  BY <1>2 DEF IInv, TypeOK, Row
<1>5. UNCHANGED <<docs, queue, results, counters>>
  BY DEF StartDrain
<1> HIDE DEF r
<1>6. procs' = [procs EXCEPT ![p] = r]
  BY <1>2 DEF r
<1> QED
  BY <1>3, <1>4, <1>5, <1>6, StepKeeps
  DEF IInv, TypeOK, FailedIsExhausted, queue, results, counters

\* LookFirst and LookAfter act on the outcome: an announcement has its document.
LEMMA LookFirstKeeps == ASSUME IInv, NEW p \in Procs, LookFirst(p) PROVE IInv'
<1> DEFINE status == rows[procs[p].id].status
           next == IF status \in {"SENT", "FAILED"}
                   THEN OutcomePhase(p, FALSE, status) ELSE "read"
           r == [procs[p] EXCEPT !.phase = next]
<1>1. next \in {"read", "after", "announce", "bury", "again"}
      /\ (next = "announce" => status = "SENT")
  BY OutcomePhaseIs
<1>2. r \in Proc /\ r.phase = next /\ r.ok = procs[p].ok /\ r.id = procs[p].id
      /\ procs' = [procs EXCEPT ![p] = r]
  <2>1. next \in Phases /\ Goto(p, next)
    BY <1>1, PhasesAre DEF LookFirst
  <2> HIDE DEF next
  <2> QED
    BY <2>1, GotoTyped
<1>3. next = "announce" => docs[procs[p].id] > 0
  BY <1>1, ProcTyped DEF IInv, SentHasDocument
<1>4. r.phase \in {"mark", "announce"} \/ r.ok => docs[r.id] > 0
  <2> HIDE DEF r, next
  <2> QED
    BY <1>1, <1>2, <1>3 DEF IInv, Traced
<1>5. UNCHANGED <<rows, docs, queue, results, counters>>
  BY DEF LookFirst
<1> HIDE DEF r
<1> QED
  BY <1>2, <1>4, <1>5, MoveKeeps DEF IInv, TypeOK, queue, results, counters

LEMMA LookAfterKeeps == ASSUME IInv, NEW p \in Procs, LookAfter(p) PROVE IInv'
<1>1. UNCHANGED <<rows, docs, queue, results, counters>>
  BY DEF LookAfter
<1>2. ASSUME NEW r \in Proc, procs' = [procs EXCEPT ![p] = r],
             r.phase \in {"mark", "announce"} \/ r.ok => docs[r.id] > 0
      PROVE  IInv'
  BY <1>1, <1>2, MoveKeeps DEF IInv, TypeOK, queue, results, counters
<1>3. CASE procs' = [procs EXCEPT ![p] = Free]
  BY <1>2, <1>3, FreeTyped DEF Free
<1>4. CASE procs' = [procs EXCEPT ![p] =
               [@ EXCEPT !.phase = OutcomePhase(p, procs[p].ok, rows[procs[p].id].status),
                         !.ok = FALSE]]
  <2> DEFINE next == OutcomePhase(p, procs[p].ok, rows[procs[p].id].status)
             r == [procs[p] EXCEPT !.phase = next, !.ok = FALSE]
  <2>1. next \in {"after", "announce", "bury", "again"}
        /\ (next = "announce" => procs[p].ok \/ rows[procs[p].id].status = "SENT")
    BY OutcomePhaseIs, ProcTyped
  <2>2. next = "announce" => docs[procs[p].id] > 0
    BY <2>1, ProcTyped DEF IInv, SentHasDocument, Traced
  <2> HIDE DEF next
  <2>3. r \in Proc /\ r.phase = next /\ ~r.ok /\ r.id = procs[p].id
    BY <2>1, ProcTyped, PhasesAre DEF Proc
  <2>4. procs' = [procs EXCEPT ![p] = r]
    BY <1>4, ProcTyped DEF next
  <2> HIDE DEF r
  <2> QED
    BY <2>1, <2>2, <2>3, <2>4, <1>2
<1>5. ASSUME NEW i \in procs[p].todo,
             procs' = [procs EXCEPT ![p] =
                 [@ EXCEPT !.phase = "look", !.id = i, !.ok = FALSE,
                           !.todo = procs[p].todo \ {i}]]
      PROVE  IInv'
  <2> DEFINE r == [procs[p] EXCEPT !.phase = "look", !.id = i, !.ok = FALSE,
                                   !.todo = procs[p].todo \ {i}]
  <2>1. r \in Proc /\ r.phase = "look" /\ ~r.ok
    BY ProcTyped, PhasesAre DEF Proc
  <2>2. procs' = [procs EXCEPT ![p] = r]
    BY <1>5, ProcTyped
  <2> HIDE DEF r
  <2> QED
    BY <2>1, <2>2, <1>2
<1> QED
  BY <1>3, <1>4, <1>5 DEF LookAfter

LEMMA ReadRowKeeps == ASSUME IInv, NEW p \in Procs, ReadRow(p) PROVE IInv'
<1> DEFINE i == procs[p].id
<1>1. UNCHANGED <<rows, docs, queue, results, counters>>
  BY DEF ReadRow
<1>2. CASE IsSent(i)
  <2> DEFINE r == [procs[p] EXCEPT !.phase = "after", !.ok = TRUE]
  <2>1. r \in Proc /\ r.phase = "after" /\ r.id = i
    BY ProcTyped, PhasesAre DEF Proc
  <2>2. procs' = [procs EXCEPT ![p] = r]
    BY <1>2, ProcTyped DEF ReadRow
  <2>3. docs[i] > 0
    BY <1>2, ProcTyped DEF IsSent, IInv, SentHasDocument
  <2> HIDE DEF r
  <2> QED
    BY <1>1, <2>1, <2>2, <2>3, MoveKeeps DEF IInv, TypeOK, queue, results, counters
<1>3. CASE ~IsSent(i)
  <2> DEFINE r == [procs[p] EXCEPT !.phase = "insert", !.seen = rows[i].attempts]
  <2>1. rows[i].attempts \in Nat
    BY ProcTyped DEF IInv, TypeOK, Row
  <2>2. r \in Proc /\ r.phase = "insert" /\ r.id = i /\ r.ok = procs[p].ok
    BY <2>1, ProcTyped, PhasesAre DEF Proc
  <2>3. procs' = [procs EXCEPT ![p] = r]
    BY <1>3, ProcTyped DEF ReadRow
  <2>4. r.ok => docs[r.id] > 0
    BY <2>2 DEF IInv, Traced
  <2> HIDE DEF r
  <2> QED
    BY <1>1, <2>2, <2>3, <2>4, MoveKeeps DEF IInv, TypeOK, queue, results, counters
<1> QED
  BY <1>2, <1>3

LEMMA InsertKeeps ==
    ASSUME IInv, NEW p \in Procs, InsertDoc(p) \/ InsertRaises(p)
    PROVE  IInv'
<1> DEFINE i == procs[p].id
<1>1. PICK phase \in {"mark", "fail"} :
        /\ Goto(p, phase)
        /\ docs' \in {docs, DocAdded(i)} /\ (phase = "mark" => docs' = DocAdded(i))
        /\ UNCHANGED <<rows, queue, results, counters>>
  BY DEF InsertDoc, InsertRaises
<1> DEFINE r == [procs[p] EXCEPT !.phase = phase]
<1>2. r \in Proc /\ r.phase = phase /\ r.ok = procs[p].ok /\ r.id = i
      /\ procs' = [procs EXCEPT ![p] = r]
  <2>1. phase \in Phases
    BY PhasesAre
  <2> QED
    BY <1>1, <2>1, GotoTyped
<1>3. i \in Ids
  BY ProcTyped
<1>4. /\ docs' \in [Ids -> 0..MaxDocs] /\ \A j \in Ids : docs[j] > 0 => docs'[j] > 0
      /\ phase = "mark" => docs'[i] > 0
  BY <1>1, <1>3, DocAddedIs DEF IInv, TypeOK
<1>5. r.phase \in {"mark", "announce"} \/ r.ok => docs'[r.id] > 0
  BY <1>1, <1>2, <1>3, <1>4 DEF IInv, Traced
<1> HIDE DEF r
<1> QED
  BY <1>1, <1>2, <1>4, <1>5, StepKeeps
  DEF IInv, TypeOK, FailedIsExhausted, queue, results, counters

\* A row becomes SENT only after the insert.
LEMMA MarkKeeps ==
    ASSUME IInv, NEW p \in Procs, MarkSent(p) \/ MarkRaises(p)
    PROVE  IInv'
<1> DEFINE i == procs[p].id
<1>1. procs[p].phase = "mark" /\ i \in Ids /\ docs[i] > 0
  BY ProcTyped DEF MarkSent, MarkRaises, IInv, Traced
<1>2. /\ rows' \in {rows, RowSent(i)}
      /\ UNCHANGED <<docs, queue, results, requeues>>
      /\ faults' \in {faults, faults + 1}
  BY DEF MarkSent, MarkRaises, counters
<1>3. /\ RowSent(i) \in [Ids -> Row] /\ RowSent(i)[i].status = "SENT"
      /\ \A j \in Ids \ {i} : RowSent(i)[j] = rows[j]
  BY <1>1 DEF RowSent, IInv, TypeOK, Row
<1>4. /\ rows' \in [Ids -> Row] /\ faults' \in Nat
      /\ \A j \in Ids : rows'[j].status = "SENT" => rows[j].status = "SENT" \/ docs[j] > 0
      /\ \A j \in Ids : rows'[j].status = "FAILED" => rows'[j].attempts >= MaxAttempts
  <2>1. faults' \in Nat
    BY <1>2 DEF IInv, TypeOK
  <2>2. CASE rows' = rows
    BY <1>2, <2>2, <2>1 DEF IInv, TypeOK, FailedIsExhausted
  <2>3. CASE rows' = RowSent(i)
    <3>1. \A j \in Ids \ {i} : rows'[j] = rows[j]
      BY <1>3, <2>3
    <3>2. rows' \in [Ids -> Row] /\ rows'[i].status = "SENT"
      BY <1>3, <2>3
    <3> QED
      BY <1>1, <2>1, <3>1, <3>2 DEF IInv, FailedIsExhausted
  <2> QED
    BY <1>2, <2>2, <2>3
<1>5. PICK r \in Proc : r.id = i /\ procs' = [procs EXCEPT ![p] = r]
                        /\ r.phase \in {"after", "fail"}
  <2>1. CASE MarkSent(p)
    <3> DEFINE r == [procs[p] EXCEPT !.phase = "after", !.seen = 0, !.ok = TRUE]
    <3>1. r \in Proc /\ r.id = i /\ r.phase = "after"
      BY ProcTyped, PhasesAre DEF Proc
    <3>2. procs' = [procs EXCEPT ![p] = r]
      BY <2>1, ProcTyped DEF MarkSent
    <3> HIDE DEF r
    <3> QED
      BY <3>1, <3>2
  <2>2. CASE MarkRaises(p)
    <3> DEFINE r == [procs[p] EXCEPT !.phase = "fail"]
    <3>1. r \in Proc /\ r.id = i /\ r.phase = "fail" /\ procs' = [procs EXCEPT ![p] = r]
      BY <2>2, GotoTyped, PhasesAre DEF MarkRaises
    <3> HIDE DEF r
    <3> QED
      BY <3>1
  <2> QED
    BY <2>1, <2>2
<1>6. r.phase \in {"mark", "announce"} \/ r.ok => docs[r.id] > 0
  BY <1>1, <1>5
<1> QED
  BY <1>2, <1>4, <1>5, <1>6, StepKeeps DEF IInv, TypeOK, queue, results

\* A row becomes FAILED only with its attempts used up.
LEMMA FailKeeps == ASSUME IInv, NEW p \in Procs, FailRow(p) PROVE IInv'
<1> DEFINE i == procs[p].id
           attempts == AttemptsAfter(procs[p].seen)
           row == [status |-> StatusAfter(attempts), attempts |-> attempts,
                   held |-> StatusAfter(attempts) = "PENDING"]
           r == [procs[p] EXCEPT !.phase = "after", !.seen = 0]
<1>1. row \in Row /\ row.status # "SENT"
      /\ (row.status = "FAILED" => row.attempts >= MaxAttempts)
  <2> HIDE DEF row, r
  <2>1. procs[p].seen \in Nat
    BY ProcTyped
  <2>2. attempts \in Nat
    BY <2>1 DEF AttemptsAfter
  <2> HIDE DEF attempts
  <2>3. StatusAfter(attempts) \in {"PENDING", "FAILED"}
        /\ (StatusAfter(attempts) = "FAILED" => attempts >= MaxAttempts)
    BY <2>2, CountAssumption DEF StatusAfter
  <2>4. (StatusAfter(attempts) = "PENDING") \in BOOLEAN
    OBVIOUS
  <2> QED
    BY <2>2, <2>3, <2>4 DEF row, Row
<1>2. rows' = [rows EXCEPT ![i] = row] /\ UNCHANGED <<docs, queue, results, counters>>
  BY DEF FailRow
<1> HIDE DEF row
<1>3. /\ rows' \in [Ids -> Row]
      /\ \A j \in Ids : rows'[j].status = "SENT" => rows[j].status = "SENT"
      /\ \A j \in Ids : rows'[j].status = "FAILED" => rows'[j].attempts >= MaxAttempts
  BY <1>1, <1>2 DEF IInv, TypeOK, FailedIsExhausted
<1>4. r \in Proc /\ r.phase = "after" /\ r.ok = procs[p].ok /\ r.id = i
  BY ProcTyped, PhasesAre DEF Proc
<1>5. procs' = [procs EXCEPT ![p] = r]
  BY ProcTyped DEF FailRow
<1>6. r.ok => docs[r.id] > 0
  BY <1>4 DEF IInv, Traced
<1> HIDE DEF r
<1> QED
  BY <1>2, <1>3, <1>4, <1>5, <1>6, StepKeeps DEF IInv, TypeOK, queue, results, counters

\* Announce is the one step of these that needs more than types.
LEMMA EndKeeps ==
    ASSUME IInv, NEW p \in Procs,
           \/ FailRaises(p) \/ Announce(p) \/ ScheduleRetry(p) \/ EnqueueDeadLetter(p)
           \/ EnqueueRaises(p) \/ Crash(p)
    PROVE  IInv'
<1>1. procs' = [procs EXCEPT ![p] = Free]
  BY DEF FailRaises, Announce, ScheduleRetry, EnqueueDeadLetter, EnqueueRaises, Crash
<1>2. procs[p].id \in Ids
  BY ProcTyped
<1>3. UNCHANGED <<rows, docs, dlq, requeues>>
  BY DEF FailRaises, Announce, ScheduleRetry, EnqueueDeadLetter, EnqueueRaises, Crash,
         results, counters
<1>4. scans' \in [Ids -> {"none", "waiting", "active"}]
  BY JobDoneTyped DEF FailRaises, Announce, ScheduleRetry, EnqueueDeadLetter,
     EnqueueRaises, Crash, IInv, TypeOK
<1>5. retries' \in [Ids -> 0..MaxRetries]
  <2>1. CASE retries' = [retries EXCEPT ![procs[p].id] = IF @ < MaxRetries THEN @ + 1 ELSE @]
    BY <1>2, <2>1, CountAssumption DEF IInv, TypeOK
  <2>2. CASE retries' = retries
    BY <2>2 DEF IInv, TypeOK
  <2> QED
    BY <2>1, <2>2 DEF FailRaises, Announce, ScheduleRetry, EnqueueDeadLetter, EnqueueRaises,
       Crash
<1>6. faults' \in Nat
  <2>1. faults' \in {faults, faults + 1}
    BY DEF FailRaises, Announce, ScheduleRetry, EnqueueDeadLetter, EnqueueRaises, Crash,
           counters
  <2> QED
    BY <2>1 DEF IInv, TypeOK
<1>7. letters' \subseteq Ids
  BY <1>2 DEF FailRaises, Announce, ScheduleRetry, EnqueueDeadLetter, EnqueueRaises, Crash,
         results, Buried, IInv, TypeOK
<1>8. /\ announced' \subseteq Ids
      /\ \A i \in announced' : i \in announced \/ docs'[i] > 0
  BY <1>2, <1>3 DEF FailRaises, Announce, ScheduleRetry, EnqueueDeadLetter, EnqueueRaises,
     Crash, results, Announced, IInv, TypeOK, Traced
<1> QED
  BY <1>1, <1>3, <1>4, <1>5, <1>6, <1>7, <1>8, FreeTyped, StepKeeps
  DEF Free, IInv, TypeOK, FailedIsExhausted

-----------------------------------------------------------------------------
LEMMA InitHolds == Init => IInv
  BY FreeTyped, CountAssumption
  DEF Init, IInv, TypeOK, SentHasDocument, FailedIsExhausted, Traced, Row, Free

LEMMA NextKeeps == IInv /\ [Next]_vars => IInv'
<1> SUFFICES ASSUME IInv, [Next]_vars PROVE IInv'
  OBVIOUS
<1>1. CASE UNCHANGED vars
  BY <1>1 DEF vars, queue, results, counters, IInv, TypeOK, SentHasDocument,
     FailedIsExhausted, Traced
<1>2. ASSUME NEW p \in Procs, Proceed(p) \/ StartDrain(p) \/ Fault(p) PROVE IInv'
  BY <1>2, ClaimKeeps, DrainKeeps, LookFirstKeeps, ReadRowKeeps, InsertKeeps, MarkKeeps,
     FailKeeps, LookAfterKeeps, EndKeeps DEF Proceed, Fault
<1>3. ASSUME NEW p \in Procs, NEW i \in Ids, LogEventInline(p, i) PROVE IInv'
  BY <1>3, LogInlineKeeps
<1>4. ASSUME NEW i \in Ids,
             \/ LogEvent(i) \/ TimePasses(i) \/ EnqueueDue(i) \/ Take(i)
             \/ PersistDeadLetter(i) \/ PersistRaises(i) \/ SweepFailed(i) \/ Requeue(i)
      PROVE  IInv'
  BY <1>4, RowEventsKeep, TakeKeeps DEF Take
<1> QED
  BY <1>1, <1>2, <1>3, <1>4, RequeueFailedKeeps DEF Next

\* Whatever expires, crashes or is requeued, the invariant holds.
THEOREM Invariant == Spec => []IInv
  BY InitHolds, NextKeeps, PTL DEF Spec

\* Rows, queue jobs and processes stay well formed, for any number of them.
THEOREM TypeCorrect == Spec => []TypeOK
<1>1. IInv => TypeOK
  BY DEF IInv
<1> QED
  BY <1>1, Invariant, PTL

\* No event is reported SENT or announced to webhooks that MongoDB does not have, whatever
\* expires, crashes or is requeued (trySyncOutboxToMongo).
THEOREM SentImpliesDocument == Spec => []SentHasDocument
<1>1. IInv => SentHasDocument
  BY DEF IInv
<1> QED
  BY <1>1, Invariant, PTL

\* No event is given up with attempts left, also when several processes count on its row.
THEOREM FailedImpliesExhausted == Spec => []FailedIsExhausted
<1>1. IInv => FailedIsExhausted
  BY DEF IInv
<1> QED
  BY <1>1, Invariant, PTL

-----------------------------------------------------------------------------
(* While leases hold.                                                      *)

\* No lease runs out under its holder, nothing syncs without one and nobody takes one away.
Leased == LeaseHolds /\ "inline" \notin Kinds /\ MaxRequeues = 0

\* Process p has leased row i and is not done with it.
Claims(p, i) == WorksOn(p, i) \/ i \in procs[p].todo

Exclusive == \A p, q \in Procs : \A i \in Ids : Claims(p, i) /\ Claims(q, i) => p = q
Apart == \A p \in Procs : procs[p].phase \in WorkPhases => procs[p].id \notin procs[p].todo

CoveredRow(row) ==
    /\ row.status # "ABSENT"
    /\ row.status = "PENDING" => row.held
    /\ AcksReliable => row.status = "PENDING"
Covered == \A p \in Procs : \A i \in Ids : Claims(p, i) => CoveredRow(rows[i])

Counted ==
    \A p \in Procs :
        procs[p].phase \in {"insert", "mark", "fail"} =>
            procs[p].seen = rows[procs[p].id].attempts

LeaseInv == Exclusive /\ Apart /\ Covered /\ Counted

\* What process p would claim with the record r.
WouldClaim(r, i) == (r.phase \in WorkPhases /\ r.id = i) \/ i \in r.todo

\* A step of process p keeps its claims or takes up due rows, and leaves alone the rows that
\* others claim.
LEMMA LeaseStep ==
    ASSUME IInv, LeaseInv, NEW p \in Procs, NEW r \in Proc,
           procs' = [procs EXCEPT ![p] = r],
           \A i \in Ids : WouldClaim(r, i) => Claims(p, i) \/ IsDue(i),
           r.phase \in WorkPhases => r.id \notin r.todo,
           \A i \in Ids : WouldClaim(r, i) => CoveredRow(rows'[i]),
           \A i \in Ids :
               rows'[i] = rows[i] \/ (\A q \in Procs \ {p} : ~Claims(q, i)),
           r.phase \in {"insert", "mark", "fail"} => r.seen = rows'[r.id].attempts
    PROVE  LeaseInv'
<1>1. procs'[p] = r /\ \A q \in Procs \ {p} : procs'[q] = procs[q]
  BY DEF IInv, TypeOK
<1>2. /\ \A i \in Ids : Claims(p, i)' <=> WouldClaim(r, i)
      /\ \A q \in Procs \ {p} : \A i \in Ids : Claims(q, i)' <=> Claims(q, i)
  BY <1>1 DEF Claims, WouldClaim, WorksOn
<1>3. \A q \in Procs \ {p} : \A i \in Ids : WouldClaim(r, i) => ~Claims(q, i)
  <2> SUFFICES ASSUME NEW q \in Procs \ {p}, NEW i \in Ids, WouldClaim(r, i), Claims(q, i)
               PROVE  FALSE
    OBVIOUS
  <2>1. CASE Claims(p, i)
    BY <2>1 DEF LeaseInv, Exclusive
  <2>2. CASE IsDue(i)
    BY <2>2 DEF IsDue, LeaseInv, Covered, CoveredRow
  <2> QED
    BY <2>1, <2>2
<1>4. Exclusive'
  <2> SUFFICES ASSUME NEW q \in Procs, NEW s \in Procs, NEW i \in Ids,
                      Claims(q, i)', Claims(s, i)'
               PROVE  q = s
    BY DEF Exclusive
  <2>1. CASE q # p /\ s # p
    BY <2>1, <1>2 DEF LeaseInv, Exclusive
  <2>2. CASE q = p /\ s # p
    BY <2>2, <1>2, <1>3
  <2>3. CASE q # p /\ s = p
    BY <2>3, <1>2, <1>3
  <2> QED
    BY <2>1, <2>2, <2>3
<1>5. Apart'
  BY <1>1 DEF LeaseInv, Apart
<1>6. Covered'
  <2> SUFFICES ASSUME NEW q \in Procs, NEW i \in Ids, Claims(q, i)'
               PROVE  CoveredRow(rows'[i])
    BY DEF Covered, CoveredRow
  <2>1. CASE q = p
    BY <2>1, <1>2
  <2>2. CASE q # p
    <3>1. Claims(q, i)
      BY <2>2, <1>2
    <3>2. rows'[i] = rows[i]
      BY <2>2, <3>1
    <3> QED
      BY <3>1, <3>2 DEF LeaseInv, Covered
  <2> QED
    BY <2>1, <2>2
<1>7. Counted'
  <2> SUFFICES ASSUME NEW q \in Procs, procs'[q].phase \in {"insert", "mark", "fail"}
               PROVE  procs'[q].seen = rows'[procs'[q].id].attempts
    BY DEF Counted
  <2>1. CASE q = p
    BY <2>1, <1>1
  <2>2. CASE q # p
    <3>1. procs'[q] = procs[q] /\ procs[q].id \in Ids
      BY <2>2, <1>1, ProcTyped
    <3>2. Claims(q, procs[q].id)
      BY <3>1 DEF Claims, WorksOn, WorkPhases
    <3>3. rows'[procs[q].id] = rows[procs[q].id]
      BY <2>2, <3>1, <3>2
    <3> QED
      BY <3>1, <3>3 DEF LeaseInv, Counted
  <2> QED
    BY <2>1, <2>2
<1> QED
  BY <1>4, <1>5, <1>6, <1>7 DEF LeaseInv

\* A step of no process leaves claimed rows alone.
LEMMA LeaseIdle ==
    ASSUME IInv, LeaseInv, procs' = procs,
           \A i \in Ids : rows'[i] = rows[i] \/ (\A q \in Procs : ~Claims(q, i))
    PROVE  LeaseInv'
<1>1. \A q \in Procs : \A i \in Ids : Claims(q, i)' <=> Claims(q, i)
  BY DEF Claims, WorksOn
<1>2. Exclusive' /\ Apart'
  BY <1>1 DEF LeaseInv, Exclusive, Apart
<1>3. Covered'
  <2> SUFFICES ASSUME NEW q \in Procs, NEW i \in Ids, Claims(q, i)'
               PROVE  CoveredRow(rows'[i])
    BY DEF Covered, CoveredRow
  <2> QED
    BY <1>1 DEF LeaseInv, Covered
<1>4. Counted'
  <2> SUFFICES ASSUME NEW q \in Procs, procs[q].phase \in {"insert", "mark", "fail"}
               PROVE  procs[q].seen = rows'[procs[q].id].attempts
    BY DEF Counted
  <2>1. procs[q].id \in Ids /\ Claims(q, procs[q].id)
    BY ProcTyped DEF Claims, WorksOn, WorkPhases
  <2> QED
    BY <2>1 DEF LeaseInv, Counted
<1> QED
  BY <1>2, <1>3, <1>4 DEF LeaseInv

\* A step that only gives up claims.
LEMMA LeaseDrop ==
    ASSUME IInv, LeaseInv, NEW p \in Procs, NEW r \in Proc,
           procs' = [procs EXCEPT ![p] = r], rows' = rows,
           r.phase \notin WorkPhases, r.todo \subseteq procs[p].todo
    PROVE  LeaseInv'
<1>1. \A i \in Ids : WouldClaim(r, i) => Claims(p, i)
  BY DEF WouldClaim, Claims
<1>2. \A i \in Ids : WouldClaim(r, i) => CoveredRow(rows'[i])
  BY <1>1 DEF LeaseInv, Covered
<1>3. r.phase \notin {"insert", "mark", "fail"}
  BY DEF WorkPhases
<1> QED
  BY <1>1, <1>2, <1>3, LeaseStep

\* A step of a process on the row it works on.
LEMMA LeaseWork ==
    ASSUME IInv, LeaseInv, NEW p \in Procs, NEW r \in Proc,
           procs' = [procs EXCEPT ![p] = r],
           procs[p].phase \in WorkPhases,
           r.id = procs[p].id, r.todo = procs[p].todo,
           \A i \in Ids \ {procs[p].id} : rows'[i] = rows[i],
           r.phase \in WorkPhases => CoveredRow(rows'[r.id]),
           r.phase \in {"insert", "mark", "fail"} => r.seen = rows'[r.id].attempts
    PROVE  LeaseInv'
<1> DEFINE i == procs[p].id
<1>1. i \in Ids /\ Claims(p, i) /\ i \notin procs[p].todo
  BY ProcTyped DEF LeaseInv, Apart, Claims, WorksOn
<1>2. \A q \in Procs \ {p} : ~Claims(q, i)
  BY <1>1 DEF LeaseInv, Exclusive
<1>3. \A j \in Ids : WouldClaim(r, j) => Claims(p, j)
  BY <1>1 DEF WouldClaim, Claims
<1>4. \A j \in Ids : WouldClaim(r, j) => CoveredRow(rows'[j])
  BY <1>1, <1>3 DEF WouldClaim, LeaseInv, Covered
<1> QED
  BY <1>1, <1>2, <1>3, <1>4, LeaseStep

LEMMA LeaseOfRows ==
    ASSUME IInv, LeaseInv, Leased, NEW i \in Ids,
           \/ LogEvent(i) \/ TimePasses(i) \/ EnqueueDue(i) \/ PersistDeadLetter(i)
           \/ PersistRaises(i) \/ SweepFailed(i) \/ Requeue(i)
    PROVE  LeaseInv'
<1>1. procs' = procs
  BY DEF LogEvent, TimePasses, EnqueueDue, PersistDeadLetter, PersistRaises, SweepFailed,
         Requeue
<1>2. CASE LogEvent(i)
  <2>1. \A q \in Procs : ~Claims(q, i)
    BY <1>2 DEF LogEvent, LeaseInv, Covered, CoveredRow
  <2>2. \A j \in Ids \ {i} : rows'[j] = rows[j]
    BY <1>2 DEF LogEvent, IInv, TypeOK
  <2> QED
    BY <1>1, <2>1, <2>2, LeaseIdle
<1>3. CASE TimePasses(i)
  <2>1. \A q \in Procs : ~Claims(q, i)
    BY <1>3 DEF TimePasses, Leased, Claims
  <2>2. \A j \in Ids \ {i} : rows'[j] = rows[j]
    BY <1>3 DEF TimePasses, IInv, TypeOK
  <2> QED
    BY <1>1, <2>1, <2>2, LeaseIdle
<1>4. CASE EnqueueDue(i) \/ PersistDeadLetter(i) \/ PersistRaises(i) \/ SweepFailed(i)
  <2>1. rows' = rows
    BY <1>4 DEF EnqueueDue, PersistDeadLetter, PersistRaises, SweepFailed
  <2> QED
    BY <1>1, <2>1, LeaseIdle
<1>5. ~Requeue(i)
  BY DEF Requeue, Leased, IInv, TypeOK
<1> QED
  BY <1>2, <1>3, <1>4, <1>5

LEMMA LeaseTaken ==
    ASSUME IInv, LeaseInv, NEW p \in Procs, NEW i \in Ids,
           TakeScanJob(p, i) \/ TakeRetryJob(p, i)
    PROVE  LeaseInv'
<1>1. PICK job \in {"scan", "retry"} : TakeJob(p, i, job) /\ rows' = rows
  BY DEF TakeScanJob, TakeRetryJob
<1> DEFINE r == [Free EXCEPT !.phase = "claim", !.kind = "worker", !.job = job, !.id = i]
<1>2. r \in Proc /\ r.phase = "claim" /\ r.todo = {}
  BY FreeTyped, PhasesAre DEF Free, Proc
<1>3. procs' = [procs EXCEPT ![p] = r]
  BY <1>1 DEF TakeJob
<1> HIDE DEF r
<1> QED
  BY <1>1, <1>2, <1>3, LeaseDrop DEF WorkPhases

LEMMA LeaseClaimed == ASSUME IInv, LeaseInv, NEW p \in Procs, ClaimRow(p) PROVE LeaseInv'
<1> DEFINE i == procs[p].id
<1>1. CASE Claimable(i)
  <2> DEFINE r == [procs[p] EXCEPT !.phase = "look"]
  <2>1. r \in Proc /\ r.phase = "look" /\ r.id = i /\ r.todo = procs[p].todo
        /\ procs' = [procs EXCEPT ![p] = r]
    BY <1>1, GotoTyped, PhasesAre DEF ClaimRow
  <2>2. rows' = [rows EXCEPT ![i].held = TRUE] /\ i \in Ids
    BY <1>1, ProcTyped DEF ClaimRow
  <2>3. IsDue(i) /\ \A q \in Procs : ~Claims(q, i)
    BY <1>1, <2>2 DEF Claimable, IsDue, LeaseInv, Covered, CoveredRow
  <2>4. /\ \A j \in Ids \ {i} : rows'[j] = rows[j]
        /\ rows'[i].status = "PENDING" /\ rows'[i].held
    BY <2>2, <2>3 DEF IsDue, IInv, TypeOK, Row
  <2> HIDE DEF r
  <2>5. i \notin procs[p].todo
    BY <2>2, <2>3 DEF Claims
  <2>6. \A j \in Ids : WouldClaim(r, j) => j = i \/ Claims(p, j)
    BY <2>1 DEF WouldClaim, Claims
  <2>7. \A j \in Ids : WouldClaim(r, j) => CoveredRow(rows'[j])
    <3>1. CoveredRow(rows'[i])
      BY <2>4 DEF CoveredRow
    <3> QED
      BY <3>1, <2>4, <2>6 DEF LeaseInv, Covered
  <2> QED
    BY <2>1, <2>2, <2>3, <2>4, <2>5, <2>6, <2>7, LeaseStep
<1>2. CASE ~Claimable(i)
  <2>1. procs' = [procs EXCEPT ![p] = Free] /\ rows' = rows
    BY <1>2 DEF ClaimRow
  <2> QED
    BY <2>1, FreeTyped, LeaseDrop DEF Free, WorkPhases
<1> QED
  BY <1>1, <1>2

LEMMA LeaseBatched == ASSUME IInv, LeaseInv, NEW p \in Procs, StartDrain(p) PROVE LeaseInv'
<1> DEFINE Leases(batch, i) ==
        /\ rows' = [j \in Ids |->
               IF j \in batch THEN [rows[j] EXCEPT !.held = TRUE] ELSE rows[j]]
        /\ procs' = [procs EXCEPT ![p] =
               [Free EXCEPT !.phase = "look", !.kind = "drain", !.id = i,
                            !.todo = batch \ {i}]]
<1>1. PICK batch \in SUBSET {i \in Ids : IsDue(i)} : \E i \in batch : Leases(batch, i)
  BY DEF StartDrain
<1>2. PICK i \in batch : Leases(batch, i)
  BY <1>1
<1> DEFINE r == [Free EXCEPT !.phase = "look", !.kind = "drain", !.id = i,
                             !.todo = batch \ {i}]
<1>3. r \in Proc /\ r.phase = "look" /\ r.id = i /\ r.todo = batch \ {i}
  BY FreeTyped, PhasesAre DEF Free, Proc
<1>4. procs' = [procs EXCEPT ![p] = r]
  BY <1>2
<1>5. \A j \in batch : IsDue(j) /\ \A q \in Procs : ~Claims(q, j)
  BY DEF IsDue, LeaseInv, Covered, CoveredRow
<1>6. /\ \A j \in Ids \ batch : rows'[j] = rows[j]
      /\ \A j \in batch : rows'[j].status = "PENDING" /\ rows'[j].held
  BY <1>2, <1>5 DEF IsDue, IInv, TypeOK, Row
<1> HIDE DEF r
<1>7. \A j \in Ids : WouldClaim(r, j) => j \in batch
  BY <1>3 DEF WouldClaim
<1>8. \A j \in Ids : WouldClaim(r, j) => CoveredRow(rows'[j])
  BY <1>6, <1>7 DEF CoveredRow
<1> HIDE DEF Leases
<1> QED
  BY <1>3, <1>4, <1>5, <1>6, <1>7, <1>8, LeaseStep

LEMMA LeaseLookedFirst == ASSUME IInv, LeaseInv, NEW p \in Procs, LookFirst(p) PROVE LeaseInv'
<1> DEFINE status == rows[procs[p].id].status
           next == IF status \in {"SENT", "FAILED"}
                   THEN OutcomePhase(p, FALSE, status) ELSE "read"
           r == [procs[p] EXCEPT !.phase = next]
<1>1. next \in {"read", "after", "announce", "bury", "again"}
  BY OutcomePhaseIs
<1>2. /\ r \in Proc /\ r.phase = next /\ r.id = procs[p].id /\ r.todo = procs[p].todo
      /\ procs' = [procs EXCEPT ![p] = r]
  <2>1. next \in Phases /\ Goto(p, next)
    BY <1>1, PhasesAre DEF LookFirst
  <2> HIDE DEF next
  <2> QED
    BY <2>1, GotoTyped
<1>3. rows' = rows /\ procs[p].phase \in WorkPhases
  BY DEF LookFirst, WorkPhases
<1>4. CoveredRow(rows[procs[p].id])
  BY <1>3, ProcTyped DEF LeaseInv, Covered, Claims, WorksOn
<1> HIDE DEF r, next
<1> QED
  BY <1>1, <1>2, <1>3, <1>4, LeaseWork

LEMMA LeaseLookedAfter == ASSUME IInv, LeaseInv, NEW p \in Procs, LookAfter(p) PROVE LeaseInv'
<1>1. rows' = rows
  BY DEF LookAfter
<1>2. CASE procs' = [procs EXCEPT ![p] = Free]
  BY <1>1, <1>2, FreeTyped, LeaseDrop DEF Free, WorkPhases
<1>3. CASE procs' = [procs EXCEPT ![p] =
               [@ EXCEPT !.phase = OutcomePhase(p, procs[p].ok, rows[procs[p].id].status),
                         !.ok = FALSE]]
  <2> DEFINE next == OutcomePhase(p, procs[p].ok, rows[procs[p].id].status)
             r == [procs[p] EXCEPT !.phase = next, !.ok = FALSE]
  <2>1. next \in {"after", "announce", "bury", "again"}
    BY OutcomePhaseIs, ProcTyped
  <2> HIDE DEF next
  <2>2. r \in Proc /\ r.phase = next /\ r.todo = procs[p].todo
    BY <2>1, ProcTyped, PhasesAre DEF Proc
  <2>3. procs' = [procs EXCEPT ![p] = r]
    BY <1>3, ProcTyped DEF next
  <2> HIDE DEF r
  <2> QED
    BY <1>1, <2>1, <2>2, <2>3, LeaseDrop DEF WorkPhases
<1>4. ASSUME NEW i \in procs[p].todo,
             procs' = [procs EXCEPT ![p] =
                 [@ EXCEPT !.phase = "look", !.id = i, !.ok = FALSE,
                           !.todo = procs[p].todo \ {i}]]
      PROVE  LeaseInv'
  <2> DEFINE r == [procs[p] EXCEPT !.phase = "look", !.id = i, !.ok = FALSE,
                                   !.todo = procs[p].todo \ {i}]
  <2>1. r \in Proc /\ r.phase = "look" /\ r.id = i /\ r.todo = procs[p].todo \ {i}
    BY ProcTyped, PhasesAre DEF Proc
  <2>2. procs' = [procs EXCEPT ![p] = r]
    BY <1>4, ProcTyped
  <2> HIDE DEF r
  <2>3. \A j \in Ids : WouldClaim(r, j) => Claims(p, j)
    BY <2>1 DEF WouldClaim, Claims
  <2>4. \A j \in Ids : WouldClaim(r, j) => CoveredRow(rows'[j])
    BY <1>1, <2>3 DEF LeaseInv, Covered
  <2> QED
    BY <1>1, <2>1, <2>2, <2>3, <2>4, LeaseStep
<1> QED
  BY <1>2, <1>3, <1>4 DEF LookAfter

LEMMA LeaseRead == ASSUME IInv, LeaseInv, NEW p \in Procs, ReadRow(p) PROVE LeaseInv'
<1> DEFINE i == procs[p].id
<1>1. rows' = rows /\ procs[p].phase \in WorkPhases /\ i \in Ids
  BY ProcTyped DEF ReadRow, WorkPhases
<1>2. CASE IsSent(i)
  <2> DEFINE r == [procs[p] EXCEPT !.phase = "after", !.ok = TRUE]
  <2>1. r \in Proc /\ r.phase = "after" /\ r.todo = procs[p].todo
    BY ProcTyped, PhasesAre DEF Proc
  <2>2. procs' = [procs EXCEPT ![p] = r]
    BY <1>2, ProcTyped DEF ReadRow
  <2> HIDE DEF r
  <2> QED
    BY <1>1, <2>1, <2>2, LeaseDrop DEF WorkPhases
<1>3. CASE ~IsSent(i)
  <2> DEFINE r == [procs[p] EXCEPT !.phase = "insert", !.seen = rows[i].attempts]
  <2>1. rows[i].attempts \in Nat
    BY ProcTyped DEF IInv, TypeOK, Row
  <2>2. r \in Proc /\ r.phase = "insert" /\ r.id = i /\ r.todo = procs[p].todo
        /\ r.seen = rows[i].attempts
    BY <2>1, ProcTyped, PhasesAre DEF Proc
  <2>3. procs' = [procs EXCEPT ![p] = r]
    BY <1>3, ProcTyped DEF ReadRow
  <2>4. CoveredRow(rows[i])
    BY <1>1 DEF LeaseInv, Covered, Claims, WorksOn
  <2> HIDE DEF r
  <2> QED
    BY <1>1, <2>2, <2>3, <2>4, LeaseWork
<1> QED
  BY <1>2, <1>3

LEMMA LeaseInserted ==
    ASSUME IInv, LeaseInv, NEW p \in Procs, InsertDoc(p) \/ InsertRaises(p)
    PROVE  LeaseInv'
<1> DEFINE i == procs[p].id
<1>1. PICK phase \in {"mark", "fail"} : Goto(p, phase) /\ rows' = rows
  BY DEF InsertDoc, InsertRaises
<1>2. procs[p].phase = "insert" /\ i \in Ids
  BY ProcTyped DEF InsertDoc, InsertRaises
<1> DEFINE r == [procs[p] EXCEPT !.phase = phase]
<1>3. /\ r \in Proc /\ r.phase = phase /\ r.id = i /\ r.todo = procs[p].todo
      /\ r.seen = procs[p].seen /\ procs' = [procs EXCEPT ![p] = r]
  <2>1. phase \in Phases
    BY PhasesAre
  <2> QED
    BY <1>1, <2>1, GotoTyped
<1>4. CoveredRow(rows[i]) /\ procs[p].seen = rows[i].attempts
  BY <1>2 DEF LeaseInv, Covered, Counted, Claims, WorksOn, WorkPhases
<1> HIDE DEF r
<1> QED
  BY <1>1, <1>2, <1>3, <1>4, LeaseWork DEF WorkPhases

\* When MarkRaises has written the row after all, the row is SENT and still not due.
LEMMA LeaseMarked ==
    ASSUME IInv, LeaseInv, NEW p \in Procs, MarkSent(p) \/ MarkRaises(p)
    PROVE  LeaseInv'
<1> DEFINE i == procs[p].id
<1>1. procs[p].phase = "mark" /\ i \in Ids
  BY ProcTyped DEF MarkSent, MarkRaises
<1>2. CoveredRow(rows[i]) /\ procs[p].seen = rows[i].attempts
  BY <1>1 DEF LeaseInv, Covered, Counted, Claims, WorksOn, WorkPhases
<1>3. /\ RowSent(i)[i].status = "SENT" /\ RowSent(i)[i].attempts = rows[i].attempts
      /\ \A j \in Ids \ {i} : RowSent(i)[j] = rows[j]
  BY <1>1 DEF RowSent, IInv, TypeOK, Row
<1>4. CASE MarkSent(p)
  <2> DEFINE r == [procs[p] EXCEPT !.phase = "after", !.seen = 0, !.ok = TRUE]
  <2>1. r \in Proc /\ r.id = i /\ r.phase = "after" /\ r.todo = procs[p].todo
    BY ProcTyped, PhasesAre DEF Proc
  <2>2. procs' = [procs EXCEPT ![p] = r] /\ rows' = RowSent(i)
    BY <1>4, ProcTyped DEF MarkSent
  <2> HIDE DEF r
  <2> QED
    BY <1>1, <1>3, <2>1, <2>2, LeaseWork DEF WorkPhases
<1>5. CASE MarkRaises(p)
  <2> DEFINE r == [procs[p] EXCEPT !.phase = "fail"]
  <2>1. /\ r \in Proc /\ r.id = i /\ r.phase = "fail" /\ r.todo = procs[p].todo
        /\ r.seen = procs[p].seen /\ procs' = [procs EXCEPT ![p] = r]
    BY <1>5, GotoTyped, PhasesAre DEF MarkRaises
  <2>2. rows' = rows \/ (~AcksReliable /\ rows' = RowSent(i))
    BY <1>5, FlagAssumption DEF MarkRaises
  <2>3. CoveredRow(rows'[i]) /\ rows'[i].attempts = rows[i].attempts
    BY <1>2, <1>3, <2>2 DEF CoveredRow
  <2>4. \A j \in Ids \ {i} : rows'[j] = rows[j]
    BY <1>3, <2>2
  <2> HIDE DEF r
  <2> QED
    BY <1>1, <1>2, <2>1, <2>3, <2>4, LeaseWork DEF WorkPhases
<1> QED
  BY <1>4, <1>5

LEMMA LeaseFailed == ASSUME IInv, LeaseInv, NEW p \in Procs, FailRow(p) PROVE LeaseInv'
<1> DEFINE i == procs[p].id
           r == [procs[p] EXCEPT !.phase = "after", !.seen = 0]
<1>1. r \in Proc /\ r.id = i /\ r.phase = "after" /\ r.todo = procs[p].todo
  BY ProcTyped, PhasesAre DEF Proc
<1>2. procs' = [procs EXCEPT ![p] = r] /\ procs[p].phase \in WorkPhases
  BY ProcTyped DEF FailRow, WorkPhases
<1>3. \A j \in Ids \ {i} : rows'[j] = rows[j]
  BY DEF FailRow, IInv, TypeOK
<1> HIDE DEF r
<1> QED
  BY <1>1, <1>2, <1>3, LeaseWork DEF WorkPhases

LEMMA LeaseEnded ==
    ASSUME IInv, LeaseInv, NEW p \in Procs,
           \/ FailRaises(p) \/ Announce(p) \/ ScheduleRetry(p) \/ EnqueueDeadLetter(p)
           \/ EnqueueRaises(p) \/ Crash(p)
    PROVE  LeaseInv'
<1>1. procs' = [procs EXCEPT ![p] = Free] /\ rows' = rows
  BY DEF FailRaises, Announce, ScheduleRetry, EnqueueDeadLetter, EnqueueRaises, Crash
<1> QED
  BY <1>1, FreeTyped, LeaseDrop DEF Free, WorkPhases

LEMMA LeaseInit == Init => LeaseInv
  BY DEF Init, LeaseInv, Exclusive, Apart, Covered, Counted, Claims, WorksOn, WorkPhases, Free

LEMMA LeaseKept ==
    ASSUME Leased, IInv, LeaseInv, [Next]_vars PROVE LeaseInv'
<1>1. CASE UNCHANGED vars
  BY <1>1, LeaseIdle DEF vars
<1>2. ASSUME NEW p \in Procs, Proceed(p) \/ StartDrain(p) \/ Fault(p) PROVE LeaseInv'
  BY <1>2, LeaseClaimed, LeaseBatched, LeaseLookedFirst, LeaseRead, LeaseInserted,
     LeaseMarked, LeaseFailed, LeaseLookedAfter, LeaseEnded DEF Proceed, Fault
<1>3. ASSUME NEW p \in Procs, NEW i \in Ids, LogEventInline(p, i) PROVE LeaseInv'
  BY <1>3 DEF LogEventInline, Leased
<1>4. ASSUME NEW i \in Ids,
             \/ LogEvent(i) \/ TimePasses(i) \/ EnqueueDue(i) \/ Take(i)
             \/ PersistDeadLetter(i) \/ PersistRaises(i) \/ SweepFailed(i) \/ Requeue(i)
      PROVE  LeaseInv'
  BY <1>4, LeaseOfRows, LeaseTaken DEF Take
<1>5. ~RequeueFailed
  <2>1. RequeueFailed => requeues < MaxRequeues
    BY Zenon DEF RequeueFailed
  <2>2. requeues \in Nat /\ MaxRequeues = 0
    BY DEF Leased, IInv, TypeOK
  <2> QED
    BY <2>1, <2>2
<1> QED
  BY <1>1, <1>2, <1>3, <1>4, <1>5 DEF Next

LEMMA LeaseInvariant == ASSUME Leased PROVE Spec => []LeaseInv
<1>1. LeaseInv /\ IInv /\ [Next]_vars => LeaseInv'
  BY LeaseKept
<1> QED
  BY <1>1, LeaseInit, Invariant, PTL DEF Spec

\* While leases hold, no two processes, workers or drains, sync the same row at once,
\* whatever crashes or fails (claimOutboxRow, claimOutboxBatch).
THEOREM LeasesExclude == ASSUME Leased PROVE Spec => []OneSyncPerRow
<1>1. LeaseInv => OneSyncPerRow
  BY DEF LeaseInv, Exclusive, Claims, OneSyncPerRow
<1> QED
  BY <1>1, LeaseInvariant, PTL

-----------------------------------------------------------------------------
(* The pipeline implements OutboxDelivery.                                 *)

\* What a step shows of a row in OutboxDelivery.
LEMMA HiddenStep ==
    ASSUME \A i \in Ids : /\ rows'[i].status = rows[i].status
                          /\ rows'[i].attempts = rows[i].attempts,
           docs' = docs
    PROVE  UNCHANGED Delivery!vars
  BY DEF Delivery!vars

LEMMA DeliveryStep ==
    ASSUME NEW i \in Ids,
           \/ Delivery!Log(i) \/ Delivery!Publish(i)
           \/ Delivery!Acknowledge(i) \/ Delivery!FailAttempt(i)
    PROVE  [Delivery!Next]_Delivery!vars
  BY Zenon DEF Delivery!Next

\* A row that is worked on is pending, and counts the attempts its process has read.
LEMMA WorkedRow ==
    ASSUME AcksReliable, IInv, LeaseInv, NEW p \in Procs, procs[p].phase \in WorkPhases
    PROVE  /\ procs[p].id \in Ids /\ rows[procs[p].id].status = "PENDING"
           /\ procs[p].phase \in {"insert", "mark", "fail"} =>
                  procs[p].seen = rows[procs[p].id].attempts
  BY ProcTyped DEF LeaseInv, Covered, CoveredRow, Counted, Claims, WorksOn

LEMMA InsertShows ==
    ASSUME AcksReliable, IInv, LeaseInv, NEW p \in Procs, InsertDoc(p) \/ InsertRaises(p)
    PROVE  [Delivery!Next]_Delivery!vars
<1>0. PICK i \in Ids : i = procs[p].id
  BY ProcTyped
<1>1. i \in Ids /\ rows[i].status = "PENDING"
  BY <1>0, WorkedRow DEF InsertDoc, InsertRaises, WorkPhases
<1>2. rows' = rows /\ docs' \in {docs, DocAdded(i)}
  BY <1>0 DEF InsertDoc, InsertRaises
<1>3. CASE docs' = docs
  BY <1>2, <1>3, HiddenStep
<1>4. CASE docs' = DocAdded(i)
  <2>1. /\ \A j \in Ids \ {i} : docs'[j] = docs[j]
        /\ docs'[i] > 0
    BY <1>1, <1>4, DocAddedIs
  <2>2. [j \in Ids |-> docs'[j] > 0] = [[j \in Ids |-> docs[j] > 0] EXCEPT ![i] = TRUE]
    BY <1>1, <2>1, Zenon
  <2>3. Delivery!Publish(i)
    BY <1>1, <1>2, <2>2 DEF Delivery!Publish
  <2> QED
    BY <1>1, <2>3, DeliveryStep
<1> QED
  BY <1>2, <1>3, <1>4

LEMMA MarkShows ==
    ASSUME AcksReliable, IInv, LeaseInv, NEW p \in Procs, MarkSent(p) \/ MarkRaises(p)
    PROVE  [Delivery!Next]_Delivery!vars
<1>0. PICK i \in Ids : i = procs[p].id
  BY ProcTyped
<1>1. i \in Ids /\ rows[i].status = "PENDING" /\ docs[i] > 0
  BY <1>0, WorkedRow DEF MarkSent, MarkRaises, WorkPhases, IInv, Traced
<1>2. docs' = docs
  BY DEF MarkSent, MarkRaises
<1>3. CASE rows' = rows
  BY <1>2, <1>3, HiddenStep
<1>4. CASE rows' = RowSent(i)
  <2>1. /\ rows'[i].status = "SENT"
        /\ \A j \in Ids : rows'[j].attempts = rows[j].attempts
        /\ \A j \in Ids \ {i} : rows'[j].status = rows[j].status
    BY <1>1, <1>4 DEF RowSent, IInv, TypeOK, Row
  <2>2. [j \in Ids |-> rows'[j].status] = [[j \in Ids |-> rows[j].status] EXCEPT ![i] = "SENT"]
    BY <1>1, <2>1
  <2>3. [j \in Ids |-> rows'[j].attempts] = [j \in Ids |-> rows[j].attempts]
    BY <2>1
  <2>4. Delivery!Acknowledge(i)
    BY <1>1, <1>2, <2>2, <2>3, Zenon DEF Delivery!Acknowledge
  <2> QED
    BY <1>1, <2>4, DeliveryStep
<1> QED
  BY <1>0, <1>3, <1>4 DEF MarkSent, MarkRaises

LEMMA FailShows ==
    ASSUME AcksReliable, IInv, LeaseInv, NEW p \in Procs, FailRow(p)
    PROVE  [Delivery!Next]_Delivery!vars
<1>0. PICK i \in Ids : i = procs[p].id
  BY ProcTyped
<1> DEFINE n == rows[i].attempts + 1
<1>1. i \in Ids /\ rows[i].status = "PENDING" /\ procs[p].seen = rows[i].attempts
  BY <1>0, WorkedRow DEF FailRow, WorkPhases
<1>2. /\ rows' = [rows EXCEPT ![i] = [status |-> StatusAfter(n), attempts |-> n,
                                     held |-> StatusAfter(n) = "PENDING"]]
      /\ docs' = docs
  BY <1>0, <1>1 DEF FailRow, AttemptsAfter
<1>3. /\ rows'[i].status = StatusAfter(n) /\ rows'[i].attempts = n
      /\ \A j \in Ids \ {i} : rows'[j] = rows[j]
  BY <1>1, <1>2 DEF IInv, TypeOK
<1> HIDE DEF n
<1>4. [j \in Ids |-> rows'[j].status]
          = [[j \in Ids |-> rows[j].status] EXCEPT ![i] = StatusAfter(n)]
  BY <1>1, <1>3
<1>5. [j \in Ids |-> rows'[j].attempts] = [[j \in Ids |-> rows[j].attempts] EXCEPT ![i] = n]
  BY <1>1, <1>3
<1>6. Delivery!FailAttempt(i)
  BY <1>1, <1>2, <1>4, <1>5 DEF n, StatusAfter, Delivery!FailAttempt
<1> QED
  BY <1>1, <1>6, DeliveryStep

LEMMA LogShows == ASSUME IInv, NEW i \in Ids, LogEvent(i) PROVE [Delivery!Next]_Delivery!vars
<1>1. /\ rows[i].status = "ABSENT" /\ docs' = docs
      /\ rows'[i].status = "PENDING"
      /\ \A j \in Ids : rows'[j].attempts = rows[j].attempts
      /\ \A j \in Ids \ {i} : rows'[j].status = rows[j].status
  BY DEF LogEvent, IInv, TypeOK, Row
<1>2. [j \in Ids |-> rows'[j].status] = [[j \in Ids |-> rows[j].status] EXCEPT ![i] = "PENDING"]
  BY <1>1
<1>3. [j \in Ids |-> rows'[j].attempts] = [j \in Ids |-> rows[j].attempts]
  BY <1>1
<1>4. Delivery!Log(i)
  BY <1>1, <1>2, <1>3, Zenon DEF Delivery!Log
<1> QED
  BY <1>4, DeliveryStep

\* Leases, queue jobs and announcements do not show.
LEMMA HiddenSteps ==
    ASSUME IInv,
           \/ UNCHANGED vars
           \/ \E p \in Procs :
                 \/ ClaimRow(p) \/ LookFirst(p) \/ ReadRow(p) \/ LookAfter(p) \/ StartDrain(p)
                 \/ FailRaises(p) \/ Announce(p) \/ ScheduleRetry(p) \/ EnqueueDeadLetter(p)
                 \/ EnqueueRaises(p) \/ Crash(p)
           \/ \E i \in Ids :
                 \/ TimePasses(i) \/ EnqueueDue(i) \/ Take(i)
                 \/ PersistDeadLetter(i) \/ PersistRaises(i) \/ SweepFailed(i)
    PROVE  UNCHANGED Delivery!vars
<1>1. CASE UNCHANGED <<rows, docs>>
  BY <1>1, HiddenStep
<1>2. ASSUME NEW i \in Ids, NEW held \in BOOLEAN,
             rows' = [rows EXCEPT ![i].held = held], docs' = docs
      PROVE  UNCHANGED Delivery!vars
  <2>1. \A j \in Ids : /\ rows'[j].status = rows[j].status
                       /\ rows'[j].attempts = rows[j].attempts
    BY <1>2 DEF IInv, TypeOK, Row
  <2> QED
    BY <1>2, <2>1, HiddenStep
<1>3. ASSUME NEW p \in Procs, StartDrain(p) PROVE UNCHANGED Delivery!vars
  <2>1. PICK batch \in SUBSET {i \in Ids : IsDue(i)} :
          rows' = [j \in Ids |->
              IF j \in batch THEN [rows[j] EXCEPT !.held = TRUE] ELSE rows[j]]
    BY <1>3 DEF StartDrain
  <2>2. \A j \in Ids : /\ rows'[j].status = rows[j].status
                       /\ rows'[j].attempts = rows[j].attempts
    BY <2>1 DEF IInv, TypeOK, Row
  <2>3. docs' = docs
    BY <1>3 DEF StartDrain
  <2> QED
    BY <2>2, <2>3, HiddenStep
<1>4. ASSUME NEW i \in Ids, TimePasses(i) PROVE UNCHANGED Delivery!vars
  BY <1>4, <1>2 DEF TimePasses
<1>5. ASSUME NEW p \in Procs, ClaimRow(p) PROVE UNCHANGED Delivery!vars
  <2>1. procs[p].id \in Ids
    BY ProcTyped
  <2>2. docs' = docs
    BY <1>5 DEF ClaimRow
  <2>3. rows' = rows \/ rows' = [rows EXCEPT ![procs[p].id].held = TRUE]
    BY <1>5 DEF ClaimRow
  <2> QED
    BY <1>1, <1>2, <2>1, <2>2, <2>3
<1>6. ASSUME NEW p \in Procs,
             \/ LookFirst(p) \/ ReadRow(p) \/ LookAfter(p)
             \/ FailRaises(p) \/ Announce(p) \/ ScheduleRetry(p) \/ EnqueueDeadLetter(p)
             \/ EnqueueRaises(p) \/ Crash(p)
      PROVE  UNCHANGED Delivery!vars
  <2>1. UNCHANGED <<rows, docs>>
    BY <1>6 DEF LookFirst, ReadRow, LookAfter, FailRaises, Announce, ScheduleRetry,
       EnqueueDeadLetter, EnqueueRaises, Crash
  <2> QED
    BY <2>1, <1>1
<1>7. ASSUME NEW i \in Ids,
             \/ EnqueueDue(i) \/ Take(i) \/ PersistDeadLetter(i) \/ PersistRaises(i)
             \/ SweepFailed(i)
      PROVE  UNCHANGED Delivery!vars
  <2>1. UNCHANGED <<rows, docs>>
    BY <1>7 DEF EnqueueDue, Take, TakeScanJob, TakeRetryJob, PersistDeadLetter,
       PersistRaises, SweepFailed
  <2> QED
    BY <2>1, <1>1
<1>8. UNCHANGED vars => UNCHANGED <<rows, docs>>
  BY DEF vars
<1> QED
  BY <1>1, <1>3, <1>4, <1>5, <1>6, <1>7, <1>8

LEMMA StepShows ==
    ASSUME Leased, AcksReliable, IInv, LeaseInv, [Next]_vars
    PROVE  [Delivery!Next]_Delivery!vars
<1>1. CASE UNCHANGED vars
  BY <1>1, HiddenSteps
<1>2. ASSUME NEW p \in Procs, Proceed(p) \/ StartDrain(p) \/ Fault(p)
      PROVE  [Delivery!Next]_Delivery!vars
  BY <1>2, HiddenSteps, InsertShows, MarkShows, FailShows DEF Proceed, Fault
<1>3. ASSUME NEW p \in Procs, NEW i \in Ids PROVE ~LogEventInline(p, i)
  BY DEF LogEventInline, Leased
<1>4. ASSUME NEW i \in Ids,
             \/ LogEvent(i) \/ TimePasses(i) \/ EnqueueDue(i) \/ Take(i)
             \/ PersistDeadLetter(i) \/ PersistRaises(i) \/ SweepFailed(i) \/ Requeue(i)
      PROVE  [Delivery!Next]_Delivery!vars
  <2>1. ~Requeue(i)
    BY DEF Requeue, Leased, IInv, TypeOK
  <2> QED
    BY <1>4, <2>1, HiddenSteps, LogShows
<1>5. ~RequeueFailed
  <2>1. RequeueFailed => requeues < MaxRequeues
    BY Zenon DEF RequeueFailed
  <2>2. requeues \in Nat /\ MaxRequeues = 0
    BY DEF Leased, IInv, TypeOK
  <2> QED
    BY <2>1, <2>2
<1> QED
  BY <1>1, <1>2, <1>3, <1>4, <1>5 DEF Next

\* While leases hold and MySQL's errors are true, the outbox delivers as OutboxDelivery
\* promises: rows go from PENDING to SENT with a document or to FAILED after their
\* attempts, and stay there, however many workers and drains there are and whatever
\* crashes.
THEOREM ImplementsDelivery == ASSUME Leased, AcksReliable PROVE Spec => RefinesDelivery
<1>1. Init => Delivery!Init
  <2> SUFFICES ASSUME Init PROVE Delivery!Init
    OBVIOUS
  <2>1. \A i \in Ids : rows[i].status = "ABSENT" /\ rows[i].attempts = 0 /\ docs[i] = 0
    BY DEF Init
  <2>2. /\ [i \in Ids |-> rows[i].status] = [i \in Ids |-> "ABSENT"]
        /\ [i \in Ids |-> rows[i].attempts] = [i \in Ids |-> 0]
    BY <2>1
  <2>3. [i \in Ids |-> docs[i] > 0] = [i \in Ids |-> FALSE]
    <3> DEFINE Published(i) == docs[i] > 0
    <3>1. \A i \in Ids : Published(i) = FALSE
      BY <2>1
    <3> HIDE DEF Published
    <3>2. [i \in Ids |-> Published(i)] = [i \in Ids |-> FALSE]
      BY <3>1, Zenon
    <3> QED
      BY <3>2, Zenon DEF Published
  <2> QED
    BY <2>2, <2>3, Zenon DEF Delivery!Init
<1>2. IInv /\ LeaseInv /\ [Next]_vars => [Delivery!Next]_Delivery!vars
  BY StepShows
<1> QED
  BY <1>1, <1>2, Invariant, LeaseInvariant, PTL DEF Spec, RefinesDelivery, Delivery!Spec
=============================================================================

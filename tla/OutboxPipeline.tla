---------------------------- MODULE OutboxPipeline ----------------------------
(***************************************************************************)
(* The gate event outbox: rows of gate_event_outbox written with each gate *)
(* event, and the processes that copy them to MongoDB:                     *)
(*   worker  a BullMQ job: claim the row by a lease, sync, then announce   *)
(*           the event to webhooks, queue a retry or queue a dead letter;  *)
(*   drain   the operator's drainOutboxOnce: lease a batch, sync each row; *)
(*   inline  logGateEvent with OUTBOX_INLINE_SYNC: sync without a lease.   *)
(* A producer loop queues a job for each due row, a dead-letter worker     *)
(* records terminal failures, an operator may requeue rows.                *)
(*                                                                         *)
(* A lease and a retry backoff are the same column: next_retry_at lies in  *)
(* the future.  held says that it does.  Queue jobs are kept per row, as   *)
(* their job ids are derived from it.                                      *)
(***************************************************************************)
EXTENDS Integers, FiniteSets

CONSTANTS
    Ids,           \* bound: outbox rows
    Procs,         \* bound: jobs, drains and inline syncs that run at the same time
    MaxAttempts,   \* OUTBOX_MAX_ATTEMPTS
    Kinds,         \* which of worker, drain and inline run
    LeaseHolds,    \* TRUE when a lease never runs out before its holder is done
    AcksReliable,  \* TRUE when an error from MySQL means that nothing was written
    SweepAttempts, \* attempts from which the scheduled event copies FAILED rows
    SweepExists,   \* whether that event exists in the database
    MaxDocs,       \* bound: documents per row, counted up to here
    MaxRetries,    \* bound: delayed retry jobs per row, counted up to here
    MaxRequeues,   \* bound: operator requeues
    MaxFaults      \* bound: crashes, lost jobs and failing bookkeeping writes

ASSUME CountAssumption ==
    /\ MaxAttempts \in Nat \ {0} /\ SweepAttempts \in Nat \ {0}
    /\ MaxDocs \in Nat \ {0} /\ MaxRetries \in Nat \ {0}
    /\ MaxRequeues \in Nat /\ MaxFaults \in Nat
ASSUME KindAssumption == Kinds \subseteq {"worker", "drain", "inline"}
ASSUME FlagAssumption ==
    LeaseHolds \in BOOLEAN /\ AcksReliable \in BOOLEAN /\ SweepExists \in BOOLEAN
ASSUME IdAssumption == Ids # {}

VARIABLES
    rows,      \* gate_event_outbox
    docs,      \* documents inserted into MongoDB per row
    announced, \* rows whose event was handed to the webhook delivery
    scans,     \* the job outbox-<id> of each row
    retries,   \* delayed jobs outbox-retry-<id>-<time> of each row
    letters,   \* rows with a dead-letter job in the queue
    dlq,       \* rows recorded in gate_event_outbox_dlq
    procs,     \* what each process is doing
    requeues,  \* operator requeues so far
    faults     \* faults so far

vars == <<rows, docs, announced, scans, retries, letters, dlq, procs, requeues, faults>>
queue == <<scans, retries>>
results == <<announced, letters, dlq>>
counters == <<requeues, faults>>

-----------------------------------------------------------------------------
Row == [status: {"ABSENT", "PENDING", "SENT", "FAILED"}, attempts: Nat, held: BOOLEAN]

\* Between "look" and "fail" a process works on its row; "after" reads the outcome back.
WorkPhases == {"look", "read", "insert", "mark", "fail"}
Phases == {"free", "claim", "after", "announce", "again", "bury"} \cup WorkPhases

AnyId == CHOOSE i \in Ids : TRUE

Proc == [phase: Phases, kind: {"worker", "drain", "inline"}, job: {"none", "scan", "retry"},
         id: Ids, seen: Nat, ok: BOOLEAN, todo: SUBSET Ids]

Free == [phase |-> "free", kind |-> "worker", job |-> "none", id |-> AnyId,
         seen |-> 0, ok |-> FALSE, todo |-> {}]

IsFree(p) == procs[p].phase = "free"
IsDue(i) == rows[i].status = "PENDING" /\ ~rows[i].held
WorksOn(p, i) == procs[p].phase \in WorkPhases /\ procs[p].id = i

Goto(p, phase) == procs' = [procs EXCEPT ![p].phase = phase]

\* The job of process p leaves the queue, completed or failed (removeOnComplete,
\* removeOnFail).
JobDone(p) ==
    scans' = IF procs[p].job = "scan" THEN [scans EXCEPT ![procs[p].id] = "none"] ELSE scans

-----------------------------------------------------------------------------
(* Writing and queueing rows.                                              *)

\* logGateEvent inserts the event and its outbox row in one transaction; a repeated event
\* finds the row it has.
LogEvent(i) ==
    /\ rows[i].status = "ABSENT"
    /\ rows' = [rows EXCEPT ![i].status = "PENDING"]
    /\ UNCHANGED <<docs, queue, results, procs, counters>>

LogEventInline(p, i) ==
    /\ "inline" \in Kinds /\ IsFree(p)
    /\ rows[i].status = "ABSENT"
    /\ rows' = [rows EXCEPT ![i].status = "PENDING"]
    /\ procs' = [procs EXCEPT ![p] = [Free EXCEPT !.phase = "read", !.kind = "inline", !.id = i]]
    /\ UNCHANGED <<docs, queue, results, counters>>

\* The lease or the backoff of row i runs out.
TimePasses(i) ==
    /\ rows[i].held
    /\ LeaseHolds => \A p \in Procs : ~WorksOn(p, i) /\ i \notin procs[p].todo
    /\ rows' = [rows EXCEPT ![i].held = FALSE]
    /\ UNCHANGED <<docs, queue, results, procs, counters>>

\* The producer loop (enqueueDueOutboxJobs): one job per row at a time.
EnqueueDue(i) ==
    /\ "worker" \in Kinds
    /\ IsDue(i) /\ scans[i] = "none"
    /\ scans' = [scans EXCEPT ![i] = "waiting"]
    /\ UNCHANGED <<rows, docs, retries, results, procs, counters>>

TakeJob(p, i, job) ==
    procs' = [procs EXCEPT ![p] =
        [Free EXCEPT !.phase = "claim", !.kind = "worker", !.job = job, !.id = i]]

TakeScanJob(p, i) ==
    /\ IsFree(p) /\ scans[i] = "waiting"
    /\ scans' = [scans EXCEPT ![i] = "active"]
    /\ TakeJob(p, i, "scan")
    /\ UNCHANGED <<rows, docs, retries, results, counters>>

\* A retry job becomes ready when its delay is over.  When that is, is left open: a job
\* that finds its row leased again, or not yet due, is skipped by its claim.
TakeRetryJob(p, i) ==
    /\ IsFree(p) /\ retries[i] > 0
    /\ retries' = [retries EXCEPT ![i] = @ - 1]
    /\ TakeJob(p, i, "retry")
    /\ UNCHANGED <<rows, docs, scans, results, counters>>

\* Variant: the lease of another process is not respected.
ClaimableAnyway(i) == rows[i].status = "PENDING"

\* The guard of claimOutboxRow's conditional update.
Claimable(i) == IsDue(i)

\* claimOutboxRow: lease a due row, or skip the job.
ClaimRow(p) ==
    LET i == procs[p].id
    IN  /\ procs[p].phase = "claim"
        /\ IF Claimable(i)
           THEN /\ rows' = [rows EXCEPT ![i].held = TRUE]
                /\ Goto(p, "look")
                /\ UNCHANGED scans
           ELSE /\ procs' = [procs EXCEPT ![p] = Free]
                /\ JobDone(p)
                /\ UNCHANGED rows
        /\ UNCHANGED <<docs, retries, results, counters>>

\* claimOutboxBatch leases some due rows (those it could lock, up to the limit) and
\* works through them.
StartDrain(p) ==
    /\ "drain" \in Kinds /\ IsFree(p)
    /\ \E batch \in SUBSET {i \in Ids : IsDue(i)} : \E i \in batch :
          /\ rows' = [j \in Ids |->
                 IF j \in batch THEN [rows[j] EXCEPT !.held = TRUE] ELSE rows[j]]
          /\ procs' = [procs EXCEPT ![p] =
                 [Free EXCEPT !.phase = "look", !.kind = "drain", !.id = i,
                              !.todo = batch \ {i}]]
    /\ UNCHANGED <<docs, queue, results, counters>>

-----------------------------------------------------------------------------
(* Syncing one row: processOutboxIdempotent around trySyncOutboxToMongo.   *)

\* What a process does with the status its reading of the row ends with.
OutcomePhase(p, ok, status) ==
    IF procs[p].kind # "worker" THEN "after"
    ELSE IF ok \/ status = "SENT" THEN "announce"
    ELSE IF status = "FAILED" THEN "bury" ELSE "again"

\* The first read: a SENT or FAILED row is not synced.
LookFirst(p) ==
    LET status == rows[procs[p].id].status
    IN  /\ procs[p].phase = "look"
        /\ Goto(p, IF status \in {"SENT", "FAILED"}
                   THEN OutcomePhase(p, FALSE, status) ELSE "read")
        /\ UNCHANGED <<rows, docs, queue, results, counters>>

IsSent(i) == rows[i].status = "SENT"

\* The second read, in trySyncOutboxToMongo: it keeps the number of attempts.
ReadRow(p) ==
    LET i == procs[p].id
    IN  /\ procs[p].phase = "read"
        /\ procs' = [procs EXCEPT ![p] =
               IF IsSent(i)
               THEN [@ EXCEPT !.phase = "after", !.ok = TRUE]
               ELSE [@ EXCEPT !.phase = "insert", !.seen = rows[i].attempts]]
        /\ UNCHANGED <<rows, docs, queue, results, counters>>

DocAdded(i) == [docs EXCEPT ![i] = IF @ < MaxDocs THEN @ + 1 ELSE @]

InsertDoc(p) ==
    /\ procs[p].phase = "insert"
    /\ docs' = DocAdded(procs[p].id)
    /\ Goto(p, "mark")
    /\ UNCHANGED <<rows, queue, results, counters>>

\* Variant: the row is marked although the insert raised.
InsertIgnored(p) ==
    /\ procs[p].phase = "insert"
    /\ Goto(p, "mark")
    /\ UNCHANGED <<rows, docs, queue, results, counters>>

\* MongoDB is down, or took the document and its acknowledgement was lost.
InsertRaises(p) ==
    /\ procs[p].phase = "insert"
    /\ docs' \in {docs, DocAdded(procs[p].id)}
    /\ Goto(p, "fail")
    /\ UNCHANGED <<rows, queue, results, counters>>

RowSent(i) == [rows EXCEPT ![i] = [@ EXCEPT !.status = "SENT", !.held = FALSE]]

\* The update by primary key, whatever the row says by now.
MarkSent(p) ==
    /\ procs[p].phase = "mark"
    /\ rows' = RowSent(procs[p].id)
    /\ procs' = [procs EXCEPT ![p] = [@ EXCEPT !.phase = "after", !.seen = 0, !.ok = TRUE]]
    /\ UNCHANGED <<docs, queue, results, counters>>

\* The update raises; the catch block counts a failed attempt of a published event.
MarkRaises(p) ==
    /\ procs[p].phase = "mark" /\ faults < MaxFaults
    /\ rows' \in {rows} \cup (IF AcksReliable THEN {} ELSE {RowSent(procs[p].id)})
    /\ Goto(p, "fail")
    /\ faults' = faults + 1
    /\ UNCHANGED <<docs, queue, results, requeues>>

\* Variants: a status outside the enumeration; one attempt too few.
StatusAfterMisnamed(attempts) ==
    IF attempts >= MaxAttempts THEN "TERMINAL_FAILED" ELSE "PENDING"

StatusAfterEarly(attempts) == IF attempts + 1 >= MaxAttempts THEN "FAILED" ELSE "PENDING"

StatusAfter(attempts) == IF attempts >= MaxAttempts THEN "FAILED" ELSE "PENDING"

\* Variant: a failed attempt does not count.
AttemptsUncounted(seen) == seen

AttemptsAfter(seen) == seen + 1

\* The catch block: count the attempt on the number read before, and back off or give up;
\* again an update by primary key.
FailRow(p) ==
    LET i == procs[p].id
        attempts == AttemptsAfter(procs[p].seen)
    IN  /\ procs[p].phase = "fail"
        /\ rows' = [rows EXCEPT ![i] =
               [status |-> StatusAfter(attempts), attempts |-> attempts,
                held |-> StatusAfter(attempts) = "PENDING"]]
        /\ procs' = [procs EXCEPT ![p] = [@ EXCEPT !.phase = "after", !.seen = 0]]
        /\ UNCHANGED <<docs, queue, results, counters>>

\* The catch block's own update raises: the job fails and is removed, a drain stops.
FailRaises(p) ==
    /\ procs[p].phase = "fail" /\ faults < MaxFaults
    /\ procs' = [procs EXCEPT ![p] = Free]
    /\ JobDone(p)
    /\ faults' = faults + 1
    /\ UNCHANGED <<rows, docs, retries, results, requeues>>

\* The row is read back.  A drain goes on to its next row, an inline sync is done.
LookAfter(p) ==
    LET r == procs[p]
    IN  /\ r.phase = "after"
        /\ \/ /\ r.kind = "worker"
              /\ procs' = [procs EXCEPT ![p] =
                     [@ EXCEPT !.phase = OutcomePhase(p, r.ok, rows[r.id].status),
                               !.ok = FALSE]]
           \/ /\ r.kind # "worker" /\ r.todo = {}
              /\ procs' = [procs EXCEPT ![p] = Free]
           \/ /\ r.kind = "drain"
              /\ \E i \in r.todo :
                    procs' = [procs EXCEPT ![p] =
                        [@ EXCEPT !.phase = "look", !.id = i, !.ok = FALSE,
                                  !.todo = r.todo \ {i}]]
        /\ UNCHANGED <<rows, docs, queue, results, counters>>

-----------------------------------------------------------------------------
(* What a worker does with the outcome, and the dead-letter worker.        *)

\* Variant: the announcement is left out.
AnnouncedNot(i) == announced

Announced(i) == announced \cup {i}

Announce(p) ==
    /\ procs[p].phase = "announce"
    /\ announced' = Announced(procs[p].id)
    /\ procs' = [procs EXCEPT ![p] = Free]
    /\ JobDone(p)
    /\ UNCHANGED <<rows, docs, retries, letters, dlq, counters>>

ScheduleRetry(p) ==
    /\ procs[p].phase = "again"
    /\ retries' = [retries EXCEPT ![procs[p].id] = IF @ < MaxRetries THEN @ + 1 ELSE @]
    /\ procs' = [procs EXCEPT ![p] = Free]
    /\ JobDone(p)
    /\ UNCHANGED <<rows, docs, results, counters>>

\* Variant: no dead letter.
Unburied(i) == letters

Buried(i) == letters \cup {i}

EnqueueDeadLetter(p) ==
    /\ procs[p].phase = "bury"
    /\ letters' = Buried(procs[p].id)
    /\ procs' = [procs EXCEPT ![p] = Free]
    /\ JobDone(p)
    /\ UNCHANGED <<rows, docs, retries, announced, dlq, counters>>

\* Redis refuses the retry or the dead letter: the job fails and is removed.
EnqueueRaises(p) ==
    /\ procs[p].phase \in {"again", "bury"} /\ faults < MaxFaults
    /\ procs' = [procs EXCEPT ![p] = Free]
    /\ JobDone(p)
    /\ faults' = faults + 1
    /\ UNCHANGED <<rows, docs, retries, results, requeues>>

\* processOutboxDeadLetterJob upserts the record from the row as it is now.
PersistDeadLetter(i) ==
    /\ i \in letters
    /\ letters' = letters \ {i}
    /\ dlq' = dlq \cup {i}
    /\ UNCHANGED <<rows, docs, queue, announced, procs, counters>>

\* persistDlqRecordToDatabase swallows its error and the job completes.
PersistRaises(i) ==
    /\ i \in letters /\ faults < MaxFaults
    /\ letters' = letters \ {i}
    /\ faults' = faults + 1
    /\ UNCHANGED <<rows, docs, queue, announced, dlq, procs, requeues>>

\* The scheduled event evt_outbox_dlq_migration.
SweepFailed(i) ==
    /\ SweepExists
    /\ rows[i].status = "FAILED" /\ rows[i].attempts >= SweepAttempts /\ i \notin dlq
    /\ dlq' = dlq \cup {i}
    /\ UNCHANGED <<rows, docs, queue, announced, letters, procs, counters>>

-----------------------------------------------------------------------------
(* Operators and crashes.                                                  *)

\* requeueOutbox by ids: any row, also a SENT one or one in work; attempts stay.
Requeue(i) ==
    /\ requeues < MaxRequeues
    /\ rows[i].status # "ABSENT"
    /\ rows' = [rows EXCEPT ![i] = [@ EXCEPT !.status = "PENDING", !.held = FALSE]]
    /\ requeues' = requeues + 1
    /\ UNCHANGED <<docs, queue, results, procs, faults>>

\* requeueOutbox by limit: some of the FAILED rows.
RequeueFailed ==
    /\ requeues < MaxRequeues
    /\ \E some \in SUBSET {i \in Ids : rows[i].status = "FAILED"} :
          /\ some # {}
          /\ rows' = [i \in Ids |->
                 IF i \in some
                 THEN [rows[i] EXCEPT !.status = "PENDING", !.held = FALSE]
                 ELSE rows[i]]
    /\ requeues' = requeues + 1
    /\ UNCHANGED <<docs, queue, results, procs, faults>>

\* The process dies.  BullMQ gives its stalled job back once; one that stalls again is
\* failed and removed.
Crash(p) ==
    LET r == procs[p]
    IN  /\ ~IsFree(p) /\ faults < MaxFaults
        /\ procs' = [procs EXCEPT ![p] = Free]
        /\ \/ JobDone(p) /\ UNCHANGED retries
           \/ r.job = "scan" /\ scans' = [scans EXCEPT ![r.id] = "waiting"]
              /\ UNCHANGED retries
           \/ r.job = "retry"
              /\ retries' = [retries EXCEPT ![r.id] = IF @ < MaxRetries THEN @ + 1 ELSE @]
              /\ UNCHANGED scans
        /\ faults' = faults + 1
        /\ UNCHANGED <<rows, docs, results, requeues>>

-----------------------------------------------------------------------------
Init ==
    /\ rows = [i \in Ids |-> [status |-> "ABSENT", attempts |-> 0, held |-> FALSE]]
    /\ docs = [i \in Ids |-> 0]
    /\ announced = {}
    /\ scans = [i \in Ids |-> "none"]
    /\ retries = [i \in Ids |-> 0]
    /\ letters = {} /\ dlq = {}
    /\ procs = [p \in Procs |-> Free]
    /\ requeues = 0 /\ faults = 0

\* What a busy process does next by itself.
Proceed(p) ==
    \/ ClaimRow(p) \/ LookFirst(p) \/ ReadRow(p) \/ InsertDoc(p) \/ InsertRaises(p)
    \/ MarkSent(p) \/ FailRow(p) \/ LookAfter(p)
    \/ Announce(p) \/ ScheduleRetry(p) \/ EnqueueDeadLetter(p)

Take(i) == \E p \in Procs : TakeScanJob(p, i) \/ TakeRetryJob(p, i)

Fault(p) == MarkRaises(p) \/ FailRaises(p) \/ EnqueueRaises(p) \/ Crash(p)

Next ==
    \/ \E p \in Procs : Proceed(p) \/ StartDrain(p) \/ Fault(p)
    \/ \E p \in Procs, i \in Ids : LogEventInline(p, i)
    \/ \E i \in Ids :
          \/ LogEvent(i) \/ TimePasses(i) \/ EnqueueDue(i) \/ Take(i)
          \/ PersistDeadLetter(i) \/ PersistRaises(i) \/ SweepFailed(i) \/ Requeue(i)
    \/ RequeueFailed

Spec == Init /\ [][Next]_vars

\* A process that lives goes on, time passes, the producer loop scans, the queue serves
\* every waiting job, and the scheduled event runs.  Operators and callers owe nothing.
Fairness ==
    /\ \A p \in Procs : WF_vars(Proceed(p))
    /\ \A i \in Ids :
          /\ WF_vars(TimePasses(i)) /\ WF_vars(EnqueueDue(i)) /\ WF_vars(Take(i))
          /\ WF_vars(PersistDeadLetter(i)) /\ WF_vars(SweepFailed(i))

FairSpec == Spec /\ Fairness

-----------------------------------------------------------------------------
(* Properties.                                                             *)

\* Rows, jobs and processes are well formed.
TypeOK ==
    /\ rows \in [Ids -> Row]
    /\ docs \in [Ids -> 0..MaxDocs]
    /\ announced \subseteq Ids /\ letters \subseteq Ids /\ dlq \subseteq Ids
    /\ scans \in [Ids -> {"none", "waiting", "active"}]
    /\ retries \in [Ids -> 0..MaxRetries]
    /\ procs \in [Procs -> Proc]
    /\ requeues \in Nat /\ faults \in Nat

\* An event is reported SENT, or announced to webhooks, only when MongoDB has it, also
\* when leases expire, processes crash or an operator requeues (trySyncOutboxToMongo
\* inserts before it updates).
SentHasDocument ==
    \A i \in Ids : rows[i].status = "SENT" \/ i \in announced => docs[i] > 0

\* No event is given up before its attempts are used up, also when two processes count
\* on the same row.
FailedIsExhausted ==
    \A i \in Ids : rows[i].status = "FAILED" => rows[i].attempts >= MaxAttempts

\* Two processes never sync the same row at once (pr12-outbox-bullmq.test.ts: two workers
\* do not sync the same outbox_id twice).
OneSyncPerRow ==
    \A p, q \in Procs : \A i \in Ids : WorksOn(p, i) /\ WorksOn(q, i) => p = q

Delivery == INSTANCE OutboxDelivery WITH
    status <- [i \in Ids |-> rows[i].status],
    attempts <- [i \in Ids |-> rows[i].attempts],
    published <- [i \in Ids |-> docs[i] > 0]

\* While leases hold and no operator requeues, rows behave as OutboxDelivery promises.
RefinesDelivery == Delivery!Spec

\* No row waits forever: each pending row is sent or given up in the end, whatever crashed
\* (the lease runs out and the producer loop finds the row again).
PendingSettles == \A i \in Ids : rows[i].status = "PENDING" ~> rows[i].status # "PENDING"

\* A row that is given up reaches the dead-letter table, unless a fault struck
\* (REQUIREMENTS OUT-04: terminal failures are moved to the DLQ).
FailureReachesDlq == \A i \in Ids : rows[i].status = "FAILED" ~> (i \in dlq \/ faults > 0)

\* An event that was sent is announced to webhooks, unless a fault struck
\* (processOutboxSyncJob).
SentIsAnnounced ==
    \A i \in Ids : rows[i].status = "SENT" ~> (i \in announced \/ faults > 0)
=============================================================================

------------------------------ MODULE Ingestion ------------------------------
(***************************************************************************)
(* The document ingestion pipeline: the API commits a document, its        *)
(* version and an outbox event in one transaction; publishers move outbox  *)
(* events to the Celery broker; workers take a delivery, lease the version *)
(* by its status and updated_at, and extract, chunk, embed and index it.   *)
(*                                                                         *)
(* Definitions named Mutant... are faulty variants of the definition that   *)
(* follows them; they are used only to confirm that a property can fail.   *)
(*                                                                         *)
(* Each action is one database transaction (or one external call) of the   *)
(* code.  Row locks end with the transaction, so everything a session      *)
(* remembers across a commit may be out of date: `stale' records exactly   *)
(* which sessions hold a copy of a version row that somebody else has      *)
(* written since.  It is a history variable and guards nothing.            *)
(***************************************************************************)
EXTENDS Integers, FiniteSets

CONSTANTS
    Versions,       \* document versions; upload always creates version 1 of a new document
    Workers,        \* Celery worker slots running ingest_document_version
    Publishers,     \* sessions that publish outbox events: upload requests and beat tasks
    Nil,            \* no version
    MaxAttempts,    \* bound: processing attempts of one version
    MaxUserRetries, \* bound: successful retry requests for one version
    MaxTries,       \* max_retries of the Celery task
    MaxFaults       \* bound: crashes, expired leases and aborted transactions

ASSUME BoundsAreNaturals ==
    /\ MaxAttempts \in Nat /\ MaxUserRetries \in Nat
    /\ MaxTries \in Nat /\ MaxFaults \in Nat
ASSUME SessionsAreDistinct ==
    /\ Workers \cap Publishers = {}
    /\ Nil \notin Versions

VARIABLES
    status,         \* document_versions.status, or "absent" before the upload commits
    document,       \* documents.status of the version's document
    lease_fresh,    \* updated_at of the version row is within ingestion_lease_seconds
    failure_code,   \* the version row carries a failure code
    admin,          \* the administrator's retry of a version that waits for its row lock
    attempt_count,  \* document_versions.attempt_count
    retry_count,    \* document_versions.retry_count
    attempts,       \* document_processing_attempts: status by attempt number
    lease_expired,  \* attempts whose failure_code is "processing_lease_expired"
    chunks,         \* document_chunks: the attempts whose rows the version has
    outbox,         \* committed ingestion events <<version, n>>
    published,      \* the events with published_at set
    broker,         \* deliveries waiting in the broker, by version and Celery retry number
    worker,         \* state of each worker slot
    publisher,      \* state of each publishing session
    stale,          \* history: sessions whose copy of the version row was overwritten
    clobbered,      \* history: versions whose status was last written by a stale publisher
    lost,           \* history: versions a delivery of which died with its worker
    faults          \* faults so far, bounded by MaxFaults

rows == <<status, document, lease_fresh, failure_code, admin>>
vars == <<rows, attempt_count, retry_count, attempts, lease_expired, chunks, outbox,
          published, broker, worker, publisher, stale, clobbered, lost, faults>>

-----------------------------------------------------------------------------
Active   == {"EXTRACTING", "CHUNKING", "EMBEDDING"}
Status   == {"absent", "PENDING", "QUEUED", "READY", "FAILED"} \cup Active
DocumentStatus == {"absent", "STORED", "QUEUED", "READY", "FAILED"} \cup Active
Attempts == 1 .. MaxAttempts
AttemptStatus == {"none", "succeeded", "failed", "abandoned"} \cup Active
Events   == Versions \X (0 .. MaxUserRetries)
Sessions == Workers \cup Publishers

(* What a worker session is doing: "received" has acknowledged a delivery,  *)
(* a stage name means the stage's entry was committed, "REPLACING" has      *)
(* executed the DELETE of the final transaction, "failing" has raised, and  *)
(* "raised" has recorded the failure and is about to be retried by Celery.  *)
Processing  == Active \cup {"REPLACING"}
WorkerState == [pc: {"idle", "received", "failing", "raised"} \cup Processing,
                v: Versions \cup {Nil}, tries: 0 .. MaxTries,
                attempt: 0 .. MaxAttempts, transient: BOOLEAN, deleted: SUBSET Attempts]
PublisherState == [pc: {"idle", "uploaded", "claimed", "sent", "loaded"},
                   v: Versions \cup {Nil}, n: 0 .. MaxUserRetries,
                   seen: Status, document: DocumentStatus]

(* The administrator's retry reads version and document in one statement    *)
(* and locks the version only.  "waiting": the statement began while the    *)
(* document row said QUEUED and waits for the lock; "missed": it committed  *)
(* without writing the document, and nobody has written the document since. *)
AdminState == {"none", "waiting", "missed"}

IdleWorker == [pc |-> "idle", v |-> Nil, tries |-> 0, attempt |-> 0,
               transient |-> FALSE, deleted |-> {}]
IdlePublisher == [pc |-> "idle", v |-> Nil, n |-> 0, seen |-> "absent",
                  document |-> "absent"]

TypeOK ==
    /\ status \in [Versions -> Status]
    /\ document \in [Versions -> DocumentStatus]
    /\ lease_fresh \in [Versions -> BOOLEAN]
    /\ failure_code \in [Versions -> BOOLEAN]
    /\ admin \in [Versions -> AdminState]
    /\ attempt_count \in [Versions -> 0 .. MaxAttempts]
    /\ retry_count \in [Versions -> 0 .. MaxUserRetries]
    /\ attempts \in [Versions -> [Attempts -> AttemptStatus]]
    /\ lease_expired \in [Versions -> SUBSET Attempts]
    /\ chunks \in [Versions -> SUBSET Attempts]
    /\ outbox \in SUBSET Events
    /\ published \in SUBSET Events
    /\ broker \in [Versions -> [0 .. MaxTries -> Nat]]
    /\ worker \in [Workers -> WorkerState]
    /\ publisher \in [Publishers -> PublisherState]
    /\ stale \in SUBSET Sessions
    /\ clobbered \in SUBSET Versions
    /\ lost \in SUBSET Versions
    /\ faults \in 0 .. MaxFaults

Init ==
    /\ status = [v \in Versions |-> "absent"]
    /\ document = [v \in Versions |-> "absent"]
    /\ lease_fresh = [v \in Versions |-> FALSE]
    /\ failure_code = [v \in Versions |-> FALSE]
    /\ admin = [v \in Versions |-> "none"]
    /\ attempt_count = [v \in Versions |-> 0]
    /\ retry_count = [v \in Versions |-> 0]
    /\ attempts = [v \in Versions |-> [a \in Attempts |-> "none"]]
    /\ lease_expired = [v \in Versions |-> {}]
    /\ chunks = [v \in Versions |-> {}]
    /\ outbox = {}
    /\ published = {}
    /\ broker = [v \in Versions |-> [t \in 0 .. MaxTries |-> 0]]
    /\ worker = [w \in Workers |-> IdleWorker]
    /\ publisher = [p \in Publishers |-> IdlePublisher]
    /\ stale = {}
    /\ clobbered = {}
    /\ lost = {}
    /\ faults = 0

-----------------------------------------------------------------------------
(* Sessions holding an in-memory copy of v's row, or a decision based on it. *)
Copies(v) ==
    {w \in Workers : worker[w].v = v /\ worker[w].pc \in Processing \cup {"failing"}}
    \cup {p \in Publishers : publisher[p].v = v}

(* A write of v's status: onupdate refreshes updated_at, every other copy   *)
(* of the row goes stale.  The document row follows its current version.    *)
WriteStatus(v, s) ==
    /\ status' = [status EXCEPT ![v] = s]
    /\ lease_fresh' = [lease_fresh EXCEPT ![v] = TRUE]
DocumentUpdated(v) == admin' = [admin EXCEPT ![v] = IF @ = "missed" THEN "none" ELSE @]
MutantWriteDocument(v, s) ==
    /\ document' = [document EXCEPT ![v] = IF @ = "FAILED" THEN @ ELSE s]
    /\ DocumentUpdated(v)
WriteDocument(v, s) ==
    /\ document' = [document EXCEPT ![v] = s]
    /\ DocumentUpdated(v)
MutantClearFailure(v) == UNCHANGED failure_code
ClearFailure(v) == failure_code' = [failure_code EXCEPT ![v] = FALSE]

Fault == faults < MaxFaults /\ faults' = faults + 1

Locked(e) == \E p \in Publishers :
                /\ publisher[p].pc \in {"claimed", "sent", "loaded"}
                /\ <<publisher[p].v, publisher[p].n>> = e
MutantUnpublished == {e \in outbox \ published : status[e[1]] \in {"PENDING", "QUEUED"}}
Unpublished == outbox \ published

-----------------------------------------------------------------------------
(*                              API requests                                *)

(* upload(): the object is stored, then one transaction adds the document,  *)
(* its version and the outbox event.  The session keeps its copies.         *)
Upload(p, v) ==
    /\ publisher[p].pc = "idle"
    /\ status[v] = "absent"
    /\ WriteStatus(v, "PENDING")
    /\ WriteDocument(v, "STORED")
    /\ outbox' = outbox \cup {<<v, 0>>}
    /\ publisher' = [publisher EXCEPT ![p] =
            [pc |-> "uploaded", v |-> v, n |-> 0, seen |-> "PENDING", document |-> "STORED"]]
    /\ UNCHANGED <<failure_code, attempt_count, retry_count, attempts, lease_expired, chunks,
                   published, broker, worker, stale, clobbered, lost, faults>>

Retryable(v) == status[v] = "FAILED"
MutantRetryEvent(v) == <<v, 0>>
RetryEvent(v) == <<v, retry_count[v] + 1>>

(* The transition and the new outbox event of a retry commit together.      *)
RetryCommits(v) ==
    /\ Retryable(v)
    /\ retry_count[v] < MaxUserRetries
    /\ WriteStatus(v, "QUEUED")
    /\ ClearFailure(v)
    /\ retry_count' = [retry_count EXCEPT ![v] = @ + 1]
    /\ outbox' = outbox \cup {RetryEvent(v)}
    /\ stale' = stale \cup Copies(v)
    /\ clobbered' = clobbered \ {v}
    /\ lost' = lost \ {v}
    /\ UNCHANGED <<attempt_count, attempts, lease_expired, chunks, published, broker, worker,
                   publisher, faults>>

(* retry_document_version() reads the document in a second statement, under *)
(* the lock; so does, in effect, an administrator who need not wait.        *)
Retry(v) == RetryCommits(v) /\ WriteDocument(v, "QUEUED")

(* The administrator's statement begins and has to wait for the version's   *)
(* row lock; the document row it will return is today's.  A copy that does  *)
(* not say QUEUED is always written, which is Retry.  One administrator at  *)
(* a time waits for a version.                                              *)
AdminWaits(v) ==
    /\ admin[v] = "none"
    /\ document[v] = "QUEUED"
    /\ retry_count[v] < MaxUserRetries
    /\ admin' = [admin EXCEPT ![v] = "waiting"]
    /\ UNCHANGED <<status, document, lease_fresh, failure_code, attempt_count, retry_count,
                   attempts, lease_expired, chunks, outbox, published, broker, worker,
                   publisher, stale, clobbered, lost, faults>>

(* retry_version() gets the lock: the version is the committed row, the     *)
(* document the row of the statement's start.  QUEUED over a copy that says *)
(* QUEUED sends no UPDATE, whatever the document row says by now.           *)
AdminRetry(v) ==
    /\ admin[v] = "waiting"
    /\ RetryCommits(v)
    /\ admin' = [admin EXCEPT ![v] = IF document[v] = "QUEUED" THEN "none" ELSE "missed"]
    /\ UNCHANGED document

(* AdminDocumentVersionNotRetryableError. *)
AdminRefused(v) ==
    /\ admin[v] = "waiting"
    /\ ~Retryable(v)
    /\ admin' = [admin EXCEPT ![v] = "none"]
    /\ UNCHANGED <<status, document, lease_fresh, failure_code, attempt_count, retry_count,
                   attempts, lease_expired, chunks, outbox, published, broker, worker,
                   publisher, stale, clobbered, lost, faults>>

-----------------------------------------------------------------------------
(*                            Outbox publishers                             *)

(* publish_event(): the upload request locks its own event; beat may have   *)
(* published it meanwhile.                                                  *)
ClaimOwn(p) ==
    LET e == <<publisher[p].v, publisher[p].n>> IN
    /\ publisher[p].pc = "uploaded"
    /\ ~Locked(e)
    /\ \/ /\ e \notin published
          /\ publisher' = [publisher EXCEPT ![p].pc = "claimed"]
          /\ stale' = stale
       \/ /\ e \in published
          /\ publisher' = [publisher EXCEPT ![p] = IdlePublisher]
          /\ stale' = stale \ {p}
    /\ UNCHANGED <<rows, attempt_count, retry_count, attempts, lease_expired, chunks, outbox,
                   published, broker, worker, clobbered, lost, faults>>

(* One turn of publish_pending(): lock an unpublished event that nobody     *)
(* else has locked and read the version row without a lock.                 *)
ClaimPending(p, e) ==
    /\ publisher[p].pc = "idle"
    /\ e \in Unpublished
    /\ ~Locked(e)
    /\ publisher' = [publisher EXCEPT ![p] =
            [pc |-> "claimed", v |-> e[1], n |-> e[2], seen |-> status[e[1]],
             document |-> "absent"]]
    /\ UNCHANGED <<rows, attempt_count, retry_count, attempts, lease_expired, chunks, outbox,
                   published, broker, worker, stale, clobbered, lost, faults>>

(* The broker accepts the task.  It is deliverable at once, before the      *)
(* publisher's transaction commits.  An upload request already has its      *)
(* document; a beat session reads it next.                                  *)
Enqueue(p) ==
    /\ publisher[p].pc = "claimed"
    /\ broker' = [broker EXCEPT ![publisher[p].v][0] = @ + 1]
    /\ publisher' = [publisher EXCEPT ![p].pc =
            IF publisher[p].document = "STORED" THEN "loaded" ELSE "sent"]
    /\ UNCHANGED <<rows, attempt_count, retry_count, attempts, lease_expired, chunks, outbox,
                   published, worker, stale, clobbered, lost, faults>>

(* The broker refuses the task: only attempt_count and last_error change.   *)
EnqueueFails(p) ==
    /\ publisher[p].pc = "claimed"
    /\ publisher' = [publisher EXCEPT ![p] = IdlePublisher]
    /\ stale' = stale \ {p}
    /\ UNCHANGED <<rows, attempt_count, retry_count, attempts, lease_expired, chunks, outbox,
                   published, broker, worker, clobbered, lost, faults>>

LoadDocument(p) ==
    /\ publisher[p].pc = "sent"
    /\ publisher' = [publisher EXCEPT ![p].pc = "loaded",
                                      ![p].document = document[publisher[p].v]]
    /\ UNCHANGED <<rows, attempt_count, retry_count, attempts, lease_expired, chunks, outbox,
                   published, broker, worker, stale, clobbered, lost, faults>>

Requeues(p) == publisher[p].seen \in {"PENDING", "FAILED"}

(* The publisher's commit.  The status test is on the copy it read before   *)
(* it enqueued; a document copy that already says QUEUED is not written.    *)
CommitPublished(p) ==
    LET v == publisher[p].v IN
    /\ publisher[p].pc = "loaded"
    /\ published' = published \cup {<<v, publisher[p].n>>}
    /\ publisher' = [publisher EXCEPT ![p] = IdlePublisher]
    /\ \/ /\ Requeues(p)
          /\ WriteStatus(v, "QUEUED")
          /\ IF publisher[p].document = "QUEUED" THEN UNCHANGED <<document, admin>>
             ELSE WriteDocument(v, "QUEUED")
          /\ clobbered' = IF p \in stale THEN clobbered \cup {v} ELSE clobbered \ {v}
          /\ stale' = (stale \cup Copies(v)) \ {p}
       \/ /\ ~Requeues(p)
          /\ stale' = stale \ {p}
          /\ UNCHANGED <<status, document, lease_fresh, admin, clobbered>>
    /\ UNCHANGED <<failure_code, attempt_count, retry_count, attempts, lease_expired, chunks,
                   outbox, broker, worker, lost, faults>>

(* The publisher dies or its commit is refused: the event stays pending.    *)
PublisherFails(p) ==
    /\ publisher[p].pc # "idle"
    /\ Fault
    /\ publisher' = [publisher EXCEPT ![p] = IdlePublisher]
    /\ stale' = stale \ {p}
    /\ UNCHANGED <<rows, attempt_count, retry_count, attempts, lease_expired, chunks, outbox,
                   published, broker, worker, clobbered, lost>>

-----------------------------------------------------------------------------
(*                             Celery workers                               *)

MutantDeliverable(v, t) == broker[v][t] >= 0
Deliverable(v, t) == broker[v][t] > 0

(* The worker takes a delivery; Celery acknowledges it before the task runs. *)
Receive(w, v, t) ==
    /\ worker[w].pc = "idle"
    /\ Deliverable(v, t)
    /\ broker' = [broker EXCEPT ![v][t] = @ - 1]
    /\ worker' = [worker EXCEPT ![w] = [IdleWorker EXCEPT !.pc = "received",
                                                          !.v = v, !.tries = t]]
    /\ UNCHANGED <<rows, attempt_count, retry_count, attempts, lease_expired, chunks, outbox,
                   published, publisher, stale, clobbered, lost, faults>>

(* GeminiEmbeddingProvider() raises before the service is built, so no      *)
(* failure is recorded and the task is not retried.                         *)
ProviderUnconfigured(w) ==
    /\ worker[w].pc = "received"
    /\ worker' = [worker EXCEPT ![w] = IdleWorker]
    /\ lost' = lost \cup {worker[w].v}
    /\ UNCHANGED <<rows, attempt_count, retry_count, attempts, lease_expired, chunks, outbox,
                   published, broker, publisher, stale, clobbered, faults>>

MutantLeaseIsFresh(v) == status[v] = "EXTRACTING" /\ lease_fresh[v]
LeaseIsFresh(v) == status[v] \in Active /\ lease_fresh[v]
MutantDropped(v) == LeaseIsFresh(v)
Dropped(v) == status[v] = "READY" \/ LeaseIsFresh(v)

(* The early returns of ingest().                                           *)
Drop(w) ==
    /\ worker[w].pc = "received"
    /\ Dropped(worker[w].v)
    /\ worker' = [worker EXCEPT ![w] = IdleWorker]
    /\ UNCHANGED <<rows, attempt_count, retry_count, attempts, lease_expired, chunks, outbox,
                   published, broker, publisher, stale, clobbered, lost, faults>>

(* _start_processing() marks the latest active attempt, and only that one.  *)
LatestActive(v) ==
    {a \in Attempts : /\ attempts[v][a] \in Active
                      /\ \A b \in Attempts : attempts[v][b] \in Active => b <= a}

MutantNextAttempt(v) == retry_count[v] + 1
NextAttempt(v) == attempt_count[v] + 1

Start(w) ==
    LET v == worker[w].v
        a == NextAttempt(v) IN
    /\ worker[w].pc = "received"
    /\ ~Dropped(v)
    /\ a \in Attempts
    /\ attempts' = [attempts EXCEPT ![v] = [b \in Attempts |->
            IF b = a THEN "EXTRACTING"
            ELSE IF b \in LatestActive(v) THEN "abandoned" ELSE @[b]]]
    /\ lease_expired' = [lease_expired EXCEPT ![v] = @ \cup LatestActive(v)]
    /\ WriteStatus(v, "EXTRACTING")
    /\ WriteDocument(v, "EXTRACTING")
    /\ attempt_count' = [attempt_count EXCEPT ![v] = a]
    /\ ClearFailure(v)
    /\ worker' = [worker EXCEPT ![w].pc = "EXTRACTING", ![w].attempt = a]
    /\ stale' = stale \cup Copies(v)
    /\ clobbered' = clobbered \ {v}
    /\ UNCHANGED <<retry_count, chunks, outbox, published, broker, publisher, lost, faults>>

(* The start transaction is refused (a deadlock victim, a lost connection): *)
(* ingest() goes on to record a failure without an attempt.                 *)
StartFails(w) ==
    /\ worker[w].pc = "received"
    /\ ~Dropped(worker[w].v)
    /\ Fault
    /\ worker' = [worker EXCEPT ![w].pc = "failing"]
    /\ UNCHANGED <<rows, attempt_count, retry_count, attempts, lease_expired, chunks, outbox,
                   published, broker, publisher, stale, clobbered, lost>>

(* The commit that ends one stage and enters the next.  The session writes  *)
(* its rows by primary key: nothing is compared with what they hold now.    *)
EnterStage(w, from, to) ==
    LET v == worker[w].v IN
    /\ worker[w].pc = from
    /\ WriteStatus(v, to)
    /\ WriteDocument(v, to)
    /\ attempts' = [attempts EXCEPT ![v][worker[w].attempt] = to]
    /\ worker' = [worker EXCEPT ![w].pc = to]
    /\ stale' = stale \cup (Copies(v) \ {w})
    /\ clobbered' = clobbered \ {v}
    /\ UNCHANGED <<failure_code, attempt_count, retry_count, lease_expired, chunks, outbox,
                   published, broker, publisher, lost, faults>>

FinishExtraction(w) == EnterStage(w, "EXTRACTING", "CHUNKING")
FinishChunking(w) == EnterStage(w, "CHUNKING", "EMBEDDING")

(* The final transaction's DELETE sees the chunk rows committed by now.     *)
DeleteChunks(w) ==
    /\ worker[w].pc = "EMBEDDING"
    /\ worker' = [worker EXCEPT ![w].pc = "REPLACING", ![w].deleted = chunks[worker[w].v]]
    /\ UNCHANGED <<rows, attempt_count, retry_count, attempts, lease_expired, chunks, outbox,
                   published, broker, publisher, stale, clobbered, lost, faults>>

(* Every attempt writes chunk_index 0, so rows that appeared since the      *)
(* DELETE collide with its INSERTs on (document_version_id, chunk_index).   *)
MutantUniqueIndexHolds(w) == TRUE
UniqueIndexHolds(w) == chunks[worker[w].v] \subseteq worker[w].deleted

MutantReplaced(w) == chunks[worker[w].v] \cup {worker[w].attempt}
Replaced(w) == (chunks[worker[w].v] \ worker[w].deleted) \cup {worker[w].attempt}

(* INSERTs, READY and "succeeded" commit with the DELETE.  failure_code is  *)
(* assigned None over a copy that is None, so that column is not written.   *)
Finalize(w) ==
    LET v == worker[w].v IN
    /\ worker[w].pc = "REPLACING"
    /\ UniqueIndexHolds(w)
    /\ chunks' = [chunks EXCEPT ![v] = Replaced(w)]
    /\ WriteStatus(v, "READY")
    /\ WriteDocument(v, "READY")
    /\ attempts' = [attempts EXCEPT ![v][worker[w].attempt] = "succeeded"]
    /\ worker' = [worker EXCEPT ![w] = IdleWorker]
    /\ stale' = (stale \cup Copies(v)) \ {w}
    /\ clobbered' = clobbered \ {v}
    /\ UNCHANGED <<failure_code, attempt_count, retry_count, lease_expired, outbox, published,
                   broker, publisher, lost, faults>>

(* A stage raises: anything in any stage, and a TransientIngestionError     *)
(* from the download or the embedding call.                                 *)
Raise(w) ==
    /\ worker[w].pc \in Processing
    /\ \E transient \in BOOLEAN :
          /\ transient => worker[w].pc \in {"EXTRACTING", "EMBEDDING"}
          /\ worker' = [worker EXCEPT ![w].pc = "failing", ![w].transient = transient,
                                      ![w].deleted = {}]
    /\ UNCHANGED <<rows, attempt_count, retry_count, attempts, lease_expired, chunks, outbox,
                   published, broker, publisher, stale, clobbered, lost, faults>>

MutantKeepsStatus(v) == status[v] \in Active \cup {"READY"}
KeepsStatus(v) == status[v] = "READY"

(* _record_failure() re-reads the row under a lock and leaves READY alone.  *)
RecordFailure(w) ==
    LET v == worker[w].v
        a == worker[w].attempt IN
    /\ worker[w].pc = "failing"
    /\ worker' = [worker EXCEPT ![w] =
            IF worker[w].transient THEN [@ EXCEPT !.pc = "raised"] ELSE IdleWorker]
    /\ \/ /\ KeepsStatus(v)
          /\ stale' = stale \ {w}
          /\ UNCHANGED <<rows, attempts, lease_expired, clobbered>>
       \/ /\ ~KeepsStatus(v)
          /\ WriteStatus(v, "FAILED")
          /\ WriteDocument(v, "FAILED")
          /\ failure_code' = [failure_code EXCEPT ![v] = TRUE]
          /\ attempts' = [attempts EXCEPT ![v] = [b \in Attempts |->
                            IF b = a THEN "failed" ELSE @[b]]]
          /\ lease_expired' = [lease_expired EXCEPT ![v] = @ \ {a}]
          /\ stale' = (stale \cup Copies(v)) \ {w}
          /\ clobbered' = clobbered \ {v}
    /\ UNCHANGED <<attempt_count, retry_count, chunks, outbox, published, broker, publisher,
                   lost, faults>>

(* autoretry_for=(TransientIngestionError,): a new message while retries    *)
(* are left, otherwise the task fails.                                      *)
CeleryRetry(w) ==
    LET v == worker[w].v
        t == worker[w].tries IN
    /\ worker[w].pc = "raised"
    /\ worker' = [worker EXCEPT ![w] = IdleWorker]
    /\ broker' = IF t < MaxTries THEN [broker EXCEPT ![v][t + 1] = @ + 1] ELSE broker
    /\ UNCHANGED <<rows, attempt_count, retry_count, attempts, lease_expired, chunks, outbox,
                   published, publisher, stale, clobbered, lost, faults>>

(* The worker process dies; its open transaction rolls back.                *)
Crash(w) ==
    /\ worker[w].pc # "idle"
    /\ Fault
    /\ worker' = [worker EXCEPT ![w] = IdleWorker]
    /\ stale' = stale \ {w}
    /\ lost' = IF worker[w].pc = "raised" THEN lost ELSE lost \cup {worker[w].v}
    /\ UNCHANGED <<rows, attempt_count, retry_count, attempts, lease_expired, chunks, outbox,
                   published, broker, publisher, clobbered>>

(* ingestion_lease_seconds pass without a write to the version row.         *)
ExpireLease(v) ==
    /\ LeaseIsFresh(v)
    /\ Fault
    /\ lease_fresh' = [lease_fresh EXCEPT ![v] = FALSE]
    /\ UNCHANGED <<status, document, failure_code, admin, attempt_count, retry_count, attempts,
                   lease_expired, chunks, outbox, published, broker, worker, publisher, stale,
                   clobbered, lost>>

-----------------------------------------------------------------------------
TaskStep(w) ==
    \/ ProviderUnconfigured(w) \/ Drop(w) \/ Start(w)
    \/ FinishExtraction(w) \/ FinishChunking(w) \/ DeleteChunks(w) \/ Finalize(w)
    \/ Raise(w) \/ RecordFailure(w) \/ CeleryRetry(w)

PublishStep(p) ==
    \/ ClaimOwn(p) \/ Enqueue(p) \/ EnqueueFails(p) \/ LoadDocument(p) \/ CommitPublished(p)

Faulty ==
    \/ \E w \in Workers : StartFails(w) \/ Crash(w)
    \/ \E p \in Publishers : PublisherFails(p)
    \/ \E v \in Versions : ExpireLease(v)

Next ==
    \/ \E p \in Publishers, v \in Versions : Upload(p, v)
    \/ \E v \in Versions : Retry(v) \/ AdminWaits(v) \/ AdminRetry(v) \/ AdminRefused(v)
    \/ \E p \in Publishers : PublishStep(p)
    \/ \E p \in Publishers, e \in Events : ClaimPending(p, e)
    \/ \E w \in Workers, v \in Versions, t \in 0 .. MaxTries : Receive(w, v, t)
    \/ \E w \in Workers : TaskStep(w)
    \/ Faulty

Spec == Init /\ [][Next]_vars

-----------------------------------------------------------------------------
(*                               Properties                                 *)

(* A READY version is served by the rows of exactly one attempt, and that   *)
(* attempt succeeded: whatever overlaps, ingest()'s final transaction never *)
(* leaves a partial, mixed or unowned set of chunks behind READY.           *)
ReadyIsIndexed ==
    \A v \in Versions : status[v] = "READY" =>
        \E a \in Attempts : chunks[v] = {a} /\ attempts[v][a] = "succeeded"

(* Attempt numbers are handed out under the row lock of _start_processing():*)
(* no two sessions own one attempt, every owned number was counted, and     *)
(* numbers not counted yet have no row.                                     *)
AttemptsAreOwned ==
    /\ \A w \in Workers : worker[w].attempt # 0 =>
          /\ worker[w].attempt <= attempt_count[worker[w].v]
          /\ \A x \in Workers : x # w /\ worker[x].v = worker[w].v =>
                worker[x].attempt # worker[w].attempt
    /\ \A v \in Versions, a \in Attempts :
          attempts[v][a] = "none" <=> a > attempt_count[v]

InBroker(v) == \E t \in 0 .. MaxTries : broker[v][t] > 0
HeldBefore(v) == \E w \in Workers :
    worker[w].v = v /\ (worker[w].pc = "received"
                        \/ (worker[w].pc = "failing" /\ worker[w].attempt = 0))
WillBeSent(v) == \E e \in Unpublished :
    /\ e[1] = v
    /\ \A p \in Publishers : publisher[p].pc \in {"sent", "loaded"} =>
                                <<publisher[p].v, publisher[p].n>> # e

(* A version that waits is never forgotten: while it is PENDING or QUEUED   *)
(* an event will still be sent, a delivery is in the broker or a worker     *)
(* holds one, except after a delivery died with its worker or a publisher   *)
(* wrote QUEUED over a status it had not seen (outbox/service.py).          *)
WaitingHasCarrier ==
    \A v \in Versions : status[v] \in {"PENDING", "QUEUED"} =>
        \/ WillBeSent(v) \/ InBroker(v) \/ HeldBefore(v)
        \/ v \in lost \/ v \in clobbered

(* A version in a processing status is being processed by a live worker,    *)
(* unless a worker died: no other path of ingest() walks away from it.      *)
ActiveHasWorker ==
    \A v \in Versions : status[v] \in Active =>
        \/ \E w \in Workers : /\ worker[w].v = v /\ worker[w].attempt # 0
                              /\ worker[w].pc \in Processing \cup {"failing"}
        \/ v \in lost

(* The session s acts in this step. *)
Acts(s) == IF s \in Workers THEN worker'[s] # worker[s] ELSE publisher'[s] # publisher[s]

(* The lease excludes: a worker that is up to date on its version is        *)
(* overtaken only once its lease has run out, or by a session that was      *)
(* itself overtaken before.                                                 *)
OvertakenOnlyAfterExpiry ==
    [][\A w \in Workers :
         /\ worker[w].pc \in Processing /\ w \notin stale /\ w \in stale'
         => \/ ~lease_fresh[worker[w].v]
            \/ \E s \in stale : Acts(s)]_vars

(* READY is undone only by a worker entering a stage, or a publisher, whose *)
(* copy of the row is outdated: retries, redeliveries, recorded failures    *)
(* and up-to-date workers all respect it.                                   *)
OnlyStaleSessionsUndoReady ==
    [][\A v \in Versions : status[v] = "READY" /\ status'[v] # "READY" =>
         \E s \in stale : Acts(s) /\ (s \in Workers => worker[s].pc \in Active)]_vars

(* A worker that nobody overtook leaves a clean row: when it makes the      *)
(* version READY the row carries no failure code, although Finalize itself  *)
(* writes none, and its attempt carries no lease-expiry mark.               *)
UndisturbedFinishIsClean ==
    [][\A w \in Workers : Finalize(w) /\ w \notin stale =>
         /\ ~failure_code'[worker[w].v]
         /\ worker[w].attempt \notin lease_expired'[worker[w].v]]_vars

(* Retrieval requires both rows to be READY (retrieval/repository.py): the  *)
(* document says what its version says.  Two exceptions, and only these: a  *)
(* publisher overwrote a status it had not seen (clobbered), or an          *)
(* administrator's retry had waited for the version's lock, and then the    *)
(* version is QUEUED, its document still FAILED, until a worker takes it.   *)
DocumentFollowsVersion ==
    \A v \in Versions :
        /\ admin[v] = "missed" => status[v] = "QUEUED" /\ document[v] = "FAILED"
        /\ admin[v] # "missed" /\ v \notin clobbered =>
              document[v] = IF status[v] = "PENDING" THEN "STORED" ELSE status[v]

(* ingestion/service.py:347 writes "The previous processing attempt did not *)
(* complete." with the code processing_lease_expired: such an attempt is    *)
(* not one that succeeded.                                                  *)
ExpiredAttemptDidNotComplete ==
    \A v \in Versions : \A a \in lease_expired[v] : attempts[v][a] # "succeeded"

-----------------------------------------------------------------------------
(*                    Implementing the abstract index                       *)

(* Retrieval's own test, on both rows (retrieval/repository.py). *)
Searchable(v) == status[v] = "READY" /\ document[v] = "READY"

(* The attempt that owns a version's chunk rows, 0 if there are none. *)
OwnerOf(rowset) == IF rowset = {} THEN 0 ELSE CHOOSE a \in Attempts : a \in rowset

Index == INSTANCE IndexPublication WITH
    index <- [v \in Versions |-> OwnerOf(chunks[v])],
    searchable <- [v \in Versions |-> Searchable(v)],
    spent <- [v \in Versions |-> {a \in Attempts : attempts[v][a] = "succeeded"}]

(* Every step of ingestion publishes one whole new attempt, withdraws a     *)
(* version, or leaves what retrieval can see alone.                         *)
PublishesWholeAttempts == Index!Spec

(* Fairness: worker slots and publishing sessions do not stop by themselves *)
(* (a stop is a fault), beat runs publish_pending every 30 seconds so an    *)
(* event that is claimable again and again is claimed, and the broker does  *)
(* not refuse one session for ever.                                         *)
Fairness ==
    /\ \A w \in Workers :
          /\ WF_vars(TaskStep(w))
          /\ WF_vars(\E v \in Versions, t \in 0 .. MaxTries : Receive(w, v, t))
    /\ \A p \in Publishers : WF_vars(PublishStep(p)) /\ SF_vars(Enqueue(p))
    /\ \A e \in Events : SF_vars(\E p \in Publishers : ClaimPending(p, e))

FairSpec == Spec /\ Fairness

(* Every upload and every accepted retry comes to an end the user can see:  *)
(* READY, or FAILED with the retry button, unless a delivery died with its  *)
(* worker or a late publisher wrote QUEUED over the worker's status.        *)
EveryRequestSettles ==
    \A v \in Versions :
        status[v] \in {"PENDING", "QUEUED"} \cup Active
        ~> \/ status[v] \in {"READY", "FAILED"}
           \/ v \in lost \/ v \in clobbered

(* The outbox is drained: each committed event is eventually published.     *)
EveryEventIsPublished == \A e \in Events : e \in outbox ~> e \in published
=============================================================================

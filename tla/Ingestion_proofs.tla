--------------------------- MODULE Ingestion_proofs ---------------------------
(***************************************************************************)
(* Type correctness of Ingestion, and the invariants of attempts, chunks   *)
(* and live workers, for any number of versions, workers and publishers    *)
(* and any bounds.  Every invariant is proved in the same way: a lemma     *)
(* says that one step preserves it, with one step of the proof for each    *)
(* action that can disturb it, and the theorem adds the initial state.     *)
(***************************************************************************)
EXTENDS Ingestion, TLAPS

USE DEF rows, vars

(* What a session that is not idle holds: the version it works on and, from *)
(* the start of processing, the number of its attempt.                      *)
WorkerHolds(r) ==
    /\ r.pc # "idle" => r.v \in Versions
    /\ r.pc \in Processing => r.attempt # 0
    /\ r.pc \in {"idle", "received"} => r.attempt = 0
PublisherHolds(r) == r.pc # "idle" => r.v \in Versions
SessionsHold ==
    /\ \A w \in Workers : WorkerHolds(worker[w])
    /\ \A p \in Publishers : PublisherHolds(publisher[p])

TypeInv == TypeOK /\ SessionsHold

(* The steps of Next as the proofs divide them: both kinds of retry commit  *)
(* the same rows but the document, and an administrator who begins to wait  *)
(* or is refused changes nothing else.                                      *)
AnyRetry(v) == Retry(v) \/ AdminRetry(v)
Unmoved == UNCHANGED <<status, document, lease_fresh, failure_code, attempt_count, retry_count,
                       attempts, lease_expired, chunks, outbox, published, broker, worker,
                       publisher, stale, clobbered, lost, faults>>
USE DEF AnyRetry, Unmoved

AnyStep ==
    \/ \E p \in Publishers, v \in Versions : Upload(p, v)
    \/ \E v \in Versions : AnyRetry(v)
    \/ \E p \in Publishers : PublishStep(p)
    \/ \E p \in Publishers, e \in Events : ClaimPending(p, e)
    \/ \E w \in Workers, v \in Versions, t \in 0 .. MaxTries : Receive(w, v, t)
    \/ \E w \in Workers : TaskStep(w)
    \/ Faulty
    \/ Unmoved

LEMMA StepParts == [Next]_vars => AnyStep
<1>1. ASSUME NEW v \in Versions, AdminWaits(v) \/ AdminRefused(v) PROVE Unmoved
  BY <1>1 DEF AdminWaits, AdminRefused
<1> QED
  BY <1>1 DEF AnyStep, Next

LEMMA IdleSessions ==
    /\ IdleWorker \in WorkerState /\ IdleWorker.pc = "idle" /\ IdleWorker.attempt = 0
    /\ IdleWorker.v = Nil /\ IdleWorker.deleted = {} /\ IdleWorker.transient = FALSE
    /\ IdleWorker.tries = 0
    /\ IdlePublisher \in PublisherState /\ IdlePublisher.pc = "idle"
    /\ IdlePublisher.v = Nil
BY BoundsAreNaturals DEF IdleWorker, IdlePublisher, WorkerState, PublisherState, Status,
     DocumentStatus, Attempts

LEMMA IdleHolds == WorkerHolds(IdleWorker) /\ PublisherHolds(IdlePublisher)
BY IdleSessions DEF WorkerHolds, PublisherHolds, Processing, Active

-----------------------------------------------------------------------------
(*                              Type correctness                            *)

(* The session records, once and for all: an action that replaces one       *)
(* record by a well-formed one keeps every session well-formed.             *)
SessionsTyped ==
    /\ worker \in [Workers -> WorkerState]
    /\ publisher \in [Publishers -> PublisherState]
    /\ SessionsHold

LEMMA WorkerMoves ==
    ASSUME TypeInv, NEW w \in Workers, NEW r \in WorkerState, WorkerHolds(r),
           worker' = [worker EXCEPT ![w] = r], UNCHANGED publisher
    PROVE  SessionsTyped'
BY DEF TypeInv, TypeOK, SessionsTyped, SessionsHold, WorkerHolds, PublisherHolds

LEMMA PublisherMoves ==
    ASSUME TypeInv, NEW p \in Publishers, NEW r \in PublisherState, PublisherHolds(r),
           publisher' = [publisher EXCEPT ![p] = r], UNCHANGED worker
    PROVE  SessionsTyped'
BY DEF TypeInv, TypeOK, SessionsTyped, SessionsHold, WorkerHolds, PublisherHolds

LEMMA SessionsStay ==
    ASSUME TypeInv, UNCHANGED <<worker, publisher>>
    PROVE  SessionsTyped'
BY DEF TypeInv, TypeOK, SessionsTyped, SessionsHold, WorkerHolds, PublisherHolds

LEMMA WorkerRecord ==
    ASSUME TypeInv, NEW w \in Workers
    PROVE  /\ worker[w] \in WorkerState /\ WorkerHolds(worker[w])
           /\ worker[w].pc # "idle" => worker[w].v \in Versions
           /\ worker[w].pc \in Processing => worker[w].attempt \in Attempts
<1>1. worker[w] \in WorkerState /\ WorkerHolds(worker[w])
  BY DEF TypeInv, TypeOK, SessionsHold
<1> QED
  BY <1>1, BoundsAreNaturals DEF WorkerState, WorkerHolds, Attempts

LEMMA PublisherRecord ==
    ASSUME TypeInv, NEW p \in Publishers
    PROVE  /\ publisher[p] \in PublisherState
           /\ publisher[p].pc # "idle" => publisher[p].v \in Versions
BY DEF TypeInv, TypeOK, SessionsHold, PublisherHolds

LEMMA UpdatedTyped ==
    ASSUME TypeInv, NEW v \in Versions, DocumentUpdated(v)
    PROVE  admin' \in [Versions -> AdminState]
BY DEF TypeInv, TypeOK, DocumentUpdated, AdminState

LEMMA UploadTyped ==
    ASSUME TypeInv, NEW p \in Publishers, NEW v \in Versions, Upload(p, v)
    PROVE  TypeInv'
<1>1. SessionsTyped'
  <2> DEFINE r == [pc |-> "uploaded", v |-> v, n |-> 0, seen |-> "PENDING",
                   document |-> "STORED"]
  <2>1. r \in PublisherState /\ PublisherHolds(r)
    BY BoundsAreNaturals DEF PublisherState, PublisherHolds, Status, DocumentStatus
  <2> QED
    BY <2>1, PublisherMoves DEF Upload
<1>2. admin' \in [Versions -> AdminState]
  BY UpdatedTyped DEF Upload, WriteDocument
<1>3. /\ status' \in [Versions -> Status] /\ document' \in [Versions -> DocumentStatus]
      /\ lease_fresh' \in [Versions -> BOOLEAN]
  BY DEF TypeInv, TypeOK, Upload, WriteStatus, WriteDocument, Status, DocumentStatus
<1>4. outbox' \in SUBSET Events
  BY BoundsAreNaturals DEF TypeInv, TypeOK, Upload, Events
<1> QED
  BY <1>1, <1>2, <1>3, <1>4 DEF TypeInv, TypeOK, SessionsTyped, Upload

LEMMA RetryTyped ==
    ASSUME TypeInv, NEW v \in Versions, AnyRetry(v)
    PROVE  TypeInv'
<1>0. RetryCommits(v)
  BY DEF Retry, AdminRetry
<1>1. SessionsTyped'
  BY <1>0, SessionsStay DEF RetryCommits
<1>2. retry_count' \in [Versions -> 0 .. MaxUserRetries] /\ outbox' \in SUBSET Events
  BY <1>0, BoundsAreNaturals DEF TypeInv, TypeOK, RetryCommits, RetryEvent, Events
<1>3. document' \in [Versions -> DocumentStatus] /\ admin' \in [Versions -> AdminState]
  BY DEF TypeInv, TypeOK, Retry, AdminRetry, WriteDocument, DocumentUpdated, DocumentStatus,
     AdminState
<1> QED
  BY <1>0, <1>1, <1>2, <1>3 DEF TypeInv, TypeOK, SessionsTyped, RetryCommits, WriteStatus,
     ClearFailure, Status, Copies, Sessions

LEMMA AdminTyped ==
    ASSUME TypeInv, NEW v \in Versions, AdminWaits(v) \/ AdminRefused(v)
    PROVE  TypeInv'
<1>1. SessionsTyped'
  BY SessionsStay DEF AdminWaits, AdminRefused
<1>2. admin' \in [Versions -> AdminState]
  BY DEF TypeInv, TypeOK, AdminWaits, AdminRefused, AdminState
<1> QED
  BY <1>1, <1>2 DEF TypeInv, TypeOK, SessionsTyped, AdminWaits, AdminRefused

LEMMA ClaimTyped ==
    ASSUME TypeInv, NEW p \in Publishers,
           ClaimOwn(p) \/ \E e \in Events : ClaimPending(p, e)
    PROVE  TypeInv'
<1>1. CASE ClaimOwn(p)
  <2>1. SessionsTyped'
    <3>1. CASE publisher' = [publisher EXCEPT ![p] = IdlePublisher]
      BY <1>1, <3>1, IdleSessions, IdleHolds, PublisherMoves DEF ClaimOwn
    <3>2. CASE publisher' = [publisher EXCEPT ![p].pc = "claimed"]
      <4>1. [publisher[p] EXCEPT !.pc = "claimed"] \in PublisherState
        BY PublisherRecord DEF PublisherState
      <4>2. PublisherHolds([publisher[p] EXCEPT !.pc = "claimed"])
        BY <1>1, PublisherRecord DEF PublisherState, PublisherHolds, ClaimOwn
      <4> QED
        BY <1>1, <3>2, <4>1, <4>2, PublisherMoves DEF ClaimOwn
    <3> QED
      BY <1>1, <3>1, <3>2 DEF ClaimOwn
  <2> QED
    BY <1>1, <2>1 DEF TypeInv, TypeOK, SessionsTyped, ClaimOwn
<1>2. ASSUME NEW e \in Events, ClaimPending(p, e) PROVE TypeInv'
  <2> DEFINE r == [pc |-> "claimed", v |-> e[1], n |-> e[2], seen |-> status[e[1]],
                   document |-> "absent"]
  <2>1. r \in PublisherState /\ PublisherHolds(r)
    BY DEF PublisherState, PublisherHolds, DocumentStatus, Events, TypeInv, TypeOK
  <2>2. SessionsTyped'
    BY <1>2, <2>1, PublisherMoves DEF ClaimPending
  <2> QED
    BY <1>2, <2>2 DEF TypeInv, TypeOK, SessionsTyped, ClaimPending
<1> QED
  BY <1>1, <1>2

LEMMA EnqueueTyped ==
    ASSUME TypeInv, NEW p \in Publishers, Enqueue(p)
    PROVE  TypeInv'
<1>1. publisher[p] \in PublisherState /\ publisher[p].v \in Versions
  BY PublisherRecord DEF Enqueue
<1>2. SessionsTyped'
  <2> DEFINE r == [publisher[p] EXCEPT !.pc =
                     IF publisher[p].document = "STORED" THEN "loaded" ELSE "sent"]
  <2>1. r \in PublisherState /\ PublisherHolds(r)
    BY <1>1 DEF PublisherState, PublisherHolds
  <2> QED
    BY <2>1, PublisherMoves DEF Enqueue
<1>3. broker' \in [Versions -> [0 .. MaxTries -> Nat]]
  <2> PICK u \in Versions : u = publisher[p].v
    BY <1>1
  <2>1. broker \in [Versions -> [0 .. MaxTries -> Nat]] /\ 0 \in 0 .. MaxTries
    BY BoundsAreNaturals DEF TypeInv, TypeOK
  <2>2. [broker[u] EXCEPT ![0] = @ + 1] \in [0 .. MaxTries -> Nat]
    <3> PICK queue \in [0 .. MaxTries -> Nat] : queue = broker[u]
      BY <2>1
    <3> QED
      BY <2>1, BoundsAreNaturals
  <2>3. broker' = [broker EXCEPT ![u] = [broker[u] EXCEPT ![0] = @ + 1]]
    BY <2>1 DEF Enqueue
  <2> QED
    BY <2>1, <2>2, <2>3
<1> QED
  BY <1>2, <1>3 DEF TypeInv, TypeOK, SessionsTyped, Enqueue

LEMMA PublisherEndsTyped ==
    ASSUME TypeInv, NEW p \in Publishers, EnqueueFails(p) \/ PublisherFails(p)
    PROVE  TypeInv'
<1>1. SessionsTyped'
  BY IdleSessions, IdleHolds, PublisherMoves DEF EnqueueFails, PublisherFails
<1> QED
  BY <1>1, BoundsAreNaturals DEF TypeInv, TypeOK, SessionsTyped, EnqueueFails, PublisherFails,
     Fault

LEMMA LoadDocumentTyped ==
    ASSUME TypeInv, NEW p \in Publishers, LoadDocument(p)
    PROVE  TypeInv'
<1>1. publisher[p] \in PublisherState /\ publisher[p].v \in Versions
  BY PublisherRecord DEF LoadDocument
<1>2. SessionsTyped'
  <2> DEFINE r == [publisher[p] EXCEPT !.pc = "loaded",
                                       !.document = document[publisher[p].v]]
  <2>1. r \in PublisherState /\ PublisherHolds(r)
    BY <1>1 DEF PublisherState, PublisherHolds, TypeInv, TypeOK
  <2> QED
    <3>1. publisher' = [publisher EXCEPT ![p] = r]
      BY DEF LoadDocument, TypeInv, TypeOK
    <3> QED
      BY <2>1, <3>1, PublisherMoves DEF LoadDocument
<1> QED
  BY <1>2 DEF TypeInv, TypeOK, SessionsTyped, LoadDocument

LEMMA CommitPublishedTyped ==
    ASSUME TypeInv, NEW p \in Publishers, CommitPublished(p)
    PROVE  TypeInv'
<1>1. publisher[p] \in PublisherState /\ publisher[p].v \in Versions
  BY PublisherRecord DEF CommitPublished
<1>2. SessionsTyped'
  BY IdleSessions, IdleHolds, PublisherMoves DEF CommitPublished
<1>3. published' \in SUBSET Events
  BY <1>1 DEF TypeInv, TypeOK, CommitPublished, PublisherState, Events
<1>4. CASE Requeues(p)
  <2>1. status' \in [Versions -> Status] /\ lease_fresh' \in [Versions -> BOOLEAN]
    BY <1>1, <1>4 DEF TypeInv, TypeOK, CommitPublished, WriteStatus, Status
  <2>3. document' \in [Versions -> DocumentStatus] /\ admin' \in [Versions -> AdminState]
    BY <1>1, <1>4 DEF TypeInv, TypeOK, CommitPublished, WriteDocument, DocumentUpdated,
       DocumentStatus, AdminState
  <2>4. clobbered' \in SUBSET Versions
    BY <1>1, <1>4 DEF TypeInv, TypeOK, CommitPublished
  <2>2. stale' \in SUBSET Sessions
    BY <1>4 DEF TypeInv, TypeOK, CommitPublished, Copies, Sessions
  <2> QED
    BY <1>2, <1>3, <2>1, <2>2, <2>3, <2>4 DEF TypeInv, TypeOK, SessionsTyped, CommitPublished
<1>5. CASE ~Requeues(p)
  BY <1>2, <1>3, <1>5 DEF TypeInv, TypeOK, SessionsTyped, CommitPublished
<1> QED
  BY <1>4, <1>5

LEMMA ReceiveTyped ==
    ASSUME TypeInv, NEW w \in Workers, NEW v \in Versions, NEW t \in 0 .. MaxTries,
           Receive(w, v, t)
    PROVE  TypeInv'
<1>1. SessionsTyped'
  <2> DEFINE r == [IdleWorker EXCEPT !.pc = "received", !.v = v, !.tries = t]
  <2>1. r \in WorkerState /\ WorkerHolds(r)
    BY IdleSessions DEF WorkerState, WorkerHolds, Processing, Active
  <2> QED
    BY <2>1, WorkerMoves DEF Receive
<1>2. broker' \in [Versions -> [0 .. MaxTries -> Nat]]
  <2>1. broker[v][t] - 1 \in Nat
    <3>1. broker[v] \in [0 .. MaxTries -> Nat]
      BY DEF TypeInv, TypeOK
    <3> QED
      BY <3>1, BoundsAreNaturals DEF Receive, Deliverable
  <2> QED
    BY <2>1 DEF TypeInv, TypeOK, Receive
<1> QED
  BY <1>1, <1>2 DEF TypeInv, TypeOK, SessionsTyped, Receive

LEMMA WorkerEndsTyped ==
    ASSUME TypeInv, NEW w \in Workers, ProviderUnconfigured(w) \/ Drop(w) \/ Crash(w)
    PROVE  TypeInv'
<1>1. SessionsTyped'
  BY IdleSessions, IdleHolds, WorkerMoves DEF ProviderUnconfigured, Drop, Crash
<1>2. lost' \in SUBSET Versions
  <2>1. worker[w].pc # "idle" /\ worker[w].v \in Versions
    BY WorkerRecord DEF ProviderUnconfigured, Drop, Crash
  <2> QED
    BY <2>1 DEF TypeInv, TypeOK, ProviderUnconfigured, Drop, Crash
<1>3. faults' \in 0 .. MaxFaults /\ stale' \in SUBSET Sessions
  BY BoundsAreNaturals DEF TypeInv, TypeOK, ProviderUnconfigured, Drop, Crash, Fault
<1> QED
  BY <1>1, <1>2, <1>3 DEF TypeInv, TypeOK, SessionsTyped, ProviderUnconfigured, Drop, Crash

LEMMA StartTyped ==
    ASSUME TypeInv, NEW w \in Workers, Start(w)
    PROVE  TypeInv'
<1> DEFINE v == worker[w].v
           a == NextAttempt(v)
<1>1. v \in Versions /\ a \in Attempts /\ worker[w] \in WorkerState
  BY WorkerRecord DEF Start
<1>2. SessionsTyped'
  <2> DEFINE r == [worker[w] EXCEPT !.pc = "EXTRACTING", !.attempt = a]
  <2>0. a \in 0 .. MaxAttempts /\ a # 0
    BY <1>1, BoundsAreNaturals DEF Attempts
  <2>1. r \in WorkerState /\ WorkerHolds(r)
    BY <1>1, <2>0 DEF WorkerState, WorkerHolds, Processing, Active
  <2> QED
    <3>1. worker' = [worker EXCEPT ![w] = r]
      BY DEF Start, TypeInv, TypeOK
    <3> QED
      BY <2>1, <3>1, WorkerMoves DEF Start
<1>3. attempts' \in [Versions -> [Attempts -> AttemptStatus]]
  BY <1>1 DEF TypeInv, TypeOK, Start, AttemptStatus, Active
<1>4. lease_expired' \in [Versions -> SUBSET Attempts]
  BY <1>1 DEF TypeInv, TypeOK, Start, LatestActive
<1>5. attempt_count' \in [Versions -> 0 .. MaxAttempts]
  BY <1>1, BoundsAreNaturals DEF TypeInv, TypeOK, Start, Attempts
<1>6. admin' \in [Versions -> AdminState]
  BY <1>1, UpdatedTyped DEF Start, WriteDocument
<1> QED
  BY <1>1, <1>2, <1>3, <1>4, <1>5, <1>6 DEF TypeInv, TypeOK, SessionsTyped, Start, WriteStatus,
     WriteDocument, ClearFailure, Status, DocumentStatus, Active, Copies, Sessions

LEMMA StartFailsTyped ==
    ASSUME TypeInv, NEW w \in Workers, StartFails(w)
    PROVE  TypeInv'
<1>1. worker[w] \in WorkerState /\ worker[w].v \in Versions
  BY WorkerRecord DEF StartFails
<1>2. SessionsTyped'
  <2> DEFINE r == [worker[w] EXCEPT !.pc = "failing"]
  <2>1. r \in WorkerState /\ WorkerHolds(r)
    BY <1>1 DEF WorkerState, WorkerHolds, Processing, Active
  <2> QED
    BY <2>1, WorkerMoves DEF StartFails
<1> QED
  BY <1>2, BoundsAreNaturals DEF TypeInv, TypeOK, SessionsTyped, StartFails, Fault

LEMMA EnterStageTyped ==
    ASSUME TypeInv, NEW w \in Workers, NEW from \in Active, NEW to \in Active,
           EnterStage(w, from, to)
    PROVE  TypeInv'
<1> DEFINE v == worker[w].v
<1>1. v \in Versions /\ worker[w] \in WorkerState /\ worker[w].attempt \in Attempts
  BY WorkerRecord DEF EnterStage, Processing, Active
<1>2. SessionsTyped'
  <2> DEFINE r == [worker[w] EXCEPT !.pc = to]
  <2>1. r \in WorkerState /\ WorkerHolds(r)
    BY <1>1 DEF WorkerState, WorkerHolds, Processing, Active, Attempts
  <2> QED
    BY <2>1, WorkerMoves DEF EnterStage
<1>3. attempts' \in [Versions -> [Attempts -> AttemptStatus]]
  BY <1>1 DEF TypeInv, TypeOK, EnterStage, AttemptStatus
<1>4. admin' \in [Versions -> AdminState]
  BY <1>1, UpdatedTyped DEF EnterStage, WriteDocument
<1> QED
  BY <1>1, <1>2, <1>3, <1>4 DEF TypeInv, TypeOK, SessionsTyped, EnterStage, WriteStatus,
     WriteDocument, Status, DocumentStatus, Copies, Sessions

LEMMA DeleteOrRaiseTyped ==
    ASSUME TypeInv, NEW w \in Workers, DeleteChunks(w) \/ Raise(w)
    PROVE  TypeInv'
<1>1. worker[w] \in WorkerState /\ worker[w].v \in Versions /\ worker[w].attempt \in Attempts
  BY WorkerRecord DEF DeleteChunks, Raise, Processing, Active
<1>2. CASE DeleteChunks(w)
  <2> DEFINE r == [worker[w] EXCEPT !.pc = "REPLACING", !.deleted = chunks[worker[w].v]]
  <2>1. r \in WorkerState /\ WorkerHolds(r)
    <3>1. chunks[worker[w].v] \in SUBSET Attempts /\ worker[w].attempt # 0
      BY <1>1, <1>2, WorkerRecord, BoundsAreNaturals DEF TypeInv, TypeOK, Attempts
    <3> QED
      BY <1>1, <3>1 DEF WorkerState, WorkerHolds, Processing, Active
  <2>2. SessionsTyped'
    <3>1. worker' = [worker EXCEPT ![w] = r]
      BY <1>2 DEF DeleteChunks, TypeInv, TypeOK
    <3> QED
      BY <1>2, <2>1, <3>1, WorkerMoves DEF DeleteChunks
  <2> QED
    BY <1>2, <2>2 DEF TypeInv, TypeOK, SessionsTyped, DeleteChunks
<1>3. CASE Raise(w)
  <2>1. PICK transient \in BOOLEAN :
          worker' = [worker EXCEPT ![w].pc = "failing", ![w].transient = transient,
                                   ![w].deleted = {}]
    BY <1>3 DEF Raise
  <2> DEFINE r == [worker[w] EXCEPT !.pc = "failing", !.transient = transient,
                                    !.deleted = {}]
  <2>2. r \in WorkerState /\ WorkerHolds(r)
    BY <1>1 DEF WorkerState, WorkerHolds, Processing, Active
  <2>3. SessionsTyped'
    <3>1. worker' = [worker EXCEPT ![w] = r]
      BY <2>1 DEF TypeInv, TypeOK
    <3> QED
      BY <1>3, <2>2, <3>1, WorkerMoves DEF Raise
  <2> QED
    BY <1>3, <2>3 DEF TypeInv, TypeOK, SessionsTyped, Raise
<1> QED
  BY <1>2, <1>3

LEMMA FinalizeTyped ==
    ASSUME TypeInv, NEW w \in Workers, Finalize(w)
    PROVE  TypeInv'
<1> DEFINE v == worker[w].v
<1>1. v \in Versions /\ worker[w].attempt \in Attempts
  BY WorkerRecord DEF Finalize, Processing
<1>2. SessionsTyped'
  BY IdleSessions, IdleHolds, WorkerMoves DEF Finalize
<1>3. chunks' \in [Versions -> SUBSET Attempts]
  BY <1>1 DEF TypeInv, TypeOK, Finalize, Replaced
<1>4. attempts' \in [Versions -> [Attempts -> AttemptStatus]]
  BY <1>1 DEF TypeInv, TypeOK, Finalize, AttemptStatus
<1>5. admin' \in [Versions -> AdminState]
  BY <1>1, UpdatedTyped DEF Finalize, WriteDocument
<1> QED
  BY <1>1, <1>2, <1>3, <1>4, <1>5 DEF TypeInv, TypeOK, SessionsTyped, Finalize, WriteStatus,
     WriteDocument, Status, DocumentStatus, Copies, Sessions

LEMMA RecordFailureTyped ==
    ASSUME TypeInv, NEW w \in Workers, RecordFailure(w)
    PROVE  TypeInv'
<1> DEFINE v == worker[w].v
<1>1. v \in Versions /\ worker[w] \in WorkerState
  BY WorkerRecord DEF RecordFailure
<1>2. SessionsTyped'
  <2> DEFINE r == IF worker[w].transient THEN [worker[w] EXCEPT !.pc = "raised"]
                                          ELSE IdleWorker
  <2>1. r \in WorkerState /\ WorkerHolds(r)
    BY <1>1, IdleSessions, IdleHolds DEF WorkerState, WorkerHolds, Processing, Active
  <2> QED
    BY <2>1, WorkerMoves DEF RecordFailure
<1>3. attempts' \in [Versions -> [Attempts -> AttemptStatus]]
  <2>1. CASE KeepsStatus(v)
    BY <2>1 DEF TypeInv, TypeOK, RecordFailure
  <2>2. CASE ~KeepsStatus(v)
    <3>1. attempts' = [attempts EXCEPT ![v] = [b \in Attempts |->
                         IF b = worker[w].attempt THEN "failed" ELSE attempts[v][b]]]
      BY <2>2 DEF RecordFailure
    <3> QED
      BY <1>1, <3>1 DEF TypeInv, TypeOK, AttemptStatus
  <2> QED
    BY <2>1, <2>2
<1>4. lease_expired' \in [Versions -> SUBSET Attempts]
  <2>1. CASE KeepsStatus(v)
    BY <2>1 DEF TypeInv, TypeOK, RecordFailure
  <2>2. CASE ~KeepsStatus(v)
    <3>1. lease_expired' = [lease_expired EXCEPT ![v] = @ \ {worker[w].attempt}]
      BY <2>2 DEF RecordFailure
    <3> QED
      BY <1>1, <3>1 DEF TypeInv, TypeOK
  <2> QED
    BY <2>1, <2>2
<1>5. stale' \in SUBSET Sessions /\ clobbered' \in SUBSET Versions
  BY <1>1 DEF TypeInv, TypeOK, RecordFailure, Copies, Sessions
<1>6. /\ status' \in [Versions -> Status] /\ document' \in [Versions -> DocumentStatus]
      /\ lease_fresh' \in [Versions -> BOOLEAN] /\ failure_code' \in [Versions -> BOOLEAN]
  BY <1>1 DEF TypeInv, TypeOK, RecordFailure, WriteStatus, WriteDocument, Status, DocumentStatus
<1>7. admin' \in [Versions -> AdminState]
  BY <1>1, UpdatedTyped DEF TypeInv, TypeOK, RecordFailure, WriteDocument
<1> QED
  BY <1>2, <1>3, <1>4, <1>5, <1>6, <1>7 DEF TypeInv, TypeOK, SessionsTyped, RecordFailure

LEMMA CeleryRetryTyped ==
    ASSUME TypeInv, NEW w \in Workers, CeleryRetry(w)
    PROVE  TypeInv'
<1> DEFINE v == worker[w].v
           t == worker[w].tries
<1>1. v \in Versions /\ t \in 0 .. MaxTries
  BY WorkerRecord DEF CeleryRetry, WorkerState
<1>2. SessionsTyped'
  BY IdleSessions, IdleHolds, WorkerMoves DEF CeleryRetry
<1>3. broker' \in [Versions -> [0 .. MaxTries -> Nat]]
  <2>1. CASE t < MaxTries
    <3>1. t + 1 \in 0 .. MaxTries
      BY <1>1, <2>1, BoundsAreNaturals
    <3>2. broker[v] \in [0 .. MaxTries -> Nat]
      BY <1>1 DEF TypeInv, TypeOK
    <3>3. broker[v][t + 1] + 1 \in Nat
      <4>1. \A i \in 0 .. MaxTries : broker[v][i] \in Nat
        BY <3>2
      <4> HIDE DEF t
      <4> QED
        BY <3>1, <4>1
    <3> QED
      BY <1>1, <2>1, <3>1, <3>3 DEF TypeInv, TypeOK, CeleryRetry
  <2>2. CASE ~(t < MaxTries)
    BY <2>2 DEF TypeInv, TypeOK, CeleryRetry
  <2> QED
    BY <2>1, <2>2
<1> QED
  BY <1>2, <1>3 DEF TypeInv, TypeOK, SessionsTyped, CeleryRetry

LEMMA ExpireLeaseTyped ==
    ASSUME TypeInv, NEW v \in Versions, ExpireLease(v)
    PROVE  TypeInv'
<1>1. SessionsTyped'
  BY SessionsStay DEF ExpireLease
<1> QED
  BY <1>1, BoundsAreNaturals DEF TypeInv, TypeOK, SessionsTyped, ExpireLease, Fault

(* The steps of Next, as the proofs below divide it. *)
LEMMA TypeInvStep == TypeInv /\ [Next]_vars => TypeInv'
<1> SUFFICES ASSUME TypeInv, [Next]_vars PROVE TypeInv'
  OBVIOUS
<1>1. ASSUME NEW p \in Publishers, NEW v \in Versions, Upload(p, v) PROVE TypeInv'
  BY <1>1, UploadTyped
<1>2. ASSUME NEW v \in Versions, AnyRetry(v) \/ AdminWaits(v) \/ AdminRefused(v)
      PROVE  TypeInv'
  BY <1>2, RetryTyped, AdminTyped
<1>3. ASSUME NEW p \in Publishers, PublishStep(p) PROVE TypeInv'
  BY <1>3, ClaimTyped, EnqueueTyped, PublisherEndsTyped, LoadDocumentTyped,
     CommitPublishedTyped DEF PublishStep
<1>4. ASSUME NEW p \in Publishers, NEW e \in Events, ClaimPending(p, e) PROVE TypeInv'
  BY <1>4, ClaimTyped
<1>5. ASSUME NEW w \in Workers, NEW v \in Versions, NEW t \in 0 .. MaxTries, Receive(w, v, t)
      PROVE  TypeInv'
  BY <1>5, ReceiveTyped
<1>6. ASSUME NEW w \in Workers, TaskStep(w) PROVE TypeInv'
  <2>1. CASE FinishExtraction(w) \/ FinishChunking(w)
    BY <2>1, EnterStageTyped DEF FinishExtraction, FinishChunking, Active
  <2> QED
    BY <1>6, <2>1, WorkerEndsTyped, StartTyped, DeleteOrRaiseTyped, FinalizeTyped,
       RecordFailureTyped, CeleryRetryTyped DEF TaskStep
<1>7. CASE Faulty
  BY <1>7, StartFailsTyped, WorkerEndsTyped, PublisherEndsTyped, ExpireLeaseTyped DEF Faulty
<1>8. CASE UNCHANGED vars
  <2>1. SessionsTyped'
    BY <1>8, SessionsStay
  <2> QED
    BY <1>8, <2>1 DEF TypeInv, TypeOK, SessionsTyped
<1> QED
  BY <1>1, <1>2, <1>3, <1>4, <1>5, <1>6, <1>7, <1>8 DEF Next

LEMMA InitTypeInv == Init => TypeInv
<1> SUFFICES ASSUME Init PROVE TypeInv
  OBVIOUS
<1>1. SessionsTyped
  BY IdleSessions, IdleHolds DEF Init, SessionsTyped, SessionsHold
<1> QED
  BY <1>1, BoundsAreNaturals DEF Init, TypeInv, TypeOK, SessionsTyped, Status, DocumentStatus,
     AttemptStatus, AdminState

(* Every variable keeps its type, and every busy session its version. *)
THEOREM TypeCorrect == Spec => []TypeInv
<1> QED
  BY InitTypeInv, TypeInvStep, PTL DEF Spec

(* The type invariant the model-checking runs check. *)
THEOREM TypeSafety == Spec => []TypeOK
<1>1. TypeInv => TypeOK
  BY DEF TypeInv
<1> QED
  BY <1>1, TypeCorrect, PTL

-----------------------------------------------------------------------------
(*                           Attempts and their owners                      *)

(* A step that gives w no attempt, or leaves w its attempt, and counts no   *)
(* attempt, keeps the owners distinct and counted.                          *)
OwnersDistinct ==
    \A w \in Workers : worker[w].attempt # 0 =>
       /\ worker[w].attempt <= attempt_count[worker[w].v]
       /\ \A x \in Workers : x # w /\ worker[x].v = worker[w].v =>
             worker[x].attempt # worker[w].attempt
NumbersCounted ==
    \A v \in Versions, a \in Attempts : attempts[v][a] = "none" <=> a > attempt_count[v]

LEMMA OwnedParts == AttemptsAreOwned <=> OwnersDistinct /\ NumbersCounted
BY DEF AttemptsAreOwned, OwnersDistinct, NumbersCounted

LEMMA OwnersKept ==
    ASSUME TypeInv, OwnersDistinct, NEW w \in Workers, NEW r \in WorkerState,
           worker' = [worker EXCEPT ![w] = r], UNCHANGED attempt_count,
           r.attempt = 0 \/ (r.attempt = worker[w].attempt /\ r.v = worker[w].v)
    PROVE  OwnersDistinct'
BY DEF TypeInv, TypeOK, OwnersDistinct

(* What each action of a worker does to its record and to attempt numbers.  *)
WorkerGoesOn(w) ==
    /\ \E r \in WorkerState :
          /\ worker' = [worker EXCEPT ![w] = r]
          /\ r.attempt = 0 \/ (r.attempt = worker[w].attempt /\ r.v = worker[w].v)
    /\ UNCHANGED attempt_count

LEMMA WorkersGoOn ==
    ASSUME TypeInv, NEW w \in Workers,
           \/ TaskStep(w) /\ ~Start(w)
           \/ StartFails(w) \/ Crash(w)
           \/ \E v \in Versions, t \in 0 .. MaxTries : Receive(w, v, t)
    PROVE  WorkerGoesOn(w)
<1> USE DEF WorkerGoesOn
<1>1. worker[w] \in WorkerState /\ worker \in [Workers -> WorkerState]
  BY WorkerRecord DEF TypeInv, TypeOK
<1>2. CASE ProviderUnconfigured(w) \/ Drop(w) \/ Finalize(w) \/ CeleryRetry(w) \/ Crash(w)
  BY <1>2, IdleSessions DEF ProviderUnconfigured, Drop, Finalize, CeleryRetry, Crash
<1>3. CASE FinishExtraction(w) \/ FinishChunking(w) \/ StartFails(w)
  <2>1. PICK pc \in {"CHUNKING", "EMBEDDING", "failing"} :
           worker' = [worker EXCEPT ![w] = [worker[w] EXCEPT !.pc = pc]]
    BY <1>3 DEF FinishExtraction, FinishChunking, StartFails, EnterStage
  <2> DEFINE r == [worker[w] EXCEPT !.pc = pc]
  <2>2. r \in WorkerState /\ r.attempt = worker[w].attempt /\ r.v = worker[w].v
    BY <1>1 DEF WorkerState, Processing, Active
  <2> QED
    BY <1>3, <2>1, <2>2 DEF FinishExtraction, FinishChunking, StartFails, EnterStage
<1>4. CASE DeleteChunks(w)
  <2> DEFINE r == [worker[w] EXCEPT !.pc = "REPLACING", !.deleted = chunks[worker[w].v]]
  <2>1. chunks[worker[w].v] \in SUBSET Attempts
    BY <1>4, WorkerRecord DEF TypeInv, TypeOK, DeleteChunks
  <2>2. r \in WorkerState /\ r.attempt = worker[w].attempt /\ r.v = worker[w].v
    BY <1>1, <2>1 DEF WorkerState, Processing, Active
  <2>3. worker' = [worker EXCEPT ![w] = r]
    BY <1>1, <1>4 DEF DeleteChunks
  <2> QED
    BY <1>4, <2>2, <2>3 DEF DeleteChunks
<1>5. CASE Raise(w)
  <2>1. PICK transient \in BOOLEAN :
          worker' = [worker EXCEPT ![w].pc = "failing", ![w].transient = transient,
                                   ![w].deleted = {}]
    BY <1>5 DEF Raise
  <2> DEFINE r == [worker[w] EXCEPT !.pc = "failing", !.transient = transient,
                                    !.deleted = {}]
  <2>2. r \in WorkerState /\ r.attempt = worker[w].attempt /\ r.v = worker[w].v
    BY <1>1 DEF WorkerState, Processing, Active
  <2>3. worker' = [worker EXCEPT ![w] = r]
    BY <1>1, <2>1
  <2> QED
    BY <1>5, <2>2, <2>3 DEF Raise
<1>6. CASE RecordFailure(w)
  <2> DEFINE r == IF worker[w].transient THEN [worker[w] EXCEPT !.pc = "raised"]
                                         ELSE IdleWorker
  <2>1. r \in WorkerState /\ (r.attempt = 0 \/ (r.attempt = worker[w].attempt /\ r.v = worker[w].v))
    BY <1>1, IdleSessions DEF WorkerState
  <2> QED
    BY <1>6, <2>1 DEF RecordFailure
<1>7. ASSUME NEW v \in Versions, NEW t \in 0 .. MaxTries, Receive(w, v, t)
      PROVE  WorkerGoesOn(w)
  <2> DEFINE r == [IdleWorker EXCEPT !.pc = "received", !.v = v, !.tries = t]
  <2>1. r \in WorkerState /\ r.attempt = 0
    BY IdleSessions DEF WorkerState
  <2> QED
    BY <1>7, <2>1 DEF Receive
<1> QED
  BY <1>2, <1>3, <1>4, <1>5, <1>6, <1>7 DEF TaskStep

(* A version's attempt rows may be rewritten so long as the same numbers    *)
(* have one; a counted number may get its row with the count.               *)
LEMMA RowsRewritten ==
    ASSUME TypeInv, NumbersCounted, NEW v \in Versions, NEW row, NEW n \in Nat,
           attempts' = [attempts EXCEPT ![v] = row],
           attempt_count' = [attempt_count EXCEPT ![v] = n],
           \A b \in Attempts : row[b] = "none" <=> b > n
    PROVE  NumbersCounted'
<1> SUFFICES ASSUME NEW u \in Versions, NEW b \in Attempts
             PROVE  attempts'[u][b] = "none" <=> b > attempt_count'[u]
  BY DEF NumbersCounted
<1>1. attempts \in [Versions -> [Attempts -> AttemptStatus]]
      /\ attempt_count \in [Versions -> 0 .. MaxAttempts]
  BY DEF TypeInv, TypeOK
<1>2. CASE u = v
  <2>1. attempts'[u] = row /\ attempt_count'[u] = n
    BY <1>1, <1>2
  <2> QED
    BY <2>1
<1>3. CASE u # v
  <2>1. attempts'[u] = attempts[u] /\ attempt_count'[u] = attempt_count[u]
    BY <1>1, <1>3
  <2> QED
    BY <2>1 DEF NumbersCounted
<1> QED
  BY <1>2, <1>3

LEMMA RowRewritten ==
    ASSUME TypeInv, NumbersCounted, NEW v \in Versions, NEW a \in Attempts, NEW s,
           attempts' = [attempts EXCEPT ![v] = [attempts[v] EXCEPT ![a] = s]],
           attempt_count' = attempt_count, a <= attempt_count[v], s # "none"
    PROVE  NumbersCounted'
<1> DEFINE row == [attempts[v] EXCEPT ![a] = s]
           n == attempt_count[v]
<1>1. /\ attempts \in [Versions -> [Attempts -> AttemptStatus]]
      /\ attempt_count \in [Versions -> 0 .. MaxAttempts]
      /\ n \in Nat
  BY BoundsAreNaturals DEF TypeInv, TypeOK
<1>2. attempts[v] \in [Attempts -> AttemptStatus]
  BY <1>1
<1>3. \A b \in Attempts : row[b] = IF b = a THEN s ELSE attempts[v][b]
  BY <1>2
<1>4. attempts' = [attempts EXCEPT ![v] = row]
  OBVIOUS
<1>5. attempt_count' = [attempt_count EXCEPT ![v] = n]
  BY <1>1
<1>6. ASSUME NEW b \in Attempts PROVE row[b] = "none" <=> b > n
  <2>1. b \in Int /\ a \in Int
    BY BoundsAreNaturals DEF Attempts
  <2>2. attempts[v][b] = "none" <=> b > n
    BY DEF NumbersCounted
  <2> QED
    BY <1>1, <1>3, <2>1, <2>2
<1> HIDE DEF row, n
<1> QED
  BY <1>1, <1>4, <1>5, <1>6, RowsRewritten

LEMMA StartOwns ==
    ASSUME TypeInv, AttemptsAreOwned, NEW w \in Workers, Start(w)
    PROVE  AttemptsAreOwned'
<1> DEFINE v == worker[w].v
           a == attempt_count[v] + 1
<1>1. v \in Versions /\ a \in Attempts /\ attempt_count[v] \in Nat
  BY WorkerRecord, BoundsAreNaturals DEF Start, NextAttempt, TypeInv, TypeOK
<1>2. /\ worker' = [worker EXCEPT ![w] = [worker[w] EXCEPT !.pc = "EXTRACTING", !.attempt = a]]
      /\ attempt_count' = [attempt_count EXCEPT ![v] = a]
  BY DEF Start, NextAttempt, TypeInv, TypeOK
<1>3. \A x \in Workers : worker[x] \in WorkerState
  BY WorkerRecord
<1>4. OwnersDistinct'
  <2>1. /\ worker \in [Workers -> WorkerState]
        /\ attempt_count \in [Versions -> 0 .. MaxAttempts]
    BY DEF TypeInv, TypeOK
  <2>2. \A x \in Workers : /\ worker'[x].v = worker[x].v
                            /\ worker'[x].attempt = IF x = w THEN a ELSE worker[x].attempt
    BY <1>2, <1>3, <2>1 DEF WorkerState
  <2>3. \A u \in Versions : attempt_count'[u] = IF u = v THEN a ELSE attempt_count[u]
    BY <1>2, <2>1
  <2>4. OwnersDistinct
    BY OwnedParts
  <2>5. \A x \in Workers : worker[x].attempt \in 0 .. MaxAttempts
    BY <1>3 DEF WorkerState
  <2>6. \A x \in Workers : worker[x].attempt # 0 => worker[x].v \in Versions
    BY WorkerRecord DEF WorkerHolds
  <2>7. \A x \in Workers : x # w /\ worker[x].v = v => worker[x].attempt <= attempt_count[v]
    BY <1>1, <2>4, <2>5, BoundsAreNaturals DEF OwnersDistinct
  <2>8. a \in Nat /\ a = attempt_count[v] + 1
    BY <1>1
  <2> HIDE DEF a, v
  <2>9. ASSUME NEW x \in Workers, worker'[x].attempt # 0
        PROVE  worker'[x].attempt <= attempt_count'[worker'[x].v]
    <3>1. worker'[x].v = worker[x].v
      BY <2>2
    <3>2. CASE x = w
      BY <1>1, <2>2, <2>3, <2>8, <3>1, <3>2 DEF v
    <3>3. CASE x # w
      <4>1. worker'[x].attempt = worker[x].attempt /\ worker[x].v \in Versions
        BY <2>2, <2>6, <2>9, <3>3
      <4>2. worker[x].attempt <= attempt_count[worker[x].v]
        BY <2>4, <2>9, <4>1 DEF OwnersDistinct
      <4>3. worker[x].attempt \in Int
        BY <2>5
      <4> QED
        BY <1>1, <2>3, <2>8, <3>1, <4>1, <4>2, <4>3
    <3> QED
      BY <3>2, <3>3
  <2>10. ASSUME NEW x \in Workers, worker'[x].attempt # 0, NEW y \in Workers,
                y # x, worker'[y].v = worker'[x].v
         PROVE  worker'[y].attempt # worker'[x].attempt
    <3>1. worker[y].v = worker[x].v
      BY <2>2, <2>10
    <3>2. CASE x # w /\ y # w
      BY <2>2, <2>4, <2>10, <3>1, <3>2 DEF OwnersDistinct
    <3>3. CASE x = w
      <4>1. worker[y].attempt <= attempt_count[v] /\ worker[y].attempt \in Int
        BY <2>5, <2>7, <2>10, <3>1, <3>3 DEF v
      <4> QED
        BY <1>1, <2>2, <2>8, <2>10, <3>3, <4>1
    <3>4. CASE y = w
      <4>1. worker[x].attempt <= attempt_count[v] /\ worker[x].attempt \in Int
        BY <2>5, <2>7, <2>10, <3>1, <3>4 DEF v
      <4> QED
        BY <1>1, <2>2, <2>8, <2>10, <3>4, <4>1
    <3> QED
      BY <3>2, <3>3, <3>4
  <2> QED
    BY <2>9, <2>10 DEF OwnersDistinct
<1>5. NumbersCounted'
  <2>1. attempts' = [attempts EXCEPT ![v] = [b \in Attempts |->
            IF b = a THEN "EXTRACTING"
            ELSE IF b \in LatestActive(v) THEN "abandoned" ELSE attempts[v][b]]]
    BY DEF Start, NextAttempt
  <2>2. \A b \in LatestActive(v) : attempts[v][b] # "none"
    BY DEF LatestActive, Active
  <2> DEFINE row == [b \in Attempts |->
                       IF b = a THEN "EXTRACTING"
                       ELSE IF b \in LatestActive(v) THEN "abandoned" ELSE attempts[v][b]]
  <2>3. attempts' = [attempts EXCEPT ![v] = row]
    BY <2>1
  <2>4. ASSUME NEW b \in Attempts PROVE row[b] = "none" <=> b > a
    <3>1. b \in Int /\ a \in Int
      BY <1>1, BoundsAreNaturals DEF Attempts
    <3>2. attempts[v][b] = "none" <=> b > attempt_count[v]
      BY <1>1, OwnedParts DEF NumbersCounted
    <3> QED
      BY <1>1, <2>2, <3>1, <3>2
  <2>5. NumbersCounted /\ a \in Nat /\ v \in Versions
        /\ attempt_count' = [attempt_count EXCEPT ![v] = a]
    BY <1>1, <1>2, OwnedParts
  <2> HIDE DEF row, a, v
  <2> QED
    BY <2>3, <2>4, <2>5, RowsRewritten
<1> QED
  BY <1>4, <1>5 DEF AttemptsAreOwned, OwnersDistinct, NumbersCounted

LEMMA AttemptsStay ==
    ASSUME AttemptsAreOwned, UNCHANGED <<worker, attempts, attempt_count>>
    PROVE  AttemptsAreOwned'
BY DEF AttemptsAreOwned

(* Attempt rows are only rewritten by their owner. *)
LEMMA EnterStageOwns ==
    ASSUME TypeInv, AttemptsAreOwned, NEW w \in Workers, NEW from \in Active, NEW to \in Active,
           EnterStage(w, from, to)
    PROVE  NumbersCounted'
<1> DEFINE v == worker[w].v
           a == worker[w].attempt
<1>1. v \in Versions /\ a \in Attempts /\ a <= attempt_count[v]
  <2>1. worker[w].pc \in Processing /\ worker[w].pc # "idle"
    BY DEF EnterStage, Processing, Active
  <2> QED
    BY <2>1, WorkerRecord, BoundsAreNaturals DEF Attempts, AttemptsAreOwned
<1>2. attempts' = [attempts EXCEPT ![v] = [attempts[v] EXCEPT ![a] = to]]
      /\ attempt_count' = attempt_count
  BY DEF EnterStage
<1>3. to # "none"
  BY DEF Active
<1> HIDE DEF v, a
<1> QED
  BY <1>1, <1>2, <1>3, OwnedParts, RowRewritten

LEMMA FinalizeOwns ==
    ASSUME TypeInv, AttemptsAreOwned, NEW w \in Workers, Finalize(w)
    PROVE  NumbersCounted'
<1> DEFINE v == worker[w].v
           a == worker[w].attempt
<1>1. v \in Versions /\ a \in Attempts /\ a <= attempt_count[v]
  <2>1. worker[w].pc \in Processing /\ worker[w].pc # "idle"
    BY DEF Finalize, Processing
  <2> QED
    BY <2>1, WorkerRecord, BoundsAreNaturals DEF Attempts, AttemptsAreOwned
<1>2. attempts' = [attempts EXCEPT ![v] = [attempts[v] EXCEPT ![a] = "succeeded"]]
      /\ attempt_count' = attempt_count
  BY DEF Finalize
<1> HIDE DEF v, a
<1> QED
  BY <1>1, <1>2, OwnedParts, RowRewritten

LEMMA RecordFailureOwns ==
    ASSUME TypeInv, AttemptsAreOwned, NEW w \in Workers, RecordFailure(w)
    PROVE  NumbersCounted'
<1> DEFINE v == worker[w].v
           a == worker[w].attempt
<1>1. v \in Versions /\ a \in 0 .. MaxAttempts
  BY WorkerRecord DEF RecordFailure, WorkerState
<1>2. CASE KeepsStatus(v)
  BY <1>2, OwnedParts DEF RecordFailure, NumbersCounted
<1>3. CASE ~KeepsStatus(v)
  <2>1. attempts' = [attempts EXCEPT ![v] = [b \in Attempts |->
                       IF b = a THEN "failed" ELSE attempts[v][b]]]
        /\ attempt_count' = attempt_count
    BY <1>3 DEF RecordFailure
  <2>2. a # 0 => a <= attempt_count[v]
    BY DEF AttemptsAreOwned
  <2> DEFINE row == [b \in Attempts |-> IF b = a THEN "failed" ELSE attempts[v][b]]
             n == attempt_count[v]
  <2>3. n \in Nat /\ attempt_count' = [attempt_count EXCEPT ![v] = n]
    BY <1>1, <2>1, BoundsAreNaturals DEF TypeInv, TypeOK
  <2>4. attempts' = [attempts EXCEPT ![v] = row]
    BY <2>1
  <2>5. ASSUME NEW b \in Attempts PROVE row[b] = "none" <=> b > n
    <3>1. b \in Int /\ a \in Int /\ b # 0
      BY <1>1, BoundsAreNaturals DEF Attempts
    <3>2. attempts[v][b] = "none" <=> b > n
      BY <1>1, OwnedParts DEF NumbersCounted
    <3> QED
      BY <2>2, <2>3, <3>1, <3>2
  <2>6. NumbersCounted
    BY OwnedParts
  <2> HIDE DEF row, n, a, v
  <2> QED
    BY <1>1, <2>3, <2>4, <2>5, <2>6, RowsRewritten
<1> QED
  BY <1>2, <1>3

LEMMA AttemptsAreOwnedStep == TypeInv /\ AttemptsAreOwned /\ [Next]_vars => AttemptsAreOwned'
<1> SUFFICES ASSUME TypeInv, AttemptsAreOwned, [Next]_vars PROVE AttemptsAreOwned'
  OBVIOUS
<1>1. ASSUME NEW w \in Workers, WorkerGoesOn(w) PROVE OwnersDistinct'
  BY <1>1, OwnersKept, OwnedParts DEF WorkerGoesOn
<1>2. ASSUME NEW w \in Workers, TaskStep(w) PROVE AttemptsAreOwned'
  <2>1. CASE Start(w)
    BY <2>1, StartOwns
  <2>2. CASE ~Start(w)
    <3>1. OwnersDistinct'
      BY <1>1, <1>2, <2>2, WorkersGoOn
    <3>2. NumbersCounted'
      <4>1. CASE FinishExtraction(w) \/ FinishChunking(w)
        BY <4>1, EnterStageOwns DEF FinishExtraction, FinishChunking, Active
      <4>2. CASE Finalize(w) \/ RecordFailure(w)
        BY <4>2, FinalizeOwns, RecordFailureOwns
      <4>3. CASE UNCHANGED <<attempts, attempt_count>>
        BY <4>3, OwnedParts DEF NumbersCounted
      <4> QED
        BY <1>2, <2>2, <4>1, <4>2, <4>3
        DEF TaskStep, ProviderUnconfigured, Drop, DeleteChunks, Raise, CeleryRetry
    <3> QED
      BY <3>1, <3>2 DEF AttemptsAreOwned, OwnersDistinct, NumbersCounted
  <2> QED
    BY <2>1, <2>2
<1>3. ASSUME NEW w \in Workers,
             \/ StartFails(w) \/ Crash(w)
             \/ \E v \in Versions, t \in 0 .. MaxTries : Receive(w, v, t)
      PROVE  AttemptsAreOwned'
  <2>1. OwnersDistinct'
    BY <1>1, <1>3, WorkersGoOn
  <2>2. NumbersCounted'
    BY ZenonT(40), <1>3, OwnedParts DEF StartFails, Crash, Receive, NumbersCounted
  <2> QED
    BY <2>1, <2>2 DEF AttemptsAreOwned, OwnersDistinct, NumbersCounted
<1>4. CASE UNCHANGED <<worker, attempts, attempt_count>>
  BY <1>4, AttemptsStay
<1> QED
  BY <1>2, <1>3, <1>4, StepParts
  DEF AnyStep, Faulty, Upload, Retry, AdminRetry, RetryCommits, PublishStep, ClaimOwn, ClaimPending, Enqueue, EnqueueFails,
      LoadDocument, CommitPublished, PublisherFails, ExpireLease

LEMMA InitAttempts == Init => AttemptsAreOwned
BY IdleSessions, BoundsAreNaturals DEF Init, AttemptsAreOwned, Attempts

(* Attempt numbers are unique and counted, however many workers overlap. *)
THEOREM AttemptNumbers == Spec => []AttemptsAreOwned
<1> QED
  BY InitAttempts, AttemptsAreOwnedStep, TypeCorrect, PTL DEF Spec

-----------------------------------------------------------------------------
(*                        What retrieval finds behind READY                 *)

(* An attempt that still has a worker has not succeeded.                    *)
Owner(w) == worker[w].pc \in Processing \/ (worker[w].pc = "failing" /\ worker[w].attempt # 0)
LiveAttempts ==
    \A w \in Workers : Owner(w) => attempts[worker[w].v][worker[w].attempt] # "succeeded"

(* Why ReadyIsIndexed holds: chunk rows belong to one succeeded attempt,    *)
(* whatever the status is, and a READY version has some.                    *)
ChunksServed ==
    \A v \in Versions :
       /\ \A a \in chunks[v] : attempts[v][a] = "succeeded"
       /\ \A a, b \in chunks[v] : a = b
       /\ status[v] = "READY" => chunks[v] # {}

ChunkInv == LiveAttempts /\ ChunksServed

LEMMA ChunksIndexed == TypeInv /\ ChunksServed => ReadyIsIndexed
<1> SUFFICES ASSUME TypeInv, ChunksServed, NEW v \in Versions, status[v] = "READY"
             PROVE  \E a \in Attempts : chunks[v] = {a} /\ attempts[v][a] = "succeeded"
  BY DEF ReadyIsIndexed
<1>1. PICK a \in chunks[v] : TRUE
  BY DEF ChunksServed
<1>2. chunks[v] = {a} /\ attempts[v][a] = "succeeded"
  BY <1>1 DEF ChunksServed
<1>3. a \in Attempts
  BY <1>1 DEF TypeInv, TypeOK
<1> QED
  BY <1>2, <1>3

(* Steps that write neither attempts nor chunks nor READY, and give no      *)
(* worker an attempt.                                                       *)
LEMMA ChunksStay ==
    ASSUME ChunkInv, UNCHANGED <<attempts, chunks>>,
           \A v \in Versions : status'[v] = "READY" => status[v] = "READY",
           \A w \in Workers : Owner(w)' => /\ Owner(w)
                                           /\ worker'[w].v = worker[w].v
                                           /\ worker'[w].attempt = worker[w].attempt
    PROVE  ChunkInv'
BY DEF ChunkInv, LiveAttempts, ChunksServed

LEMMA OwnerRecord ==
    ASSUME TypeInv, NEW w \in Workers, Owner(w)
    PROVE  /\ worker[w].v \in Versions /\ worker[w].attempt \in Attempts
           /\ worker[w].attempt # 0
BY WorkerRecord, BoundsAreNaturals DEF Owner, Attempts, WorkerState, Processing, Active

LEMMA DifferentOwners ==
    ASSUME TypeInv, AttemptsAreOwned, NEW w \in Workers, NEW x \in Workers, Owner(w), Owner(x),
           worker[w].v = worker[x].v, worker[w].attempt = worker[x].attempt
    PROVE  w = x
BY OwnerRecord DEF AttemptsAreOwned

LEMMA StartChunks ==
    ASSUME TypeInv, AttemptsAreOwned, ChunkInv, NEW w \in Workers, Start(w)
    PROVE  ChunkInv'
<1> DEFINE v == worker[w].v
           a == attempt_count[v] + 1
<1>1. v \in Versions /\ a \in Attempts /\ attempt_count[v] \in Nat
  BY WorkerRecord, BoundsAreNaturals DEF Start, NextAttempt, TypeInv, TypeOK
<1>2. /\ worker' = [worker EXCEPT ![w] = [worker[w] EXCEPT !.pc = "EXTRACTING", !.attempt = a]]
      /\ attempts' = [attempts EXCEPT ![v] = [b \in Attempts |->
            IF b = a THEN "EXTRACTING"
            ELSE IF b \in LatestActive(v) THEN "abandoned" ELSE attempts[v][b]]]
      /\ status' = [status EXCEPT ![v] = "EXTRACTING"] /\ chunks' = chunks
  BY DEF Start, NextAttempt, TypeInv, TypeOK, WriteStatus
<1>3. attempts[v][a] = "none"
  BY <1>1 DEF AttemptsAreOwned
<1>4. \A b \in LatestActive(v) : attempts[v][b] # "succeeded"
  BY DEF LatestActive, Active
<1>5. \A u \in Versions, b \in Attempts :
         attempts'[u][b] = "succeeded" <=> attempts[u][b] = "succeeded"
  BY <1>1, <1>2, <1>3, <1>4 DEF TypeInv, TypeOK
<1>6. ChunksServed'
  BY <1>1, <1>2, <1>5 DEF ChunkInv, ChunksServed, TypeInv, TypeOK
<1>7. LiveAttempts'
  <2> SUFFICES ASSUME NEW x \in Workers, Owner(x)'
               PROVE  attempts'[worker'[x].v][worker'[x].attempt] # "succeeded"
    BY DEF LiveAttempts
  <2>1. CASE x = w
    <3>1. worker'[x].v = v /\ worker'[x].attempt = a
      BY <1>2, <2>1, WorkerRecord DEF TypeInv, TypeOK, WorkerState
    <3> QED
      BY <1>1, <1>3, <1>5, <3>1
  <2>2. CASE x # w
    <3>1. worker'[x] = worker[x] /\ Owner(x)
      BY <1>2, <2>2 DEF TypeInv, TypeOK, Owner
    <3> QED
      BY <1>5, <3>1, OwnerRecord DEF ChunkInv, LiveAttempts
  <2> QED
    BY <2>1, <2>2
<1> QED
  BY <1>6, <1>7 DEF ChunkInv

LEMMA EnterStageChunks ==
    ASSUME TypeInv, AttemptsAreOwned, ChunkInv, NEW w \in Workers,
           NEW from \in Active, NEW to \in Active, EnterStage(w, from, to)
    PROVE  ChunkInv'
<1> DEFINE v == worker[w].v
           a == worker[w].attempt
<1>1. Owner(w) /\ v \in Versions /\ a \in Attempts
  BY OwnerRecord DEF EnterStage, Owner, Processing
<1>2. /\ worker' = [worker EXCEPT ![w] = [worker[w] EXCEPT !.pc = to]]
      /\ attempts' = [attempts EXCEPT ![v] = [attempts[v] EXCEPT ![a] = to]]
      /\ status' = [status EXCEPT ![v] = to] /\ chunks' = chunks
  BY DEF EnterStage, WriteStatus
<1>3. to # "succeeded" /\ to # "READY" /\ attempts[v][a] # "succeeded"
  BY <1>1 DEF Active, ChunkInv, LiveAttempts
<1>4. \A u \in Versions, b \in Attempts :
         attempts'[u][b] = "succeeded" <=> attempts[u][b] = "succeeded"
  BY <1>1, <1>2, <1>3 DEF TypeInv, TypeOK
<1>5. ChunksServed'
  BY <1>1, <1>2, <1>3, <1>4 DEF ChunkInv, ChunksServed, TypeInv, TypeOK
<1>6. LiveAttempts'
  <2> SUFFICES ASSUME NEW x \in Workers, Owner(x)'
               PROVE  attempts'[worker'[x].v][worker'[x].attempt] # "succeeded"
    BY DEF LiveAttempts
  <2>1. Owner(x) /\ worker'[x].v = worker[x].v /\ worker'[x].attempt = worker[x].attempt
    BY <1>1, <1>2, WorkerRecord DEF TypeInv, TypeOK, Owner, WorkerState
  <2> QED
    BY <1>4, <2>1, OwnerRecord DEF ChunkInv, LiveAttempts
<1> QED
  BY <1>5, <1>6 DEF ChunkInv

(* The unique index makes the final transaction's rows the only ones.       *)
LEMMA FinalizeReplaces ==
    ASSUME TypeInv, NEW w \in Workers, Finalize(w)
    PROVE  chunks' = [chunks EXCEPT ![worker[w].v] = {worker[w].attempt}]
BY DEF Finalize, UniqueIndexHolds, Replaced

LEMMA FinalizeChunks ==
    ASSUME TypeInv, AttemptsAreOwned, ChunkInv, NEW w \in Workers, Finalize(w)
    PROVE  ChunkInv'
<1> DEFINE v == worker[w].v
           a == worker[w].attempt
<1>1. Owner(w) /\ v \in Versions /\ a \in Attempts
  BY OwnerRecord DEF Finalize, Owner, Processing
<1>2. /\ worker' = [worker EXCEPT ![w] = IdleWorker]
      /\ attempts' = [attempts EXCEPT ![v] = [attempts[v] EXCEPT ![a] = "succeeded"]]
      /\ status' = [status EXCEPT ![v] = "READY"]
      /\ chunks' = [chunks EXCEPT ![v] = {a}]
  BY FinalizeReplaces DEF Finalize, WriteStatus
<1>3. \A u \in Versions, b \in Attempts :
         attempts'[u][b] = "succeeded" <=> attempts[u][b] = "succeeded" \/ (u = v /\ b = a)
  BY <1>1, <1>2 DEF TypeInv, TypeOK
<1>4. ChunksServed'
  <2> SUFFICES ASSUME NEW u \in Versions
               PROVE  /\ \A b \in chunks'[u] : attempts'[u][b] = "succeeded"
                      /\ \A b, c \in chunks'[u] : b = c
                      /\ status'[u] = "READY" => chunks'[u] # {}
    BY DEF ChunksServed
  <2>1. CASE u = v
    <3>1. chunks'[u] = {a}
      BY <1>1, <1>2, <2>1 DEF TypeInv, TypeOK
    <3> QED
      BY <1>1, <1>3, <2>1, <3>1
  <2>2. CASE u # v
    <3>1. chunks'[u] = chunks[u] /\ status'[u] = status[u] /\ attempts'[u] = attempts[u]
      BY <1>2, <2>2 DEF TypeInv, TypeOK
    <3> QED
      BY <3>1 DEF ChunkInv, ChunksServed
  <2> QED
    BY <2>1, <2>2
<1>5. LiveAttempts'
  <2> SUFFICES ASSUME NEW x \in Workers, Owner(x)'
               PROVE  attempts'[worker'[x].v][worker'[x].attempt] # "succeeded"
    BY DEF LiveAttempts
  <2>1. x # w
    BY <1>2, IdleSessions DEF TypeInv, TypeOK, Owner, Processing, Active
  <2>2. worker'[x] = worker[x] /\ Owner(x)
    BY <1>2, <2>1 DEF TypeInv, TypeOK, Owner
  <2>3. ~(worker[x].v = v /\ worker[x].attempt = a)
    BY <1>1, <2>1, <2>2, DifferentOwners
  <2> QED
    BY <1>3, <2>2, <2>3, OwnerRecord DEF ChunkInv, LiveAttempts
<1> QED
  BY <1>4, <1>5 DEF ChunkInv

LEMMA RecordFailureChunks ==
    ASSUME TypeInv, AttemptsAreOwned, ChunkInv, NEW w \in Workers, RecordFailure(w)
    PROVE  ChunkInv'
<1> DEFINE v == worker[w].v
           a == worker[w].attempt
<1>1. v \in Versions /\ worker[w].pc = "failing" /\ worker[w] \in WorkerState
  BY WorkerRecord DEF RecordFailure
<1>2. \A x \in Workers : Owner(x)' => x # w /\ Owner(x) /\ worker'[x] = worker[x]
  BY <1>1, IdleSessions DEF RecordFailure, TypeInv, TypeOK, Owner, Processing, Active, WorkerState
<1>3. CASE KeepsStatus(v)
  BY <1>2, <1>3, ChunksStay DEF RecordFailure
<1>4. CASE ~KeepsStatus(v)
  <2>1. /\ attempts' = [attempts EXCEPT ![v] = [b \in Attempts |->
                          IF b = a THEN "failed" ELSE attempts[v][b]]]
        /\ status' = [status EXCEPT ![v] = "FAILED"] /\ chunks' = chunks
    BY <1>4 DEF RecordFailure, WriteStatus
  <2>2. a \in Attempts => attempts[v][a] # "succeeded"
    BY <1>1, BoundsAreNaturals DEF ChunkInv, LiveAttempts, Owner, Attempts
  <2>3. \A u \in Versions, b \in Attempts :
           attempts'[u][b] = "succeeded" <=> attempts[u][b] = "succeeded"
    BY <1>1, <2>1, <2>2 DEF TypeInv, TypeOK
  <2>4. ChunksServed'
    BY <1>1, <2>1, <2>3 DEF ChunkInv, ChunksServed, TypeInv, TypeOK
  <2>5. LiveAttempts'
    BY <1>2, <2>3, OwnerRecord DEF ChunkInv, LiveAttempts
  <2> QED
    BY <2>4, <2>5 DEF ChunkInv
<1> QED
  BY <1>3, <1>4

LEMMA ChunkInvStep ==
    TypeInv /\ AttemptsAreOwned /\ ChunkInv /\ [Next]_vars => ChunkInv'
<1> SUFFICES ASSUME TypeInv, AttemptsAreOwned, ChunkInv, [Next]_vars PROVE ChunkInv'
  OBVIOUS
<1> USE DEF Owner, Processing, Active
<1>1. ASSUME NEW p \in Publishers, NEW v \in Versions, Upload(p, v) PROVE ChunkInv'
  BY <1>1, ChunksStay DEF Upload, WriteStatus, TypeInv, TypeOK
<1>2. ASSUME NEW v \in Versions, AnyRetry(v) PROVE ChunkInv'
  BY <1>2, ChunksStay DEF Retry, AdminRetry, RetryCommits, WriteStatus, TypeInv, TypeOK
<1>3. ASSUME NEW p \in Publishers, CommitPublished(p) PROVE ChunkInv'
  BY <1>3, ChunksStay DEF CommitPublished, WriteStatus, TypeInv, TypeOK
<1>4. ASSUME NEW p \in Publishers,
             \/ ClaimOwn(p) \/ Enqueue(p) \/ EnqueueFails(p) \/ LoadDocument(p)
             \/ PublisherFails(p) \/ \E e \in Events : ClaimPending(p, e)
      PROVE  ChunkInv'
  BY <1>4, ChunksStay
  DEF ClaimOwn, Enqueue, EnqueueFails, LoadDocument, PublisherFails, ClaimPending
<1>5. ASSUME NEW w \in Workers, NEW v \in Versions, NEW t \in 0 .. MaxTries, Receive(w, v, t)
      PROVE  ChunkInv'
  BY <1>5, ChunksStay, IdleSessions DEF Receive, TypeInv, TypeOK, WorkerState
<1>6. ASSUME NEW w \in Workers,
             ProviderUnconfigured(w) \/ Drop(w) \/ CeleryRetry(w) \/ Crash(w)
      PROVE  ChunkInv'
  BY <1>6, ChunksStay, IdleSessions
  DEF ProviderUnconfigured, Drop, CeleryRetry, Crash, TypeInv, TypeOK, WorkerState
<1>7. ASSUME NEW w \in Workers, StartFails(w) PROVE ChunkInv'
  <2>1. worker[w].attempt = 0
    BY <1>7, WorkerRecord DEF StartFails, WorkerHolds
  <2>2. \A x \in Workers : Owner(x)' => x # w /\ worker'[x] = worker[x]
    BY <1>7, <2>1, WorkerRecord DEF StartFails, TypeInv, TypeOK, WorkerState
  <2> QED
    BY <1>7, <2>2, ChunksStay DEF StartFails
<1>8. ASSUME NEW w \in Workers, DeleteChunks(w) \/ Raise(w) PROVE ChunkInv'
  <2>1. \A x \in Workers : Owner(x)' => /\ Owner(x)
                                        /\ worker'[x].v = worker[x].v
                                        /\ worker'[x].attempt = worker[x].attempt
    <3>1. /\ Owner(w) /\ \A x \in Workers \ {w} : worker'[x] = worker[x]
          /\ worker'[w].v = worker[w].v /\ worker'[w].attempt = worker[w].attempt
      <4>1. CASE DeleteChunks(w)
        BY <4>1, WorkerRecord DEF DeleteChunks, TypeInv, TypeOK, WorkerState
      <4>2. CASE Raise(w)
        BY <4>2, WorkerRecord DEF Raise, TypeInv, TypeOK, WorkerState
      <4> QED
        BY <1>8, <4>1, <4>2
    <3> QED
      BY <3>1
  <2> QED
    BY <1>8, <2>1, ChunksStay DEF DeleteChunks, Raise
<1>9. ASSUME NEW w \in Workers, TaskStep(w) PROVE ChunkInv'
  <2>1. CASE FinishExtraction(w) \/ FinishChunking(w)
    BY <2>1, EnterStageChunks DEF FinishExtraction, FinishChunking
  <2> QED
    BY <1>6, <1>8, <1>9, <2>1, StartChunks, FinalizeChunks, RecordFailureChunks DEF TaskStep
<1>10. ASSUME NEW v \in Versions, ExpireLease(v) PROVE ChunkInv'
  BY <1>10, ChunksStay DEF ExpireLease
<1>11. CASE Unmoved
  BY <1>11, ChunksStay
<1> QED
  BY <1>1, <1>2, <1>3, <1>4, <1>5, <1>6, <1>7, <1>9, <1>10, <1>11, StepParts
  DEF AnyStep, Faulty, PublishStep

LEMMA InitChunks == Init => ChunkInv
<1> SUFFICES ASSUME Init PROVE ChunkInv
  OBVIOUS
<1>1. LiveAttempts
  BY IdleSessions DEF Init, LiveAttempts, Owner, Processing, Active
<1>2. ChunksServed
  BY DEF Init, ChunksServed
<1> QED
  BY <1>1, <1>2 DEF ChunkInv

(* READY versions serve the rows of exactly one succeeded attempt. *)
THEOREM ReadyServesOneAttempt == Spec => []ReadyIsIndexed
<1>1. Spec => []ChunkInv
  BY InitChunks, ChunkInvStep, TypeCorrect, AttemptNumbers, PTL DEF Spec
<1>2. TypeInv /\ ChunkInv => ReadyIsIndexed
  BY ChunksIndexed DEF ChunkInv
<1> QED
  BY <1>1, <1>2, TypeCorrect, PTL

-----------------------------------------------------------------------------
(*                            Who is processing                             *)

Attended(v) == \E w \in Workers : worker[w].v = v /\ worker[w].attempt # 0 /\ Owner(w)

LEMMA AttendedIsActive == ActiveHasWorker <=> \A v \in Versions :
    status[v] \in Active => Attended(v) \/ v \in lost
BY DEF ActiveHasWorker, Attended, Owner, Processing, Active

(* A step that makes no version active and takes no owner away. *)
LEMMA ActiveStays ==
    ASSUME ActiveHasWorker,
           \A v \in Versions : status'[v] \in Active =>
              /\ status[v] \in Active
              /\ v \in lost => v \in lost'
              /\ \A w \in Workers : Owner(w) /\ worker[w].v = v =>
                    \/ v \in lost'
                    \/ /\ Owner(w)' /\ worker'[w].v = v
                       /\ worker'[w].attempt = worker[w].attempt
    PROVE  ActiveHasWorker'
<1>1. \A v \in Versions : status'[v] \in Active => Attended(v)' \/ v \in lost'
  BY AttendedIsActive DEF Attended
<1> QED
  BY <1>1 DEF ActiveHasWorker, Attended, Owner, Processing, Active

LEMMA EntersActive ==
    ASSUME TypeInv, ActiveHasWorker, NEW w \in Workers, Start(w) \/
           \E from, to \in Active : EnterStage(w, from, to)
    PROVE  ActiveHasWorker'
<1> DEFINE v == worker[w].v
<1>1. v \in Versions /\ worker[w] \in WorkerState
  BY WorkerRecord DEF Start, EnterStage, Active
<1>2. \E s \in Active : status' = [status EXCEPT ![v] = s]
  BY DEF Start, EnterStage, WriteStatus, Active
<1> DEFINE Enters == /\ worker'[w].v = v /\ worker'[w].attempt # 0 /\ worker'[w].pc \in Active
                     /\ \A x \in Workers \ {w} : worker'[x] = worker[x]
                     /\ lost' = lost
<1>3. Enters
  <2>1. CASE Start(w)
    <3> DEFINE a == attempt_count[v] + 1
    <3>1. worker' = [worker EXCEPT ![w] = [worker[w] EXCEPT !.pc = "EXTRACTING", !.attempt = a]]
      BY <2>1 DEF Start, NextAttempt, TypeInv, TypeOK
    <3>2. a # 0 /\ lost' = lost
      BY <2>1, BoundsAreNaturals DEF Start, NextAttempt, Attempts
    <3> HIDE DEF a
    <3> QED
      BY <1>1, <3>1, <3>2 DEF TypeInv, TypeOK, WorkerState, Active
  <2>2. ASSUME NEW from \in Active, NEW to \in Active, EnterStage(w, from, to)
        PROVE  Enters
    BY <1>1, <2>2, WorkerRecord
    DEF EnterStage, TypeInv, TypeOK, WorkerState, WorkerHolds, Processing
  <2> QED
    BY <2>1, <2>2
<1>4. \A u \in Versions : status'[u] \in Active => Attended(u)' \/ u \in lost'
  <2> SUFFICES ASSUME NEW u \in Versions, status'[u] \in Active
               PROVE  Attended(u)' \/ u \in lost'
    OBVIOUS
  <2>1. CASE u = v
    BY <1>3, <2>1 DEF Attended, Owner, Processing
  <2>2. CASE u # v
    <3>1. status'[u] = status[u]
      BY <1>2, <2>2 DEF TypeInv, TypeOK
    <3>2. Attended(u) \/ u \in lost
      BY <3>1, AttendedIsActive
    <3> QED
      BY <1>3, <2>2, <3>2 DEF Attended, Owner
  <2> QED
    BY <2>1, <2>2
<1> QED
  BY <1>4 DEF ActiveHasWorker, Attended, Owner, Processing, Active

LEMMA ActiveStep == TypeInv /\ ActiveHasWorker /\ [Next]_vars => ActiveHasWorker'
<1> SUFFICES ASSUME TypeInv, ActiveHasWorker, [Next]_vars PROVE ActiveHasWorker'
  OBVIOUS
<1> USE DEF Owner, Processing, Active
<1>1. ASSUME NEW p \in Publishers, NEW v \in Versions, Upload(p, v) PROVE ActiveHasWorker'
  BY <1>1, ActiveStays DEF Upload, WriteStatus, TypeInv, TypeOK
<1>2. ASSUME NEW v \in Versions, AnyRetry(v) PROVE ActiveHasWorker'
  BY <1>2, ActiveStays DEF Retry, AdminRetry, RetryCommits, WriteStatus, TypeInv, TypeOK
<1>3. ASSUME NEW p \in Publishers, CommitPublished(p) PROVE ActiveHasWorker'
  BY <1>3, ActiveStays DEF CommitPublished, WriteStatus, TypeInv, TypeOK
<1>4. ASSUME NEW p \in Publishers,
             \/ ClaimOwn(p) \/ Enqueue(p) \/ EnqueueFails(p) \/ LoadDocument(p)
             \/ PublisherFails(p) \/ \E e \in Events : ClaimPending(p, e)
      PROVE  ActiveHasWorker'
  BY <1>4, ActiveStays
  DEF ClaimOwn, Enqueue, EnqueueFails, LoadDocument, PublisherFails, ClaimPending
<1>5. ASSUME NEW w \in Workers, NEW v \in Versions, NEW t \in 0 .. MaxTries, Receive(w, v, t)
      PROVE  ActiveHasWorker'
  BY <1>5, ActiveStays DEF Receive, TypeInv, TypeOK
<1>6. ASSUME NEW w \in Workers,
             ProviderUnconfigured(w) \/ Drop(w) \/ CeleryRetry(w) \/ Crash(w)
      PROVE  ActiveHasWorker'
  BY <1>6, ActiveStays DEF ProviderUnconfigured, Drop, CeleryRetry, Crash, TypeInv, TypeOK
<1>7. ASSUME NEW w \in Workers, StartFails(w) PROVE ActiveHasWorker'
  BY <1>7, ActiveStays DEF StartFails, TypeInv, TypeOK
<1>8. ASSUME NEW w \in Workers, DeleteChunks(w) \/ Raise(w) PROVE ActiveHasWorker'
  <2>1. /\ worker'[w].v = worker[w].v /\ worker'[w].attempt = worker[w].attempt
        /\ Owner(w)' /\ \A x \in Workers \ {w} : worker'[x] = worker[x]
    <3>1. CASE DeleteChunks(w)
      BY <3>1, WorkerRecord DEF DeleteChunks, TypeInv, TypeOK, WorkerState
    <3>2. CASE Raise(w)
      BY <3>2, WorkerRecord DEF Raise, TypeInv, TypeOK, WorkerState, WorkerHolds
    <3> QED
      BY <1>8, <3>1, <3>2
  <2> QED
    BY <1>8, <2>1, ActiveStays DEF DeleteChunks, Raise
<1>9. ASSUME NEW w \in Workers, Finalize(w) PROVE ActiveHasWorker'
  BY <1>9, ActiveStays, WorkerRecord DEF Finalize, WriteStatus, TypeInv, TypeOK
<1>10. ASSUME NEW w \in Workers, RecordFailure(w) PROVE ActiveHasWorker'
  BY <1>10, ActiveStays, WorkerRecord
  DEF RecordFailure, KeepsStatus, WriteStatus, TypeInv, TypeOK
<1>11. ASSUME NEW w \in Workers, TaskStep(w) PROVE ActiveHasWorker'
  <2>1. CASE FinishExtraction(w) \/ FinishChunking(w) \/ Start(w)
    BY <2>1, EntersActive DEF FinishExtraction, FinishChunking
  <2> QED
    BY <1>6, <1>8, <1>9, <1>10, <1>11, <2>1 DEF TaskStep
<1>12. ASSUME NEW v \in Versions, ExpireLease(v) PROVE ActiveHasWorker'
  BY <1>12, ActiveStays DEF ExpireLease
<1>13. CASE Unmoved
  BY <1>13, ActiveStays
<1> QED
  BY <1>1, <1>2, <1>3, <1>4, <1>5, <1>6, <1>7, <1>11, <1>12, <1>13, StepParts DEF AnyStep, Faulty, PublishStep

(* Nobody but a dying worker walks away from a version in processing. *)
THEOREM ActiveIsAttended == Spec => []ActiveHasWorker
<1>1. Init => ActiveHasWorker
  BY DEF Init, ActiveHasWorker, Active
<1> QED
  BY <1>1, ActiveStep, TypeCorrect, PTL DEF Spec

-----------------------------------------------------------------------------
(***************************************************************************)
(* Proofs about sessions that remember a version row across commits: what  *)
(* an up-to-date session may rely on, and what therefore only a session    *)
(* that was overtaken can do.  The argument is one inductive invariant,    *)
(* LeaseInv: a session outside `stale' agrees with the row, and no two     *)
(* up-to-date workers own the same version.                                *)
(***************************************************************************)

(* What a worker that nobody overtook knows of its version.                 *)
FreshWorker(w) == w \notin stale =>
    /\ Owner(w) => status[worker[w].v] \in Active
    /\ worker[w].pc \in Processing =>
          /\ ~failure_code[worker[w].v]
          /\ worker[w].attempt \notin lease_expired[worker[w].v]
    /\ worker[w].pc = "failing" /\ worker[w].attempt = 0 => ~Dropped(worker[w].v)

(* What a publisher that nobody overtook knows of its version.              *)
FreshPublisher(p) == p \notin stale /\ publisher[p].pc # "idle" =>
    /\ status[publisher[p].v] = publisher[p].seen
    /\ publisher[p].document # "absent" =>
          publisher[p].document = document[publisher[p].v]

OneFreshOwner == \A w, x \in Workers :
    /\ w \notin stale /\ x \notin stale
    /\ Owner(w) /\ Owner(x) /\ worker[w].v = worker[x].v
    => w = x

ExpiredCounted ==
    \A v \in Versions : \A a \in lease_expired[v] : a <= attempt_count[v]

EventsExist ==
    /\ published \subseteq outbox
    /\ \A e \in outbox : status[e[1]] # "absent" /\ e[2] <= retry_count[e[1]]
    /\ \A p \in Publishers : publisher[p].pc # "idle" =>
          <<publisher[p].v, publisher[p].n>> \in outbox

SessionsAgree ==
    /\ \A w \in Workers : FreshWorker(w)
    /\ \A p \in Publishers : FreshPublisher(p)
    /\ OneFreshOwner

LeaseInv == EventsExist /\ ExpiredCounted /\ SessionsAgree

-----------------------------------------------------------------------------
(*                               Outbox events                              *)

LEMMA EventsStay ==
    ASSUME TypeInv, TypeInv', EventsExist,
           published' \subseteq outbox', outbox \subseteq outbox',
           \A e \in outbox' \ outbox :
              e \in Events /\ status'[e[1]] # "absent" /\ e[2] <= retry_count'[e[1]],
           \A v \in Versions : /\ status'[v] = "absent" => status[v] = "absent"
                               /\ retry_count[v] <= retry_count'[v],
           \A p \in Publishers : publisher'[p].pc # "idle" =>
              \/ <<publisher'[p].v, publisher'[p].n>> \in outbox'
              \/ /\ publisher[p].pc # "idle"
                 /\ publisher'[p].v = publisher[p].v /\ publisher'[p].n = publisher[p].n
    PROVE  EventsExist'
<1>1. \A e \in outbox : status'[e[1]] # "absent" /\ e[2] <= retry_count'[e[1]]
  <2> SUFFICES ASSUME NEW e \in outbox
               PROVE  status'[e[1]] # "absent" /\ e[2] <= retry_count'[e[1]]
    OBVIOUS
  <2>1. e[1] \in Versions /\ e[2] \in Nat /\ retry_count[e[1]] \in Nat
        /\ retry_count'[e[1]] \in Nat
    BY BoundsAreNaturals DEF TypeInv, TypeOK, Events
  <2>2. e[2] <= retry_count[e[1]] /\ status[e[1]] # "absent"
    BY DEF EventsExist
  <2> QED
    BY <2>1, <2>2
<1> QED
  BY <1>1 DEF EventsExist
LEMMA EventsStep == TypeInv /\ TypeInv' /\ EventsExist /\ [Next]_vars => EventsExist'
<1> SUFFICES ASSUME TypeInv, TypeInv', EventsExist, [Next]_vars PROVE EventsExist'
  OBVIOUS
<1>0. \A v \in Versions : retry_count[v] \in Nat /\ retry_count[v] <= retry_count[v]
  BY BoundsAreNaturals DEF TypeInv, TypeOK
<1>1. ASSUME NEW p \in Publishers, NEW v \in Versions, Upload(p, v) PROVE EventsExist'
  <2>1. <<v, 0>> \in Events /\ 0 <= retry_count[v]
    BY <1>0, BoundsAreNaturals DEF Events
  <2>2. \A u \in Versions : status'[u] = "absent" => status[u] = "absent"
    BY <1>1 DEF Upload, WriteStatus, TypeInv, TypeOK
  <2>3. status'[v] # "absent"
    BY <1>1 DEF Upload, WriteStatus, TypeInv, TypeOK
  <2>4. \A q \in Publishers : publisher'[q].pc # "idle" =>
           \/ <<publisher'[q].v, publisher'[q].n>> \in outbox'
           \/ publisher'[q] = publisher[q]
    BY <1>1 DEF Upload, TypeInv, TypeOK
  <2> QED
    BY <1>0, <1>1, <2>1, <2>2, <2>3, <2>4, EventsStay DEF Upload, EventsExist
<1>2. ASSUME NEW v \in Versions, AnyRetry(v) PROVE EventsExist'
  <2>0. RetryCommits(v)
    BY <1>2 DEF Retry, AdminRetry
  <2>1. RetryEvent(v) \in Events /\ retry_count'[v] = retry_count[v] + 1
    BY <1>0, <2>0, BoundsAreNaturals DEF Events, RetryEvent, RetryCommits, TypeInv, TypeOK
  <2>2. \A u \in Versions : /\ status'[u] = "absent" => status[u] = "absent"
                            /\ retry_count[u] <= retry_count'[u]
    BY <1>0, <2>0 DEF RetryCommits, WriteStatus, TypeInv, TypeOK
  <2>3. status'[v] # "absent"
    BY <2>0 DEF RetryCommits, WriteStatus, TypeInv, TypeOK
  <2>4. \A e \in outbox' \ outbox :
           e \in Events /\ status'[e[1]] # "absent" /\ e[2] <= retry_count'[e[1]]
    BY <1>0, <2>0, <2>1, <2>3 DEF RetryCommits, RetryEvent
  <2> QED
    BY <2>0, <2>2, <2>4, EventsStay DEF RetryCommits, EventsExist
<1>3. ASSUME NEW p \in Publishers, CommitPublished(p) PROVE EventsExist'
  <2>1. \A u \in Versions : status'[u] = "absent" => status[u] = "absent"
    BY <1>3 DEF CommitPublished, WriteStatus, TypeInv, TypeOK
  <2>2. \A q \in Publishers : publisher'[q].pc # "idle" => publisher'[q] = publisher[q]
    BY <1>3, IdleSessions DEF CommitPublished, TypeInv, TypeOK
  <2>3. published' \subseteq outbox' /\ outbox' = outbox /\ retry_count' = retry_count
    BY <1>3 DEF CommitPublished, EventsExist
  <2>4. \A q \in Publishers : publisher'[q].pc # "idle" => publisher[q].pc # "idle"
    BY <2>2
  <2> QED
    BY <1>0, <2>1, <2>2, <2>3, EventsStay
<1>4. ASSUME NEW p \in Publishers,
             \/ ClaimOwn(p) \/ Enqueue(p) \/ EnqueueFails(p) \/ LoadDocument(p)
             \/ PublisherFails(p) \/ \E e \in Events : ClaimPending(p, e)
      PROVE  EventsExist'
  <2> DEFINE Still == \A q \in Publishers : publisher'[q].pc # "idle" =>
                        \/ <<publisher'[q].v, publisher'[q].n>> \in outbox'
                        \/ /\ publisher[q].pc # "idle"
                           /\ publisher'[q].v = publisher[q].v
                           /\ publisher'[q].n = publisher[q].n
  <2>1. Still
    <3>1. ASSUME NEW e \in Events, ClaimPending(p, e) PROVE Still
      <4>1. e = <<e[1], e[2]>>
        BY DEF Events
      <4> QED
        BY <3>1, <4>1 DEF ClaimPending, Unpublished, TypeInv, TypeOK
    <3>2. CASE EnqueueFails(p) \/ PublisherFails(p)
      BY <3>2, IdleSessions DEF EnqueueFails, PublisherFails, TypeInv, TypeOK
    <3>3. CASE ClaimOwn(p) \/ Enqueue(p) \/ LoadDocument(p)
      <4>1. \A q \in Publishers : publisher[q] \in PublisherState
        BY DEF TypeInv, TypeOK
      <4>2. CASE ClaimOwn(p)
        <5>1. CASE publisher' = [publisher EXCEPT ![p] = IdlePublisher]
          BY <5>1, IdleSessions DEF TypeInv, TypeOK
        <5>2. CASE publisher' = [publisher EXCEPT ![p] = [publisher[p] EXCEPT !.pc = "claimed"]]
          <6>1. publisher[p].pc # "idle"
            BY <4>2 DEF ClaimOwn
          <6> QED
            BY ZenonT(40), <4>1, <5>2, <6>1 DEF TypeInv, TypeOK, PublisherState
        <5> QED
          BY <4>2, <5>1, <5>2 DEF ClaimOwn
      <4>3. CASE Enqueue(p)
        BY <4>1, <4>3 DEF Enqueue, TypeInv, TypeOK, PublisherState
      <4>4. CASE LoadDocument(p)
        <5>1. publisher' = [publisher EXCEPT ![p] = [publisher[p] EXCEPT
                              !.pc = "loaded", !.document = document[publisher[p].v]]]
          BY <4>4 DEF LoadDocument, TypeInv, TypeOK
        <5>2. publisher[p].pc # "idle"
          BY <4>4 DEF LoadDocument
        <5> QED
          BY ZenonT(40), <4>1, <5>1, <5>2 DEF TypeInv, TypeOK, PublisherState
      <4> QED
        BY <3>3, <4>2, <4>3, <4>4
    <3> QED
      BY <1>4, <3>1, <3>2, <3>3
  <2>2. UNCHANGED <<status, outbox, published, retry_count>>
    <3>1. ASSUME NEW e \in Events, ClaimPending(p, e) PROVE UNCHANGED <<status, outbox, published, retry_count>>
      BY <3>1 DEF ClaimPending
    <3>2. CASE ClaimOwn(p) \/ Enqueue(p) \/ EnqueueFails(p)
      BY <3>2 DEF ClaimOwn, Enqueue, EnqueueFails
    <3>3. CASE LoadDocument(p) \/ PublisherFails(p)
      BY <3>3 DEF LoadDocument, PublisherFails
    <3> QED
      BY <1>4, <3>1, <3>2, <3>3
  <2> QED
    BY <1>0, <2>1, <2>2, EventsStay DEF EventsExist
<1>5. ASSUME NEW w \in Workers,
             \/ TaskStep(w) \/ StartFails(w) \/ Crash(w)
             \/ \E v \in Versions, t \in 0 .. MaxTries : Receive(w, v, t)
      PROVE  EventsExist'
  <2>1. UNCHANGED <<publisher, outbox, published, retry_count>>
    BY <1>5 DEF TaskStep, StartFails, Crash, Receive, ProviderUnconfigured, Drop, Start,
       FinishExtraction, FinishChunking, EnterStage, DeleteChunks, Finalize, Raise,
       RecordFailure, CeleryRetry
  <2>2. \A u \in Versions : status'[u] = "absent" => status[u] = "absent"
    <3>1. \/ status' = status
          \/ \E s \in {"EXTRACTING", "CHUNKING", "EMBEDDING", "READY", "FAILED"} :
                status' = [status EXCEPT ![worker[w].v] = s]
      BY <1>5 DEF TaskStep, StartFails, Crash, Receive, ProviderUnconfigured, Drop, Start,
         FinishExtraction, FinishChunking, EnterStage, DeleteChunks, Finalize, Raise,
         RecordFailure, CeleryRetry, WriteStatus
    <3> QED
      BY <3>1 DEF TypeInv, TypeOK
  <2> QED
    BY <1>0, <2>1, <2>2, EventsStay DEF EventsExist
<1>6. CASE UNCHANGED <<status, publisher, outbox, published, retry_count>>
  BY <1>0, <1>6, EventsStay DEF EventsExist
<1> QED
  <2>1. CASE Faulty
    BY <1>4, <1>5, <1>6, <2>1 DEF Faulty, ExpireLease
  <2>2. CASE \E p \in Publishers : PublishStep(p)
    BY <1>3, <1>4, <2>2 DEF PublishStep
  <2> QED
    BY <1>1, <1>2, <1>4, <1>5, <1>6, <2>1, <2>2, StepParts DEF AnyStep

-----------------------------------------------------------------------------
(*                          Expired attempts are counted                    *)

LEMMA ExpiredStep ==
    TypeInv /\ TypeInv' /\ AttemptsAreOwned /\ ExpiredCounted /\ [Next]_vars => ExpiredCounted'
<1> SUFFICES ASSUME TypeInv, TypeInv', AttemptsAreOwned, ExpiredCounted, [Next]_vars
             PROVE  ExpiredCounted'
  OBVIOUS
<1>1. ASSUME NEW w \in Workers, Start(w) PROVE ExpiredCounted'
  <2> DEFINE v == worker[w].v
  <2>1. v \in Versions
    BY <1>1, WorkerRecord DEF Start
  <2>2. /\ attempt_count' = [attempt_count EXCEPT ![v] = attempt_count[v] + 1]
        /\ lease_expired' = [lease_expired EXCEPT ![v] = @ \cup LatestActive(v)]
    BY <1>1 DEF Start, NextAttempt
  <2>3. \A a \in LatestActive(v) : a \in Attempts /\ a <= attempt_count[v]
    BY SMTT(30), <2>1, BoundsAreNaturals
    DEF LatestActive, Active, AttemptsAreOwned, TypeInv, TypeOK, Attempts
  <2> SUFFICES ASSUME NEW u \in Versions, NEW a \in lease_expired'[u]
               PROVE  a <= attempt_count'[u]
    BY DEF ExpiredCounted
  <2>4. a \in Nat /\ attempt_count[u] \in Nat /\ attempt_count'[u] \in Nat
    BY BoundsAreNaturals DEF TypeInv, TypeOK, Attempts
  <2>5. a <= attempt_count[u]
    <3>1. a \in lease_expired[u] \/ (u = v /\ a \in LatestActive(v))
      BY <2>1, <2>2 DEF TypeInv, TypeOK
    <3> QED
      BY <2>3, <3>1 DEF ExpiredCounted
  <2>6. attempt_count'[u] = attempt_count[u] \/ attempt_count'[u] = attempt_count[u] + 1
    BY <2>1, <2>2 DEF TypeInv, TypeOK
  <2> QED
    BY <2>4, <2>5, <2>6
<1>2. ASSUME NEW w \in Workers, RecordFailure(w) PROVE ExpiredCounted'
  <2>1. \A u \in Versions : lease_expired'[u] \subseteq lease_expired[u]
    <3>1. \/ lease_expired' = lease_expired
          \/ lease_expired' = [lease_expired EXCEPT ![worker[w].v] = @ \ {worker[w].attempt}]
      BY <1>2 DEF RecordFailure
    <3>2. CASE lease_expired' = [lease_expired EXCEPT ![worker[w].v] = @ \ {worker[w].attempt}]
      <4> SUFFICES ASSUME NEW u \in Versions, NEW a \in lease_expired'[u]
                   PROVE  a \in lease_expired[u]
        OBVIOUS
      <4>1. CASE u = worker[w].v
        BY <3>2, <4>1 DEF TypeInv, TypeOK
      <4>2. CASE u # worker[w].v
        BY <3>2, <4>2 DEF TypeInv, TypeOK
      <4> QED
        BY <4>1, <4>2
    <3> QED
      BY <3>1, <3>2
  <2> QED
    BY <1>2, <2>1 DEF RecordFailure, ExpiredCounted
<1>3. CASE UNCHANGED <<lease_expired, attempt_count>>
  BY <1>3 DEF ExpiredCounted
<1>4. ASSUME NEW w \in Workers, TaskStep(w) PROVE ExpiredCounted'
  BY <1>1, <1>2, <1>3, <1>4
  DEF TaskStep, ProviderUnconfigured, Drop, FinishExtraction, FinishChunking, EnterStage,
      DeleteChunks, Finalize, Raise, CeleryRetry
<1>5. ASSUME NEW p \in Publishers, PublishStep(p) PROVE ExpiredCounted'
  BY <1>3, <1>5
  DEF PublishStep, ClaimOwn, Enqueue, EnqueueFails, LoadDocument, CommitPublished
<1>6. CASE Faulty
  BY <1>3, <1>6 DEF Faulty, StartFails, Crash, PublisherFails, ExpireLease
<1> QED
  BY <1>3, <1>4, <1>5, <1>6, StepParts DEF AnyStep, Upload, Retry, AdminRetry, RetryCommits, ClaimPending, Receive

-----------------------------------------------------------------------------
(*                    What up-to-date sessions agree on                     *)

(* s writes version v's rows, marks every other copy, and touches no other  *)
(* session: then the other sessions still agree with their rows.            *)
Writes(s, v) ==
    /\ \A x \in (stale \cup Copies(v)) \ {s} : x \in stale'
    /\ \A x \in Workers \ {s} : worker'[x] = worker[x]
    /\ \A p \in Publishers \ {s} : publisher'[p] = publisher[p]
    /\ \A u \in Versions \ {v} :
          /\ status'[u] = status[u] /\ document'[u] = document[u]
          /\ lease_fresh'[u] = lease_fresh[u] /\ failure_code'[u] = failure_code[u]
          /\ lease_expired'[u] = lease_expired[u]

LEMMA OthersAgree ==
    ASSUME TypeInv, SessionsAgree, NEW v \in Versions, NEW s, Writes(s, v)
    PROVE  /\ \A x \in Workers \ {s} : FreshWorker(x)'
           /\ \A p \in Publishers \ {s} : FreshPublisher(p)'
<1>1. ASSUME NEW x \in Workers \ {s}, x \notin stale' PROVE FreshWorker(x)'
  <2>1. x \notin stale /\ x \notin Copies(v) /\ worker'[x] = worker[x] /\ FreshWorker(x)
    BY <1>1 DEF Writes, SessionsAgree
  <2>2. CASE worker[x].pc \in Processing \cup {"failing"}
    <3>1. worker[x].v \in Versions \ {v}
      BY <1>1, <2>1, <2>2, WorkerRecord DEF Copies, Processing, Active
    <3> QED
      BY <2>1, <3>1 DEF FreshWorker, Writes, Owner, Dropped, LeaseIsFresh
  <2>3. CASE worker[x].pc \notin Processing \cup {"failing"}
    BY <2>1, <2>3 DEF FreshWorker, Owner
  <2> QED
    BY <2>2, <2>3
<1>2. ASSUME NEW p \in Publishers \ {s}, p \notin stale' PROVE FreshPublisher(p)'
  <2>1. p \notin stale /\ publisher[p].v # v /\ publisher'[p] = publisher[p]
        /\ FreshPublisher(p)
    BY <1>2 DEF Writes, SessionsAgree, Copies
  <2>2. publisher[p].pc # "idle" => publisher[p].v \in Versions \ {v}
    BY <2>1, PublisherRecord
  <2> QED
    BY <2>1, <2>2 DEF FreshPublisher, Writes
<1>3. \A x \in Workers \ {s} : FreshWorker(x)'
  BY <1>1 DEF FreshWorker
<1>4. \A p \in Publishers \ {s} : FreshPublisher(p)'
  BY <1>2 DEF FreshPublisher
<1> QED
  BY <1>3, <1>4

LEMMA WriterOwnsAlone ==
    ASSUME TypeInv, SessionsAgree, NEW v \in Versions, NEW s, Writes(s, v),
           s \in Workers /\ Owner(s)' => worker'[s].v = v
    PROVE  OneFreshOwner'
<1> SUFFICES ASSUME NEW x \in Workers, NEW y \in Workers,
                    x \notin stale', y \notin stale', Owner(x)', Owner(y)',
                    worker'[x].v = worker'[y].v, x # y
             PROVE  FALSE
  BY DEF OneFreshOwner
<1>1. ASSUME NEW z \in Workers, z # s, z \notin stale', Owner(z)'
      PROVE  z \notin stale /\ worker'[z] = worker[z] /\ Owner(z) /\ worker[z].v # v
  BY <1>1 DEF Writes, Copies, Owner
<1>2. CASE x # s /\ y # s
  BY <1>1, <1>2 DEF SessionsAgree, OneFreshOwner
<1>3. CASE x = s
  BY <1>1, <1>3
<1>4. CASE y = s
  BY <1>1, <1>4
<1> QED
  BY <1>2, <1>3, <1>4

(* s writes no row; other sessions are untouched and stay marked.           *)
Moves(s) ==
    /\ \A x \in stale \ {s} : x \in stale'
    /\ \A x \in Workers \ {s} : worker'[x] = worker[x]
    /\ \A p \in Publishers \ {s} : publisher'[p] = publisher[p]
    /\ UNCHANGED <<status, document, lease_fresh, failure_code, lease_expired>>

LEMMA OthersStillAgree ==
    ASSUME SessionsAgree, NEW s, Moves(s)
    PROVE  /\ \A x \in Workers \ {s} : FreshWorker(x)'
           /\ \A p \in Publishers \ {s} : FreshPublisher(p)'
<1>1. ASSUME NEW x \in Workers \ {s} PROVE FreshWorker(x)'
  <2>1. FreshWorker(x) /\ worker'[x] = worker[x] /\ (x \notin stale' => x \notin stale)
    BY <1>1 DEF Moves, SessionsAgree
  <2> QED
    BY <2>1 DEF Moves, FreshWorker, Owner, Dropped, LeaseIsFresh
<1>2. ASSUME NEW p \in Publishers \ {s} PROVE FreshPublisher(p)'
  <2>1. FreshPublisher(p) /\ publisher'[p] = publisher[p] /\ (p \notin stale' => p \notin stale)
    BY <1>2 DEF Moves, SessionsAgree
  <2> QED
    BY <2>1 DEF Moves, FreshPublisher
<1> QED
  BY <1>1, <1>2

LEMMA MoverOwnsAlone ==
    ASSUME SessionsAgree, NEW s, Moves(s),
           s \in Workers /\ Owner(s)' /\ s \notin stale' =>
              Owner(s) /\ s \notin stale /\ worker'[s].v = worker[s].v
    PROVE  OneFreshOwner'
<1> SUFFICES ASSUME NEW x \in Workers, NEW y \in Workers,
                    x \notin stale', y \notin stale', Owner(x)', Owner(y)',
                    worker'[x].v = worker'[y].v
             PROVE  x = y
  BY DEF OneFreshOwner
<1>1. ASSUME NEW z \in Workers, z \notin stale', Owner(z)'
      PROVE  z \notin stale /\ Owner(z) /\ worker'[z].v = worker[z].v
  <2>1. CASE z = s
    BY <1>1, <2>1
  <2>2. CASE z # s
    BY <1>1, <2>2 DEF Moves, Owner
  <2> QED
    BY <2>1, <2>2
<1> QED
  BY <1>1 DEF SessionsAgree, OneFreshOwner

(* An invariant of the mover itself completes the argument.                 *)
LEMMA AgreeAgain ==
    ASSUME NEW s, s \in Workers => FreshWorker(s)', s \in Publishers => FreshPublisher(s)',
           \A x \in Workers \ {s} : FreshWorker(x)',
           \A p \in Publishers \ {s} : FreshPublisher(p)',
           OneFreshOwner'
    PROVE  SessionsAgree'
BY DEF SessionsAgree

LEMMA UploadAgrees ==
    ASSUME TypeInv, EventsExist, SessionsAgree, NEW p \in Publishers, NEW v \in Versions,
           Upload(p, v)
    PROVE  SessionsAgree'
<1>1. /\ publisher' = [publisher EXCEPT ![p] = [pc |-> "uploaded", v |-> v, n |-> 0,
                                               seen |-> "PENDING", document |-> "STORED"]]
      /\ status' = [status EXCEPT ![v] = "PENDING"]
      /\ document' = [document EXCEPT ![v] = "STORED"]
      /\ lease_fresh' = [lease_fresh EXCEPT ![v] = TRUE]
      /\ UNCHANGED <<worker, stale, failure_code, lease_expired>>
      /\ status[v] = "absent" /\ publisher[p].pc = "idle"
  BY DEF Upload, WriteStatus, WriteDocument
<1>2. ASSUME NEW x \in Workers PROVE FreshWorker(x)'
  <2>1. FreshWorker(x)
    BY DEF SessionsAgree
  <2>2. CASE worker[x].v = v
    BY <1>1, <2>1, <2>2 DEF FreshWorker, Owner, Dropped, LeaseIsFresh, Active, TypeInv, TypeOK
  <2>3. CASE worker[x].v # v
    BY <1>1, <2>1, <2>3 DEF FreshWorker, Owner, Dropped, LeaseIsFresh, TypeInv, TypeOK
  <2> QED
    BY <2>2, <2>3
<1>3. ASSUME NEW q \in Publishers PROVE FreshPublisher(q)'
  <2>1. CASE q = p
    BY <1>1, <2>1 DEF FreshPublisher, TypeInv, TypeOK
  <2>2. CASE q # p
    <3>1. publisher'[q] = publisher[q] /\ FreshPublisher(q)
      BY <1>1, <2>2 DEF TypeInv, TypeOK, SessionsAgree
    <3>2. publisher[q].pc # "idle" => publisher[q].v \in Versions \ {v}
      BY <1>1, PublisherRecord DEF EventsExist
    <3> QED
      BY <1>1, <3>1, <3>2 DEF FreshPublisher, TypeInv, TypeOK
  <2> QED
    BY <2>1, <2>2
<1>4. OneFreshOwner'
  BY <1>1 DEF SessionsAgree, OneFreshOwner, Owner
<1> QED
  BY <1>2, <1>3, <1>4 DEF SessionsAgree

LEMMA RetryAgrees ==
    ASSUME TypeInv, SessionsAgree, NEW v \in Versions, AnyRetry(v)
    PROVE  SessionsAgree'
<1>1. PICK nobody : nobody \notin Sessions
  BY NoSetContainsEverything
<1>2. Writes(nobody, v)
  BY DEF Retry, AdminRetry, RetryCommits, Writes, WriteStatus, WriteDocument, ClearFailure, TypeInv, TypeOK
<1> QED
  BY <1>1, <1>2, OthersAgree, WriterOwnsAlone, AgreeAgain DEF Sessions

LEMMA ExpireLeaseAgrees ==
    ASSUME SessionsAgree, NEW v \in Versions, ExpireLease(v), TypeInv
    PROVE  SessionsAgree'
<1>1. /\ lease_fresh' = [lease_fresh EXCEPT ![v] = FALSE]
      /\ UNCHANGED <<status, document, failure_code, lease_expired, worker, publisher, stale>>
  BY DEF ExpireLease
<1>2. \A u : Dropped(u)' => Dropped(u)
  BY <1>1 DEF Dropped, LeaseIsFresh, TypeInv, TypeOK
<1> QED
  BY <1>1, <1>2 DEF SessionsAgree, FreshWorker, FreshPublisher, OneFreshOwner, Owner

LEMMA MoverAgrees ==
    ASSUME SessionsAgree, NEW s, Moves(s),
           s \in Workers => FreshWorker(s)', s \in Publishers => FreshPublisher(s)',
           s \in Workers /\ Owner(s)' /\ s \notin stale' =>
              Owner(s) /\ s \notin stale /\ worker'[s].v = worker[s].v
    PROVE  SessionsAgree'
BY OthersStillAgree, MoverOwnsAlone, AgreeAgain

LEMMA WriterAgrees ==
    ASSUME TypeInv, SessionsAgree, NEW v \in Versions, NEW s, Writes(s, v),
           s \in Workers => FreshWorker(s)', s \in Publishers => FreshPublisher(s)',
           s \in Workers /\ Owner(s)' => worker'[s].v = v
    PROVE  SessionsAgree'
BY OthersAgree, WriterOwnsAlone, AgreeAgain

(* Publishers. *)
LEMMA PublisherMovesAgree ==
    ASSUME TypeInv, SessionsAgree, NEW p \in Publishers,
           \/ ClaimOwn(p) \/ Enqueue(p) \/ EnqueueFails(p) \/ LoadDocument(p)
           \/ PublisherFails(p) \/ \E e \in Events : ClaimPending(p, e)
    PROVE  SessionsAgree'
<1>0. p \notin Workers /\ FreshPublisher(p) /\ publisher[p] \in PublisherState
  BY SessionsAreDistinct, PublisherRecord DEF SessionsAgree
<1>1. CASE EnqueueFails(p) \/ PublisherFails(p)
  <2>1. Moves(p) /\ FreshPublisher(p)'
    BY <1>1, IdleSessions
    DEF EnqueueFails, PublisherFails, Moves, FreshPublisher, TypeInv, TypeOK
  <2> QED
    BY <1>0, <2>1, MoverAgrees
<1>2. CASE ClaimOwn(p)
  <2>1. Moves(p) /\ (p \notin stale' /\ publisher'[p].pc # "idle" => p \notin stale)
    BY <1>2, IdleSessions DEF ClaimOwn, Moves, TypeInv, TypeOK
  <2>2. \/ publisher'[p] = IdlePublisher
        \/ publisher'[p] = [publisher[p] EXCEPT !.pc = "claimed"] /\ publisher[p].pc # "idle"
    BY <1>2 DEF ClaimOwn, TypeInv, TypeOK
  <2>3. FreshPublisher(p)'
    BY <1>0, <2>1, <2>2, IdleSessions DEF FreshPublisher, Moves, PublisherState
  <2> QED
    BY <1>0, <2>1, <2>3, MoverAgrees
<1>3. CASE Enqueue(p)
  <2>1. Moves(p) /\ stale' = stale
    BY <1>3 DEF Enqueue, Moves, TypeInv, TypeOK
  <2>2. \E pc : publisher'[p] = [publisher[p] EXCEPT !.pc = pc] /\ publisher[p].pc # "idle"
    BY <1>3 DEF Enqueue, TypeInv, TypeOK
  <2>3. FreshPublisher(p)'
    BY <1>0, <2>1, <2>2 DEF FreshPublisher, Moves, PublisherState
  <2> QED
    BY <1>0, <2>1, <2>3, MoverAgrees
<1>4. CASE LoadDocument(p)
  <2>1. /\ publisher' = [publisher EXCEPT ![p] = [publisher[p] EXCEPT
                            !.pc = "loaded", !.document = document[publisher[p].v]]]
        /\ publisher[p].pc # "idle" /\ stale' = stale
    BY <1>4 DEF LoadDocument, TypeInv, TypeOK
  <2>2. Moves(p)
    BY <1>4, <2>1 DEF LoadDocument, Moves, TypeInv, TypeOK
  <2>3. FreshPublisher(p)'
    BY <1>0, <2>1, <2>2 DEF FreshPublisher, Moves, PublisherState, TypeInv, TypeOK
  <2> QED
    BY <1>0, <2>2, <2>3, MoverAgrees
<1>5. ASSUME NEW e \in Events, ClaimPending(p, e) PROVE SessionsAgree'
  <2>1. Moves(p)
    BY <1>5 DEF ClaimPending, Moves, TypeInv, TypeOK
  <2>2. /\ publisher'[p].v = e[1] /\ publisher'[p].seen = status[e[1]]
        /\ publisher'[p].document = "absent"
    BY <1>5 DEF ClaimPending, TypeInv, TypeOK
  <2>3. FreshPublisher(p)'
    BY <2>1, <2>2 DEF FreshPublisher, Moves
  <2> QED
    BY <1>0, <2>1, <2>3, MoverAgrees
<1> QED
  BY <1>1, <1>2, <1>3, <1>4, <1>5

LEMMA CommitPublishedAgrees ==
    ASSUME TypeInv, SessionsAgree, NEW p \in Publishers, CommitPublished(p)
    PROVE  SessionsAgree'
<1> DEFINE v == publisher[p].v
<1>0. p \notin Workers /\ v \in Versions
  BY SessionsAreDistinct, PublisherRecord DEF CommitPublished
<1>1. FreshPublisher(p)'
  BY IdleSessions DEF CommitPublished, FreshPublisher, TypeInv, TypeOK
<1>2. CASE Requeues(p)
  <2>1. Writes(p, v)
    BY <1>2 DEF CommitPublished, Writes, WriteStatus, WriteDocument, TypeInv, TypeOK
  <2> QED
    BY <1>0, <1>1, <2>1, WriterAgrees
<1>3. CASE ~Requeues(p)
  <2>1. Moves(p)
    BY <1>3 DEF CommitPublished, Moves, TypeInv, TypeOK
  <2> QED
    BY <1>0, <1>1, <2>1, MoverAgrees
<1> QED
  BY <1>2, <1>3

(* Workers. *)
LEMMA WorkerEndsAgrees ==
    ASSUME TypeInv, SessionsAgree, NEW w \in Workers,
           \/ ProviderUnconfigured(w) \/ Drop(w) \/ CeleryRetry(w) \/ Crash(w)
           \/ \E v \in Versions, t \in 0 .. MaxTries : Receive(w, v, t)
    PROVE  SessionsAgree'
<1>0. w \notin Publishers
  BY SessionsAreDistinct
<1>1. Moves(w)
  <2>1. CASE ProviderUnconfigured(w) \/ Drop(w) \/ CeleryRetry(w) \/ Crash(w)
    BY <2>1 DEF ProviderUnconfigured, Drop, CeleryRetry, Crash, Moves, TypeInv, TypeOK
  <2>2. ASSUME NEW v \in Versions, NEW t \in 0 .. MaxTries, Receive(w, v, t) PROVE Moves(w)
    BY ZenonT(40), <2>2 DEF Receive, Moves, TypeInv, TypeOK
  <2> QED
    BY <2>1, <2>2
<1>2. worker'[w].pc \in {"idle", "received"}
  <2>1. CASE ProviderUnconfigured(w) \/ Drop(w) \/ CeleryRetry(w) \/ Crash(w)
    BY <2>1, IdleSessions DEF ProviderUnconfigured, Drop, CeleryRetry, Crash, TypeInv, TypeOK
  <2>2. ASSUME NEW v \in Versions, NEW t \in 0 .. MaxTries, Receive(w, v, t)
        PROVE  worker'[w].pc = "received"
    <3>1. worker' = [worker EXCEPT ![w] = [IdleWorker EXCEPT !.pc = "received", !.v = v,
                                                             !.tries = t]]
      BY <2>2 DEF Receive
    <3> QED
      BY <3>1, IdleSessions DEF TypeInv, TypeOK, WorkerState
  <2> QED
    BY <2>1, <2>2
<1>3. ~Owner(w)' /\ FreshWorker(w)'
  BY <1>2 DEF Owner, Processing, Active, FreshWorker
<1> QED
  BY <1>0, <1>1, <1>3, MoverAgrees

LEMMA StartAgrees ==
    ASSUME TypeInv, AttemptsAreOwned, ExpiredCounted, SessionsAgree, NEW w \in Workers, Start(w)
    PROVE  SessionsAgree'
<1> DEFINE v == worker[w].v
           a == attempt_count[v] + 1
<1>0. w \notin Publishers /\ v \in Versions /\ worker[w] \in WorkerState
  BY SessionsAreDistinct, WorkerRecord DEF Start
<1>1. a \in Attempts /\ attempt_count[v] \in Nat
  BY <1>0, BoundsAreNaturals DEF Start, NextAttempt, TypeInv, TypeOK
<1>2. /\ worker' = [worker EXCEPT ![w] = [worker[w] EXCEPT !.pc = "EXTRACTING", !.attempt = a]]
      /\ status' = [status EXCEPT ![v] = "EXTRACTING"]
      /\ failure_code' = [failure_code EXCEPT ![v] = FALSE]
      /\ lease_expired' = [lease_expired EXCEPT ![v] = @ \cup LatestActive(v)]
  BY DEF Start, NextAttempt, WriteStatus, ClearFailure, TypeInv, TypeOK
<1>3. Writes(w, v)
  BY <1>0, <1>2 DEF Start, Writes, WriteStatus, WriteDocument, TypeInv, TypeOK
<1>4. worker'[w].v = v /\ worker'[w].attempt = a /\ worker'[w].pc = "EXTRACTING"
  BY <1>0, <1>2 DEF TypeInv, TypeOK, WorkerState
<1>5. a \notin lease_expired'[v]
  <2>1. a \notin lease_expired[v]
    BY <1>0, <1>1 DEF ExpiredCounted
  <2>2. a \notin LatestActive(v)
    BY <1>0, <1>1 DEF LatestActive, Active, AttemptsAreOwned
  <2> QED
    BY <1>0, <1>2, <2>1, <2>2 DEF TypeInv, TypeOK
<1>6. FreshWorker(w)'
  BY <1>0, <1>2, <1>4, <1>5 DEF FreshWorker, Active, TypeInv, TypeOK
<1> QED
  BY <1>0, <1>3, <1>4, <1>6, WriterAgrees

LEMMA StartFailsAgrees ==
    ASSUME TypeInv, SessionsAgree, NEW w \in Workers, StartFails(w)
    PROVE  SessionsAgree'
<1>0. w \notin Publishers /\ worker[w] \in WorkerState /\ worker[w].attempt = 0
  BY SessionsAreDistinct, WorkerRecord DEF StartFails, WorkerHolds
<1>1. Moves(w)
  BY DEF StartFails, Moves, TypeInv, TypeOK
<1>2. worker'[w] = [worker[w] EXCEPT !.pc = "failing"] /\ ~Dropped(worker[w].v)
  BY DEF StartFails, TypeInv, TypeOK
<1>3. worker'[w].v = worker[w].v /\ worker'[w].pc = "failing" /\ worker'[w].attempt = 0
  BY <1>0, <1>2 DEF WorkerState
<1>4. ~Owner(w)'
  BY <1>3 DEF Owner, Processing, Active
<1>5. FreshWorker(w)'
  BY <1>1, <1>2, <1>3, <1>4 DEF FreshWorker, Moves, Dropped, LeaseIsFresh, Processing, Active
<1> QED
  BY <1>0, <1>1, <1>4, <1>5, MoverAgrees

LEMMA EnterStageAgrees ==
    ASSUME TypeInv, SessionsAgree, NEW w \in Workers, NEW from \in Active, NEW to \in Active,
           EnterStage(w, from, to)
    PROVE  SessionsAgree'
<1> DEFINE v == worker[w].v
<1>0. /\ w \notin Publishers /\ v \in Versions /\ worker[w] \in WorkerState
      /\ worker[w].attempt # 0 /\ worker[w].pc \in Active
  BY SessionsAreDistinct, WorkerRecord, BoundsAreNaturals
  DEF EnterStage, Active, Processing, Attempts
<1>1. Writes(w, v)
  BY <1>0 DEF EnterStage, Writes, WriteStatus, WriteDocument, TypeInv, TypeOK
<1>2. /\ worker'[w].v = v /\ worker'[w].attempt = worker[w].attempt /\ worker'[w].pc = to
      /\ status'[v] = to /\ (w \notin stale' => w \notin stale)
      /\ UNCHANGED <<failure_code, lease_expired>>
  BY <1>0 DEF EnterStage, WriteStatus, TypeInv, TypeOK, WorkerState
<1>3. FreshWorker(w)'
  BY <1>0, <1>2 DEF FreshWorker, SessionsAgree, Processing, Active
<1> QED
  BY <1>0, <1>1, <1>2, <1>3, WriterAgrees

LEMMA DeleteOrRaiseAgrees ==
    ASSUME TypeInv, SessionsAgree, NEW w \in Workers, DeleteChunks(w) \/ Raise(w)
    PROVE  SessionsAgree'
<1>0. /\ w \notin Publishers /\ worker[w] \in WorkerState /\ worker[w].attempt # 0
      /\ worker[w].pc \in Processing /\ FreshWorker(w)
  <2>1. worker[w].pc \in Processing
    BY DEF DeleteChunks, Raise, Processing, Active
  <2> QED
    BY <2>1, SessionsAreDistinct, WorkerRecord DEF WorkerHolds, SessionsAgree
<1>1. Moves(w) /\ stale' = stale
  BY DEF DeleteChunks, Raise, Moves, TypeInv, TypeOK
<1>2. /\ worker'[w].v = worker[w].v /\ worker'[w].attempt = worker[w].attempt
      /\ worker'[w].pc \in {"REPLACING", "failing"}
  <2>1. CASE DeleteChunks(w)
    BY <1>0, <2>1 DEF DeleteChunks, TypeInv, TypeOK, WorkerState
  <2>2. CASE Raise(w)
    <3>1. PICK transient \in BOOLEAN :
            worker' = [worker EXCEPT ![w].pc = "failing", ![w].transient = transient,
                                     ![w].deleted = {}]
      BY <2>2 DEF Raise
    <3> QED
      BY <1>0, <3>1 DEF TypeInv, TypeOK, WorkerState
  <2> QED
    BY <2>1, <2>2
<1>3. Owner(w) /\ FreshWorker(w)'
  BY <1>0, <1>1, <1>2 DEF FreshWorker, Owner, Moves
<1> QED
  BY <1>0, <1>1, <1>2, <1>3, MoverAgrees

LEMMA FinalizeAgrees ==
    ASSUME TypeInv, SessionsAgree, NEW w \in Workers, Finalize(w)
    PROVE  SessionsAgree'
<1>0. w \notin Publishers /\ worker[w].v \in Versions
  BY SessionsAreDistinct, WorkerRecord DEF Finalize
<1>1. Writes(w, worker[w].v)
  BY <1>0 DEF Finalize, Writes, WriteStatus, WriteDocument, TypeInv, TypeOK
<1>2. worker'[w].pc = "idle"
  BY IdleSessions DEF Finalize, TypeInv, TypeOK
<1>3. ~Owner(w)' /\ FreshWorker(w)'
  BY <1>2 DEF Owner, Processing, Active, FreshWorker
<1> QED
  BY <1>0, <1>1, <1>3, WriterAgrees

LEMMA RecordFailureAgrees ==
    ASSUME TypeInv, SessionsAgree, NEW w \in Workers, RecordFailure(w)
    PROVE  SessionsAgree'
<1> DEFINE v == worker[w].v
<1>0. w \notin Publishers /\ v \in Versions /\ worker[w] \in WorkerState
  BY SessionsAreDistinct, WorkerRecord DEF RecordFailure
<1>1. worker'[w].pc \in {"idle", "raised"}
  BY <1>0, IdleSessions DEF RecordFailure, TypeInv, TypeOK, WorkerState
<1>2. ~Owner(w)' /\ FreshWorker(w)'
  BY <1>1 DEF Owner, Processing, Active, FreshWorker
<1>3. CASE KeepsStatus(v)
  <2>1. Moves(w)
    BY <1>3 DEF RecordFailure, Moves, TypeInv, TypeOK
  <2> QED
    BY <1>0, <1>2, <2>1, MoverAgrees
<1>4. CASE ~KeepsStatus(v)
  <2>1. Writes(w, v)
    <3>1. /\ WriteStatus(v, "FAILED") /\ WriteDocument(v, "FAILED")
          /\ failure_code' = [failure_code EXCEPT ![v] = TRUE]
          /\ lease_expired' = [lease_expired EXCEPT ![v] = @ \ {worker[w].attempt}]
          /\ stale' = (stale \cup Copies(v)) \ {w}
      BY <1>4 DEF RecordFailure
    <3>2. \A x \in Workers \ {w} : worker'[x] = worker[x]
      BY DEF RecordFailure, TypeInv, TypeOK
    <3> QED
      BY <1>0, <3>1, <3>2 DEF RecordFailure, Writes, WriteStatus, WriteDocument, TypeInv, TypeOK
  <2> QED
    BY <1>0, <1>2, <2>1, WriterAgrees
<1> QED
  BY <1>3, <1>4

LEMMA LeaseInvStep ==
    TypeInv /\ TypeInv' /\ AttemptsAreOwned /\ LeaseInv /\ [Next]_vars => LeaseInv'
<1> SUFFICES ASSUME TypeInv, TypeInv', AttemptsAreOwned, LeaseInv, [Next]_vars PROVE LeaseInv'
  OBVIOUS
<1> USE DEF LeaseInv
<1>1. EventsExist' /\ ExpiredCounted'
  BY EventsStep, ExpiredStep
<1>2. ASSUME NEW p \in Publishers, PublishStep(p) \/ PublisherFails(p) PROVE SessionsAgree'
  BY <1>2, PublisherMovesAgree, CommitPublishedAgrees DEF PublishStep
<1>3. ASSUME NEW w \in Workers,
             \/ TaskStep(w) \/ StartFails(w) \/ Crash(w)
             \/ \E v \in Versions, t \in 0 .. MaxTries : Receive(w, v, t)
      PROVE  SessionsAgree'
  <2>1. CASE FinishExtraction(w) \/ FinishChunking(w)
    BY <2>1, EnterStageAgrees DEF FinishExtraction, FinishChunking, Active
  <2>2. CASE TaskStep(w)
    BY <2>1, <2>2, WorkerEndsAgrees, StartAgrees, DeleteOrRaiseAgrees, FinalizeAgrees,
       RecordFailureAgrees DEF TaskStep
  <2> QED
    BY <1>3, <2>2, WorkerEndsAgrees, StartFailsAgrees
<1>4. CASE Faulty
  BY <1>1, <1>2, <1>3, <1>4, ExpireLeaseAgrees DEF Faulty
<1>5. CASE Unmoved
  <2>1. PICK nobody : nobody \notin Sessions
    BY NoSetContainsEverything
  <2>2. Moves(nobody)
    BY <1>5 DEF Moves
  <2>3. SessionsAgree'
    BY <2>1, <2>2, MoverAgrees DEF Sessions
  <2> QED
    BY <1>1, <2>3
<1> QED
  <2>1. CASE \E p \in Publishers, v \in Versions : Upload(p, v)
    BY <1>1, <2>1, UploadAgrees
  <2>2. CASE \E v \in Versions : AnyRetry(v)
    BY <1>1, <2>2, RetryAgrees
  <2>3. CASE \E p \in Publishers, e \in Events : ClaimPending(p, e)
    BY <1>1, <2>3, PublisherMovesAgree
  <2> QED
    BY <1>1, <1>2, <1>3, <1>4, <1>5, <2>1, <2>2, <2>3, StepParts DEF AnyStep

LEMMA InitLease == Init => LeaseInv
<1> SUFFICES ASSUME Init PROVE LeaseInv
  OBVIOUS
<1>1. \A w \in Workers : worker[w].pc = "idle"
  BY IdleSessions DEF Init
<1>2. \A p \in Publishers : publisher[p].pc = "idle"
  BY IdleSessions DEF Init
<1>3. SessionsAgree
  BY <1>1, <1>2 DEF SessionsAgree, FreshWorker, FreshPublisher, OneFreshOwner, Owner, Processing,
     Active
<1>4. EventsExist /\ ExpiredCounted
  BY <1>2 DEF Init, EventsExist, ExpiredCounted
<1> QED
  BY <1>3, <1>4 DEF LeaseInv

(* An up-to-date session agrees with its row, and owns it alone. *)
THEOREM UpToDateSessionsAgree == Spec => []LeaseInv
<1> QED
  BY InitLease, LeaseInvStep, TypeCorrect, AttemptNumbers, PTL DEF Spec

-----------------------------------------------------------------------------
(***************************************************************************)
(* What follows from LeaseInv: that only sessions which were overtaken can *)
(* do harm (the action properties), that the document row follows its      *)
(* version, that a waiting version always has a carrier, and that          *)
(* Ingestion implements IndexPublication.                                  *)
(***************************************************************************)

-----------------------------------------------------------------------------
(*                        What only a stale session does                    *)

LEMMA WorkerActs ==
    ASSUME NEW w \in Workers, worker'[w].pc # worker[w].pc
    PROVE  Acts(w)
BY DEF Acts

LEMMA PublisherActs ==
    ASSUME NEW p \in Publishers, publisher'[p].pc # publisher[p].pc
    PROVE  Acts(p)
BY SessionsAreDistinct DEF Acts

(* Every action that writes a status ends or advances its session.          *)
LEMMA WriterActs ==
    ASSUME TypeInv, NEW s,
           \/ s \in Publishers /\ CommitPublished(s)
           \/ s \in Workers /\ (FinishExtraction(s) \/ FinishChunking(s) \/ Finalize(s)
                                \/ RecordFailure(s))
    PROVE  Acts(s)
<1>1. CASE s \in Publishers /\ CommitPublished(s)
  <2>1. publisher'[s].pc = "idle" /\ publisher[s].pc = "loaded"
    BY <1>1, IdleSessions DEF CommitPublished, TypeInv, TypeOK
  <2> QED
    BY <1>1, <2>1, PublisherActs
<1>2. CASE s \in Workers /\ (FinishExtraction(s) \/ FinishChunking(s))
  <2>1. worker[s] \in WorkerState /\ worker'[s].pc # worker[s].pc
    BY <1>2 DEF FinishExtraction, FinishChunking, EnterStage, TypeInv, TypeOK, WorkerState
  <2> QED
    BY <1>2, <2>1, WorkerActs
<1>3. CASE s \in Workers /\ Finalize(s)
  <2>1. worker'[s].pc = "idle" /\ worker[s].pc = "REPLACING"
    BY <1>3, IdleSessions DEF Finalize, TypeInv, TypeOK
  <2> QED
    BY <1>3, <2>1, WorkerActs
<1>4. CASE s \in Workers /\ RecordFailure(s)
  <2>1. worker'[s].pc # "failing" /\ worker[s].pc = "failing"
    BY <1>4, IdleSessions DEF RecordFailure, TypeInv, TypeOK, WorkerState
  <2> QED
    BY <1>4, <2>1, WorkerActs
<1> QED
  BY <1>1, <1>2, <1>3, <1>4

(* A step that writes no version row and marks no copy.                     *)
Quiet == status' = status /\ stale' \subseteq stale

LEMMA QuietSteps ==
    ASSUME TypeInv, [Next]_vars
    PROVE  \/ Quiet
           \/ \E p \in Publishers, v \in Versions : Upload(p, v)
           \/ \E v \in Versions : AnyRetry(v)
           \/ \E p \in Publishers : CommitPublished(p) /\ Requeues(p)
           \/ \E w \in Workers : \/ Start(w) \/ FinishExtraction(w) \/ FinishChunking(w)
                                 \/ Finalize(w)
                                 \/ RecordFailure(w) /\ ~KeepsStatus(worker[w].v)
<1>1. ASSUME NEW p \in Publishers,
             \/ PublishStep(p) \/ PublisherFails(p) \/ \E e \in Events : ClaimPending(p, e)
      PROVE  Quiet \/ (CommitPublished(p) /\ Requeues(p))
  BY <1>1 DEF PublishStep, ClaimOwn, Enqueue, EnqueueFails, LoadDocument, CommitPublished,
              PublisherFails, ClaimPending, Quiet
<1>2. ASSUME NEW w \in Workers,
             \/ TaskStep(w) \/ StartFails(w) \/ Crash(w)
             \/ \E v \in Versions, t \in 0 .. MaxTries : Receive(w, v, t)
      PROVE  \/ Quiet \/ Start(w) \/ FinishExtraction(w) \/ FinishChunking(w) \/ Finalize(w)
             \/ RecordFailure(w) /\ ~KeepsStatus(worker[w].v)
  BY <1>2 DEF TaskStep, ProviderUnconfigured, Drop, DeleteChunks, Raise, RecordFailure,
              CeleryRetry, StartFails, Crash, Receive, Quiet
<1>3. CASE Unmoved \/ \E v \in Versions : ExpireLease(v)
  BY <1>3 DEF ExpireLease, Quiet
<1> QED
  BY <1>1, <1>2, <1>3, StepParts DEF AnyStep, Faulty

(* OnlyStaleSessionsUndoReady, for one step. *)
LEMMA ReadyStep ==
    ASSUME TypeInv, LeaseInv, [Next]_vars, NEW v \in Versions,
           status[v] = "READY", status'[v] # "READY"
    PROVE  \E s \in stale : Acts(s) /\ (s \in Workers => worker[s].pc \in Active)
<1> USE DEF LeaseInv
<1>1. CASE \E p \in Publishers, u \in Versions : Upload(p, u)
  BY <1>1 DEF Upload, WriteStatus, TypeInv, TypeOK
<1>2. CASE \E u \in Versions : AnyRetry(u)
  BY <1>2 DEF Retry, AdminRetry, RetryCommits, Retryable, WriteStatus, TypeInv, TypeOK
<1>3. ASSUME NEW p \in Publishers, CommitPublished(p), Requeues(p)
      PROVE  p \in stale /\ Acts(p) /\ p \notin Workers
  <2>1. publisher[p].v = v
    BY <1>3 DEF CommitPublished, WriteStatus, TypeInv, TypeOK
  <2>2. p \in stale
    BY <1>3, <2>1 DEF CommitPublished, Requeues, SessionsAgree, FreshPublisher
  <2> QED
    BY <1>3, <2>2, WriterActs, SessionsAreDistinct
<1>4. ASSUME NEW w \in Workers, FinishExtraction(w) \/ FinishChunking(w)
      PROVE  w \in stale /\ Acts(w) /\ worker[w].pc \in Active
  <2>1. worker[w].v = v /\ worker[w].pc \in Active
    BY <1>4 DEF FinishExtraction, FinishChunking, EnterStage, WriteStatus, TypeInv, TypeOK, Active
  <2>2. w \in stale
    BY <2>1 DEF SessionsAgree, FreshWorker, Owner, Processing, Active
  <2> QED
    BY <1>4, <2>1, <2>2, WriterActs
<1>5. ASSUME NEW w \in Workers,
             Start(w) \/ Finalize(w) \/ (RecordFailure(w) /\ ~KeepsStatus(worker[w].v))
      PROVE  FALSE
  <2>1. CASE Start(w)
    BY <2>1 DEF Start, Dropped, WriteStatus, TypeInv, TypeOK
  <2>2. CASE Finalize(w)
    BY <2>2 DEF Finalize, WriteStatus, TypeInv, TypeOK
  <2>3. CASE RecordFailure(w) /\ ~KeepsStatus(worker[w].v)
    BY <2>3 DEF RecordFailure, KeepsStatus, WriteStatus, TypeInv, TypeOK
  <2> QED
    BY <1>5, <2>1, <2>2, <2>3
<1> QED
  BY <1>1, <1>2, <1>3, <1>4, <1>5, QuietSteps DEF Quiet

(* OvertakenOnlyAfterExpiry, for one step. *)
LEMMA OvertakenStep ==
    ASSUME TypeInv, LeaseInv, [Next]_vars, NEW w \in Workers,
           worker[w].pc \in Processing, w \notin stale, w \in stale'
    PROVE  ~lease_fresh[worker[w].v] \/ \E s \in stale : Acts(s)
<1> DEFINE v == worker[w].v
<1> USE DEF LeaseInv
<1>0. Owner(w) /\ status[v] \in Active /\ v \in Versions
  BY WorkerRecord DEF SessionsAgree, FreshWorker, Owner, Processing, Active
<1>1. CASE \E p \in Publishers, u \in Versions : Upload(p, u)
  BY <1>1 DEF Upload
<1>2. ASSUME NEW u \in Versions, AnyRetry(u) PROVE FALSE
  <2>1. u = v /\ status[u] = "FAILED"
    BY <1>2, SessionsAreDistinct DEF Retry, AdminRetry, RetryCommits, Retryable, Copies
  <2> QED
    BY <1>0, <2>1 DEF Active
<1>3. ASSUME NEW p \in Publishers, CommitPublished(p), Requeues(p)
      PROVE  p \in stale /\ Acts(p)
  <2>1. publisher[p].v = v
    BY <1>3, SessionsAreDistinct DEF CommitPublished, Copies
  <2>2. p \in stale
    BY <1>0, <1>3, <2>1 DEF CommitPublished, Requeues, SessionsAgree, FreshPublisher, Active
  <2> QED
    BY <1>3, <2>2, WriterActs
<1>4. ASSUME NEW x \in Workers, Start(x) PROVE ~lease_fresh[v]
  <2>1. worker[x].v = v
    BY <1>4, SessionsAreDistinct DEF Start, Copies
  <2> QED
    BY <1>0, <1>4, <2>1 DEF Start, Dropped, LeaseIsFresh
<1>5. ASSUME NEW x \in Workers, FinishExtraction(x) \/ FinishChunking(x) \/ Finalize(x)
      PROVE  x \in stale /\ Acts(x)
  <2>1. worker[x].v = v /\ x # w /\ worker[x].pc \in Processing
    BY <1>5, SessionsAreDistinct
    DEF FinishExtraction, FinishChunking, EnterStage, Finalize, Copies, Processing, Active
  <2>2. x \in stale
    BY <1>0, <2>1 DEF SessionsAgree, OneFreshOwner, Owner
  <2> QED
    BY <1>5, <2>2, WriterActs
<1>6. ASSUME NEW x \in Workers, RecordFailure(x), ~KeepsStatus(worker[x].v)
      PROVE  ~lease_fresh[v] \/ (x \in stale /\ Acts(x))
  <2>1. worker[x].v = v /\ x # w /\ worker[x].pc = "failing"
    BY <1>6, SessionsAreDistinct DEF RecordFailure, Copies
  <2>2. CASE worker[x].attempt = 0
    BY <1>0, <1>6, <2>1, <2>2, WriterActs DEF SessionsAgree, FreshWorker, Dropped, LeaseIsFresh
  <2>3. CASE worker[x].attempt # 0
    BY <1>0, <1>6, <2>1, <2>3, WriterActs DEF SessionsAgree, OneFreshOwner, Owner
  <2> QED
    BY <2>2, <2>3
<1> QED
  BY <1>1, <1>2, <1>3, <1>4, <1>5, <1>6, QuietSteps DEF Quiet

(* UndisturbedFinishIsClean, for one step. *)
LEMMA CleanStep ==
    ASSUME LeaseInv, NEW w \in Workers, Finalize(w), w \notin stale
    PROVE  /\ ~failure_code'[worker[w].v]
           /\ worker[w].attempt \notin lease_expired'[worker[w].v]
BY DEF Finalize, LeaseInv, SessionsAgree, FreshWorker, Processing

(* The lease excludes a second worker while it is fresh: an up-to-date      *)
(* worker is overtaken only after expiry or by a stale session.             *)
THEOREM LeaseExcludes == Spec => OvertakenOnlyAfterExpiry
<1>1. TypeInv /\ LeaseInv /\ [Next]_vars =>
        [\A w \in Workers :
           /\ worker[w].pc \in Processing /\ w \notin stale /\ w \in stale'
           => \/ ~lease_fresh[worker[w].v]
              \/ \E s \in stale : Acts(s)]_vars
  BY OvertakenStep
<1> QED
  BY <1>1, TypeCorrect, UpToDateSessionsAgree, PTL DEF Spec, OvertakenOnlyAfterExpiry

(* READY is undone only by a session whose copy of the row is outdated.     *)
THEOREM ReadyIsRespected == Spec => OnlyStaleSessionsUndoReady
<1>1. TypeInv /\ LeaseInv /\ [Next]_vars =>
        [\A v \in Versions : status[v] = "READY" /\ status'[v] # "READY" =>
           \E s \in stale : Acts(s) /\ (s \in Workers => worker[s].pc \in Active)]_vars
  BY ReadyStep
<1> QED
  BY <1>1, TypeCorrect, UpToDateSessionsAgree, PTL DEF Spec, OnlyStaleSessionsUndoReady

(* A worker nobody overtook makes its version READY with a clean row.       *)
THEOREM CleanFinish == Spec => UndisturbedFinishIsClean
<1>1. LeaseInv =>
        [\A w \in Workers : Finalize(w) /\ w \notin stale =>
           /\ ~failure_code'[worker[w].v]
           /\ worker[w].attempt \notin lease_expired'[worker[w].v]]_vars
  BY CleanStep
<1> QED
  BY <1>1, UpToDateSessionsAgree, PTL DEF Spec, UndisturbedFinishIsClean

-----------------------------------------------------------------------------
(*                 The document row follows its version                     *)

DocumentOf(s) == IF s = "PENDING" THEN "STORED" ELSE s

Follows(v) ==
    /\ admin[v] = "missed" => status[v] = "QUEUED" /\ document[v] = "FAILED"
    /\ admin[v] # "missed" /\ v \notin clobbered => document[v] = DocumentOf(status[v])

(* The inductive part: a version whose status was clobbered waits, so a     *)
(* version that FAILED has its document FAILED when it is retried.          *)
DocumentInv == \A v \in Versions : Follows(v) /\ (v \in clobbered => status[v] = "QUEUED")

LEMMA FollowsDefined == DocumentFollowsVersion <=> \A v \in Versions : Follows(v)
BY DEF DocumentFollowsVersion, Follows, DocumentOf

LEMMA DocumentsStay ==
    ASSUME DocumentInv, UNCHANGED <<status, document, clobbered>>,
           \A v \in Versions : admin'[v] = "missed" <=> admin[v] = "missed"
    PROVE  DocumentInv'
BY DEF DocumentInv, Follows

(* The versions a step does not write. *)
LEMMA OtherDocumentsStay ==
    ASSUME TypeInv, DocumentInv, NEW v \in Versions, NEW s, NEW u \in Versions \ {v},
           status' = [status EXCEPT ![v] = s],
           document'[u] = document[u], admin'[u] = admin[u],
           clobbered' \ {v} = clobbered \ {v}
    PROVE  Follows(u)' /\ (u \in clobbered' => status'[u] = "QUEUED")
<1>1. status'[u] = status[u] /\ (u \in clobbered' <=> u \in clobbered)
  BY DEF TypeInv, TypeOK
<1> QED
  BY <1>1 DEF DocumentInv, Follows

LEMMA DocumentIsWritten ==
    ASSUME TypeInv, DocumentInv, NEW v \in Versions, NEW s \in Status,
           WriteStatus(v, s), WriteDocument(v, DocumentOf(s)),
           v \notin clobbered', clobbered' \ {v} = clobbered \ {v}
    PROVE  DocumentInv'
<1>1. /\ status' = [status EXCEPT ![v] = s] /\ status'[v] = s
      /\ document'[v] = DocumentOf(s) /\ admin'[v] # "missed"
      /\ \A u \in Versions \ {v} : document'[u] = document[u] /\ admin'[u] = admin[u]
  BY DEF WriteStatus, WriteDocument, DocumentUpdated, TypeInv, TypeOK
<1>2. Follows(v)'
  BY <1>1 DEF Follows
<1>3. ASSUME NEW u \in Versions \ {v} PROVE Follows(u)' /\ (u \in clobbered' => status'[u] = "QUEUED")
  <2>1. document'[u] = document[u] /\ admin'[u] = admin[u] /\ status' = [status EXCEPT ![v] = s]
    BY <1>1
  <2> QED
    BY <2>1, OtherDocumentsStay
<1> QED
  BY <1>2, <1>3 DEF DocumentInv

LEMMA CommitPublishedFollows ==
    ASSUME TypeInv, LeaseInv, DocumentInv, NEW p \in Publishers, CommitPublished(p)
    PROVE  DocumentInv'
<1>0. PICK v \in Versions : v = publisher[p].v
  BY PublisherRecord DEF CommitPublished
<1>a. publisher[p].pc = "loaded" /\ FreshPublisher(p)
  BY DEF CommitPublished, LeaseInv, SessionsAgree
<1>1. CASE Requeues(p) /\ publisher[p].document # "QUEUED"
  <2>1. WriteStatus(v, "QUEUED") /\ WriteDocument(v, "QUEUED")
        /\ clobbered' = IF p \in stale THEN clobbered \cup {v} ELSE clobbered \ {v}
    BY <1>0, <1>1 DEF CommitPublished
  <2>2. /\ status' = [status EXCEPT ![v] = "QUEUED"] /\ status'[v] = "QUEUED"
        /\ document'[v] = "QUEUED" /\ admin'[v] # "missed"
        /\ \A u \in Versions \ {v} : document'[u] = document[u] /\ admin'[u] = admin[u]
    BY <1>0, <2>1 DEF WriteStatus, WriteDocument, DocumentUpdated, TypeInv, TypeOK
  <2>3. Follows(v)'
    BY <2>2 DEF Follows, DocumentOf
  <2>4. clobbered' \ {v} = clobbered \ {v}
    BY <2>1
  <2>5. ASSUME NEW u \in Versions \ {v}
        PROVE  Follows(u)' /\ (u \in clobbered' => status'[u] = "QUEUED")
    <3>1. /\ status' = [status EXCEPT ![v] = "QUEUED"]
          /\ document'[u] = document[u] /\ admin'[u] = admin[u]
      BY <2>2
    <3> QED
      BY <2>4, <3>1, OtherDocumentsStay
  <2> QED
    BY <2>2, <2>3, <2>5 DEF DocumentInv
<1>2. CASE Requeues(p) /\ publisher[p].document = "QUEUED"
  <2>1. WriteStatus(v, "QUEUED") /\ UNCHANGED <<document, admin>>
        /\ clobbered' = IF p \in stale THEN clobbered \cup {v} ELSE clobbered \ {v}
    BY <1>0, <1>2 DEF CommitPublished
  <2>2. status' = [status EXCEPT ![v] = "QUEUED"] /\ status'[v] = "QUEUED"
    BY <1>0, <2>1 DEF WriteStatus, TypeInv, TypeOK
  <2>3. p \notin stale => document[v] = "QUEUED"
    BY <1>0, <1>a, <1>2 DEF FreshPublisher
  <2>4. admin[v] = "missed" => document[v] = "FAILED"
    BY <1>0 DEF DocumentInv, Follows
  <2>5. document'[v] = document[v] /\ admin'[v] = admin[v]
        /\ (v \notin clobbered' => p \notin stale)
    BY <2>1
  <2>6. Follows(v)'
    BY <2>2, <2>3, <2>4, <2>5 DEF Follows, DocumentOf
  <2>7. clobbered' \ {v} = clobbered \ {v}
    BY <2>1
  <2>8. ASSUME NEW u \in Versions \ {v}
        PROVE  Follows(u)' /\ (u \in clobbered' => status'[u] = "QUEUED")
    BY <1>0, <2>1, <2>2, <2>7, OtherDocumentsStay
  <2> QED
    BY <2>2, <2>6, <2>8 DEF DocumentInv
<1>3. CASE ~Requeues(p)
  BY <1>3, DocumentsStay DEF CommitPublished
<1> QED
  BY <1>1, <1>2, <1>3

(* A retry finds the document FAILED, whatever the administrator's copy.    *)
LEMMA RetryFollows ==
    ASSUME TypeInv, DocumentInv, NEW v \in Versions, AnyRetry(v)
    PROVE  DocumentInv'
<1>1. /\ status[v] = "FAILED" /\ WriteStatus(v, "QUEUED") /\ clobbered' = clobbered \ {v}
  BY DEF Retry, AdminRetry, RetryCommits, Retryable
<1>2. CASE Retry(v)
  BY <1>1, <1>2, DocumentIsWritten DEF Retry, Status, DocumentOf
<1>3. CASE AdminRetry(v)
  <2>1. document[v] = "FAILED" /\ admin[v] = "waiting"
    BY <1>1, <1>3 DEF AdminRetry, DocumentInv, Follows, DocumentOf
  <2>2. /\ admin' = [admin EXCEPT ![v] = "missed"] /\ document' = document
        /\ status' = [status EXCEPT ![v] = "QUEUED"]
    BY <1>1, <1>3, <2>1 DEF AdminRetry, WriteStatus
  <2>3. /\ admin'[v] = "missed" /\ status'[v] = "QUEUED"
        /\ \A u \in Versions \ {v} : admin'[u] = admin[u] /\ document'[u] = document[u]
    BY <2>2 DEF TypeInv, TypeOK
  <2>4. Follows(v)'
    BY <2>1, <2>2, <2>3 DEF Follows
  <2>5. clobbered' \ {v} = clobbered \ {v}
    BY <1>1
  <2>6. ASSUME NEW u \in Versions \ {v}
        PROVE  Follows(u)' /\ (u \in clobbered' => status'[u] = "QUEUED")
    <3>1. document'[u] = document[u] /\ admin'[u] = admin[u] /\ status' = [status EXCEPT ![v] = "QUEUED"]
      BY <2>2, <2>3
    <3> QED
      BY <2>5, <3>1, OtherDocumentsStay
  <2> QED
    BY <2>3, <2>4, <2>6 DEF DocumentInv
<1> QED
  BY <1>2, <1>3

LEMMA DocumentStep ==
    TypeInv /\ LeaseInv /\ DocumentInv /\ [Next]_vars => DocumentInv'
<1> SUFFICES ASSUME TypeInv, LeaseInv, DocumentInv, [Next]_vars
             PROVE  DocumentInv'
  OBVIOUS
<1>1. CASE \E v \in Versions : AdminWaits(v) \/ AdminRefused(v)
  <2>1. UNCHANGED <<status, document, clobbered>>
    BY <1>1 DEF AdminWaits, AdminRefused
  <2>2. \A v \in Versions : admin'[v] = "missed" <=> admin[v] = "missed"
    BY <1>1 DEF AdminWaits, AdminRefused, TypeInv, TypeOK
  <2> QED
    BY <2>1, <2>2, DocumentsStay
<1>2. CASE UNCHANGED <<status, document, clobbered, admin>>
  BY <1>2, DocumentsStay
<1>3. ASSUME NEW p \in Publishers, NEW v \in Versions, Upload(p, v) PROVE DocumentInv'
  <2>1. v \notin clobbered
    BY <1>3 DEF Upload, DocumentInv
  <2> QED
    BY <1>3, <2>1, DocumentIsWritten DEF Upload, Status, DocumentOf
<1>4. ASSUME NEW w \in Workers,
             \/ Start(w) \/ FinishExtraction(w) \/ FinishChunking(w) \/ Finalize(w)
             \/ RecordFailure(w) /\ ~KeepsStatus(worker[w].v)
      PROVE  DocumentInv'
  <2>1. worker[w].v \in Versions
    BY <1>4, WorkerRecord
    DEF Start, FinishExtraction, FinishChunking, EnterStage, Finalize, RecordFailure
  <2>2. PICK s \in Status : /\ WriteStatus(worker[w].v, s)
                            /\ WriteDocument(worker[w].v, DocumentOf(s))
                            /\ clobbered' = clobbered \ {worker[w].v}
    BY <1>4
    DEF Start, FinishExtraction, FinishChunking, EnterStage, Finalize, RecordFailure, Status,
        Active, DocumentOf
  <2>3. /\ worker[w].v \notin clobbered'
        /\ clobbered' \ {worker[w].v} = clobbered \ {worker[w].v}
    BY <2>2
  <2> QED
    BY <2>1, <2>2, <2>3, DocumentIsWritten
<1>5. ASSUME NEW p \in Publishers,
             \/ PublishStep(p) \/ PublisherFails(p) \/ \E e \in Events : ClaimPending(p, e)
      PROVE  DocumentInv'
  BY <1>2, <1>5, CommitPublishedFollows
  DEF PublishStep, ClaimOwn, Enqueue, EnqueueFails, LoadDocument, PublisherFails, ClaimPending
<1>6. ASSUME NEW w \in Workers,
             \/ TaskStep(w) \/ StartFails(w) \/ Crash(w)
             \/ \E v \in Versions, t \in 0 .. MaxTries : Receive(w, v, t)
      PROVE  DocumentInv'
  <2>1. CASE RecordFailure(w) /\ KeepsStatus(worker[w].v)
    BY <1>2, <2>1 DEF RecordFailure
  <2> QED
    BY <1>2, <1>4, <1>6, <2>1 DEF TaskStep, ProviderUnconfigured, Drop, DeleteChunks, Raise,
                                  CeleryRetry, StartFails, Crash, Receive
<1>7. CASE UNCHANGED vars \/ \E v \in Versions : ExpireLease(v)
  BY <1>2, <1>7 DEF ExpireLease
<1> QED
  BY <1>1, <1>3, <1>5, <1>6, <1>7, RetryFollows DEF Next, Faulty

(* The document row says what its version row says, but for two exceptions: *)
(* a publisher wrote over a status it had not seen, or an administrator's   *)
(* retry had waited with an old copy, and then it is QUEUED beside FAILED.  *)
THEOREM DocumentIsCurrent == Spec => []DocumentFollowsVersion
<1>1. Init => DocumentInv
  BY DEF Init, DocumentInv, Follows, DocumentOf
<1>2. DocumentInv => DocumentFollowsVersion
  BY FollowsDefined DEF DocumentInv
<1> QED
  BY <1>1, <1>2, DocumentStep, TypeCorrect, UpToDateSessionsAgree, PTL DEF Spec

-----------------------------------------------------------------------------
(*                     A waiting version has a carrier                      *)

Waiting == {"PENDING", "QUEUED"}
Handed  == {"sent", "loaded"}
Delivered(v) == InBroker(v) \/ HeldBefore(v) \/ v \in lost
ToSend == {e \in Unpublished : \A p \in Publishers :
              publisher[p].pc \in Handed => <<publisher[p].v, publisher[p].n>> # e}

(* WaitingHasCarrier is not inductive: a publisher's commit may put QUEUED  *)
(* on the row.  What it sent must still be under way if it is up to date.   *)
SentIsDelivered == \A p \in Publishers :
    publisher[p].pc \in Handed /\ p \notin stale /\ Requeues(p) =>
        Delivered(publisher[p].v)

LEMMA CarrierParts ==
    WaitingHasCarrier <=> \A v \in Versions : status[v] \in Waiting =>
        \/ \E e \in ToSend : e[1] = v
        \/ Delivered(v) \/ v \in clobbered
BY DEF WaitingHasCarrier, Waiting, Delivered, WillBeSent, ToSend, Handed

(* An event leaves the set of events to send only by being sent.            *)
LEMMA ToSendStays ==
    ASSUME TypeInv, [Next]_vars, NEW e \in ToSend
    PROVE  \/ e \in ToSend'
           \/ \E p \in Publishers : Enqueue(p) /\ e[1] = publisher[p].v
<1> USE DEF ToSend, Unpublished, Handed
<1>1. CASE outbox \subseteq outbox' /\ UNCHANGED <<published, publisher>>
  BY <1>1
<1>2. ASSUME NEW p \in Publishers, outbox \subseteq outbox', UNCHANGED published,
             \A q \in Publishers \ {p} : publisher'[q] = publisher[q],
             publisher'[p].pc \notin Handed
      PROVE  e \in ToSend'
  BY <1>2
<1>3. ASSUME NEW p \in Publishers,
             \/ EnqueueFails(p) \/ PublisherFails(p) \/ ClaimOwn(p)
             \/ \E f \in Events : ClaimPending(p, f)
             \/ \E v \in Versions : Upload(p, v)
      PROVE  e \in ToSend'
  <2>1. CASE EnqueueFails(p) \/ PublisherFails(p)
    BY <1>2, <2>1, IdleSessions DEF EnqueueFails, PublisherFails, TypeInv, TypeOK
  <2>2. CASE ClaimOwn(p)
    <3>1. publisher'[p] = IdlePublisher \/ publisher'[p] = [publisher[p] EXCEPT !.pc = "claimed"]
      BY <2>2 DEF ClaimOwn, TypeInv, TypeOK
    <3>2. publisher'[p].pc \notin Handed /\ publisher[p] \in PublisherState
      BY <3>1, IdleSessions, PublisherRecord DEF PublisherState
    <3> QED
      BY <1>2, <2>2, <3>2 DEF ClaimOwn, TypeInv, TypeOK
  <2>3. CASE \E f \in Events : ClaimPending(p, f)
    BY <1>2, <2>3 DEF ClaimPending, TypeInv, TypeOK
  <2>4. CASE \E v \in Versions : Upload(p, v)
    BY <1>2, <2>4 DEF Upload, TypeInv, TypeOK
  <2> QED
    BY <1>3, <2>1, <2>2, <2>3, <2>4
<1>4. ASSUME NEW p \in Publishers, LoadDocument(p) PROVE e \in ToSend'
  <2>1. /\ publisher' = [publisher EXCEPT ![p] = [publisher[p] EXCEPT
                            !.pc = "loaded", !.document = document[publisher[p].v]]]
        /\ publisher[p].pc = "sent" /\ UNCHANGED <<outbox, published>>
    BY <1>4 DEF LoadDocument, TypeInv, TypeOK
  <2>2. publisher'[p].v = publisher[p].v /\ publisher'[p].n = publisher[p].n
    BY <2>1, PublisherRecord DEF PublisherState, TypeInv, TypeOK
  <2>3. \A q \in Publishers \ {p} : publisher'[q] = publisher[q]
    BY <2>1 DEF TypeInv, TypeOK
  <2> QED
    BY <2>1, <2>2, <2>3
<1>5. ASSUME NEW p \in Publishers, CommitPublished(p) PROVE e \in ToSend'
  <2>1. /\ publisher[p].pc = "loaded" /\ UNCHANGED outbox
        /\ published' = published \cup {<<publisher[p].v, publisher[p].n>>}
        /\ publisher'[p].pc = "idle"
        /\ \A q \in Publishers \ {p} : publisher'[q] = publisher[q]
    BY <1>5, IdleSessions DEF CommitPublished, TypeInv, TypeOK
  <2> QED
    BY <2>1
<1>6. ASSUME NEW p \in Publishers, Enqueue(p)
      PROVE  e \in ToSend' \/ (Enqueue(p) /\ e[1] = publisher[p].v)
  <2>1. /\ UNCHANGED <<outbox, published>>
        /\ publisher'[p].v = publisher[p].v /\ publisher'[p].n = publisher[p].n
        /\ \A q \in Publishers \ {p} : publisher'[q] = publisher[q]
    BY <1>6, PublisherRecord DEF Enqueue, PublisherState, TypeInv, TypeOK
  <2> QED
    BY <1>6, <2>1
<1>7. ASSUME NEW p \in Publishers, PublishStep(p)
      PROVE  e \in ToSend' \/ (Enqueue(p) /\ e[1] = publisher[p].v)
  BY <1>3, <1>4, <1>5, <1>6, <1>7 DEF PublishStep
<1>8. CASE \E w \in Workers : \/ TaskStep(w) \/ StartFails(w) \/ Crash(w)
                              \/ \E v \in Versions, t \in 0 .. MaxTries : Receive(w, v, t)
  BY ZenonT(40), <1>1, <1>8
  DEF TaskStep, ProviderUnconfigured, Drop, Start, FinishExtraction, FinishChunking, EnterStage,
      DeleteChunks, Finalize, Raise, RecordFailure, CeleryRetry, StartFails, Crash, Receive
<1>9. CASE \E v \in Versions : AnyRetry(v) \/ ExpireLease(v)
  BY <1>1, <1>9 DEF Retry, AdminRetry, RetryCommits, ExpireLease
<1>10. CASE Unmoved
  BY <1>1, <1>10
<1> QED
  BY <1>3, <1>7, <1>8, <1>9, <1>10, StepParts DEF AnyStep, Faulty

(* u's row is written, so every publisher that works on u goes stale; only  *)
(* a retry request leaves the version waiting.                              *)
Rewritten(u) ==
    /\ \A p \in Publishers : publisher[p].v = u => p \in stale'
    /\ UNCHANGED publisher
    /\ status'[u] \in Waiting => AnyRetry(u)

(* What holds u's delivery in a worker.                                     *)
Holds(w, u) ==
    worker[w].v = u /\ (worker[w].pc = "received"
                        \/ (worker[w].pc = "failing" /\ worker[w].attempt = 0))

(* A delivery is given up only because the version is READY or freshly      *)
(* leased, or because the step writes the version's row.                    *)
LEMMA DeliveredStays ==
    ASSUME TypeInv, [Next]_vars, NEW u \in Versions, Delivered(u)
    PROVE  Delivered(u)' \/ (Dropped(u) /\ status' = status) \/ Rewritten(u)
<1> USE DEF Delivered
<1>0. \A t \in 0 .. MaxTries : broker[u][t] \in Nat
  BY DEF TypeInv, TypeOK
<1>1. ASSUME UNCHANGED <<worker, lost, broker>> PROVE Delivered(u)'
  BY <1>1 DEF InBroker, HeldBefore
<1>2. ASSUME NEW p \in Publishers, Enqueue(p) PROVE Delivered(u)'
  <2>1. /\ publisher[p].v \in Versions /\ 0 \in 0 .. MaxTries
        /\ broker' = [broker EXCEPT ![publisher[p].v][0] = @ + 1]
        /\ UNCHANGED <<worker, lost>>
    BY <1>2, PublisherRecord, BoundsAreNaturals DEF Enqueue
  <2>2. \A t \in 0 .. MaxTries : broker'[u][t] >= broker[u][t]
    BY <1>0, <2>1 DEF TypeInv, TypeOK
  <2>3. InBroker(u) => InBroker(u)'
    <3> SUFFICES ASSUME NEW t \in 0 .. MaxTries, broker[u][t] > 0
                 PROVE  InBroker(u)'
      BY DEF InBroker
    <3>1. broker'[u][t] > 0
      <4>1. broker'[u][t] = broker[u][t] \/ broker'[u][t] = broker[u][t] + 1
        BY <1>0, <2>1 DEF TypeInv, TypeOK
      <4> QED
        BY <1>0, <4>1
    <3> QED
      BY <3>1 DEF InBroker
  <2>4. HeldBefore(u) => HeldBefore(u)'
    BY <2>1 DEF HeldBefore
  <2> QED
    BY <2>1, <2>3, <2>4
<1>3. ASSUME NEW v \in Versions, AnyRetry(v) PROVE Delivered(u)' \/ Rewritten(u)
  <2>1. UNCHANGED <<worker, broker, publisher>> /\ lost' = lost \ {v}
        /\ \A p \in Publishers : publisher[p].v = v => p \in stale'
    BY <1>3 DEF Retry, AdminRetry, RetryCommits, Copies
  <2>2. CASE u = v
    BY <1>3, <2>1, <2>2 DEF Rewritten
  <2>3. CASE u # v
    BY <2>1, <2>3 DEF InBroker, HeldBefore
  <2> QED
    BY <2>2, <2>3
<1>4. ASSUME NEW w \in Workers, NEW v \in Versions, NEW t \in 0 .. MaxTries, Receive(w, v, t)
      PROVE  Delivered(u)'
  <2>1. /\ worker[w].pc = "idle" /\ UNCHANGED lost
        /\ broker' = [broker EXCEPT ![v][t] = @ - 1]
        /\ worker' = [worker EXCEPT ![w] = [IdleWorker EXCEPT !.pc = "received", !.v = v,
                                                              !.tries = t]]
    BY <1>4 DEF Receive
  <2>2. worker'[w].pc = "received" /\ worker'[w].v = v
        /\ \A x \in Workers \ {w} : worker'[x] = worker[x]
    BY <2>1, IdleSessions DEF TypeInv, TypeOK, WorkerState
  <2>3. CASE u = v
    BY <2>2, <2>3 DEF HeldBefore
  <2>4. CASE u # v
    <3>1. broker'[u] = broker[u]
      BY <2>1, <2>4 DEF TypeInv, TypeOK
    <3>2. HeldBefore(u) => HeldBefore(u)'
      BY <2>1, <2>2 DEF HeldBefore
    <3> QED
      BY <2>1, <3>1, <3>2 DEF InBroker
  <2> QED
    BY <2>3, <2>4
<1>5. ASSUME NEW w \in Workers, \A x \in Workers \ {w} : worker'[x] = worker[x],
             UNCHANGED broker, lost \subseteq lost', ~Holds(w, u)
      PROVE  Delivered(u)'
  BY <1>5 DEF InBroker, HeldBefore, Holds
<1>6. ASSUME NEW w \in Workers, ProviderUnconfigured(w) \/ Crash(w) PROVE Delivered(u)'
  <2>1. /\ \A x \in Workers \ {w} : worker'[x] = worker[x]
        /\ UNCHANGED broker /\ lost \subseteq lost'
        /\ worker[w].pc # "raised" => worker[w].v \in lost'
    BY <1>6 DEF ProviderUnconfigured, Crash, TypeInv, TypeOK
  <2>2. CASE Holds(w, u)
    BY <2>1, <2>2 DEF Holds
  <2> QED
    BY <1>5, <2>1, <2>2
<1>7. ASSUME NEW w \in Workers, Drop(w) PROVE Delivered(u)' \/ (Dropped(u) /\ status' = status)
  <2>1. /\ \A x \in Workers \ {w} : worker'[x] = worker[x]
        /\ UNCHANGED <<broker, lost, status>> /\ Dropped(worker[w].v)
    BY <1>7 DEF Drop, TypeInv, TypeOK
  <2> QED
    BY <1>5, <2>1 DEF Holds
<1>8. ASSUME NEW w \in Workers, Start(w) \/ (RecordFailure(w) /\ ~KeepsStatus(worker[w].v))
      PROVE  Delivered(u)' \/ Rewritten(u)
  <2>1. /\ \A x \in Workers \ {w} : worker'[x] = worker[x]
        /\ UNCHANGED <<broker, lost, publisher>>
    BY <1>8 DEF Start, RecordFailure, TypeInv, TypeOK
  <2>2. CASE worker[w].v = u
    <3>1. \A p \in Publishers : publisher[p].v = u => p \in stale'
      BY <1>8, <2>2, SessionsAreDistinct DEF Start, RecordFailure, Copies
    <3>2. status'[u] \notin Waiting
      BY <1>8, <2>2 DEF Start, RecordFailure, WriteStatus, Waiting, TypeInv, TypeOK
    <3> QED
      BY <2>1, <3>1, <3>2 DEF Rewritten
  <2> QED
    BY <1>5, <2>1, <2>2 DEF Holds
<1>9. ASSUME NEW w \in Workers, RecordFailure(w), KeepsStatus(worker[w].v)
      PROVE  Delivered(u)' \/ (Dropped(u) /\ status' = status)
  <2>1. /\ \A x \in Workers \ {w} : worker'[x] = worker[x]
        /\ UNCHANGED <<broker, lost, status>> /\ Dropped(worker[w].v)
    BY <1>9 DEF RecordFailure, KeepsStatus, Dropped, TypeInv, TypeOK
  <2> QED
    BY <1>5, <2>1 DEF Holds
<1>10. ASSUME NEW w \in Workers,
              FinishExtraction(w) \/ FinishChunking(w) \/ DeleteChunks(w) \/ Finalize(w) \/ Raise(w)
       PROVE  Delivered(u)'
  <2>1. \A x \in Workers \ {w} : worker'[x] = worker[x]
    BY <1>10 DEF FinishExtraction, FinishChunking, EnterStage, DeleteChunks, Finalize, Raise,
                 TypeInv, TypeOK
  <2>2. ~Holds(w, u)
    BY <1>10 DEF FinishExtraction, FinishChunking, EnterStage, DeleteChunks, Finalize, Raise,
                 Holds, Processing, Active
  <2>3. UNCHANGED <<broker, lost>>
    BY <1>10 DEF FinishExtraction, FinishChunking, EnterStage, DeleteChunks, Finalize, Raise
  <2> QED
    BY <1>5, <2>1, <2>2, <2>3
<1>11. ASSUME NEW w \in Workers, CeleryRetry(w) PROVE Delivered(u)'
  <2>1. worker[w].v \in Versions /\ UNCHANGED lost /\ worker[w].tries \in 0 .. MaxTries
    BY <1>11, WorkerRecord DEF CeleryRetry, WorkerState
  <2>2. HeldBefore(u) => HeldBefore(u)'
    BY <1>11 DEF CeleryRetry, HeldBefore, TypeInv, TypeOK
  <2>3. InBroker(u) => InBroker(u)'
    <3> SUFFICES ASSUME NEW t \in 0 .. MaxTries, broker[u][t] > 0
                 PROVE  InBroker(u)'
      BY DEF InBroker
    <3> DEFINE next == worker[w].tries + 1
    <3>1. CASE broker' = broker
      BY <3>1 DEF InBroker
    <3>2. CASE broker' = [broker EXCEPT ![worker[w].v][next] = @ + 1]
      <4>1. broker'[u][t] = broker[u][t] \/ broker'[u][t] = broker[u][t] + 1
        BY <1>0, <3>2 DEF TypeInv, TypeOK
      <4>2. broker'[u][t] > 0
        BY <1>0, <4>1
      <4> QED
        BY <4>2 DEF InBroker
    <3> QED
      BY <1>11, <3>1, <3>2 DEF CeleryRetry
  <2> QED
    BY <2>1, <2>2, <2>3
<1>12. ASSUME NEW w \in Workers, StartFails(w) PROVE Delivered(u)'
  <2>1. /\ worker' = [worker EXCEPT ![w] = [worker[w] EXCEPT !.pc = "failing"]]
        /\ worker[w] \in WorkerState /\ worker[w].attempt = 0
        /\ UNCHANGED <<broker, lost>>
    BY <1>12, WorkerRecord DEF StartFails, WorkerHolds, TypeInv, TypeOK
  <2>2. worker'[w].v = worker[w].v /\ worker'[w].pc = "failing" /\ worker'[w].attempt = 0
    BY <2>1 DEF WorkerState, TypeInv, TypeOK
  <2>3. \A x \in Workers \ {w} : worker'[x] = worker[x]
    BY <2>1 DEF TypeInv, TypeOK
  <2>4. CASE worker[w].v = u
    BY <2>2, <2>4 DEF HeldBefore
  <2>5. CASE worker[w].v # u
    BY <1>5, <2>1, <2>3, <2>5 DEF Holds
  <2> QED
    BY <2>4, <2>5
<1>13. ASSUME NEW w \in Workers,
              \/ TaskStep(w) \/ StartFails(w) \/ Crash(w)
              \/ \E v \in Versions, t \in 0 .. MaxTries : Receive(w, v, t)
       PROVE  Delivered(u)' \/ (Dropped(u) /\ status' = status) \/ Rewritten(u)
  BY <1>4, <1>6, <1>7, <1>8, <1>9, <1>10, <1>11, <1>12, <1>13 DEF TaskStep
<1>14. ASSUME NEW p \in Publishers,
              \/ PublishStep(p) \/ PublisherFails(p) \/ \E e \in Events : ClaimPending(p, e)
              \/ \E v \in Versions : Upload(p, v)
       PROVE  Delivered(u)'
  <2>1. Enqueue(p) \/ UNCHANGED <<worker, lost, broker>>
    BY <1>14 DEF PublishStep, ClaimOwn, EnqueueFails, LoadDocument, CommitPublished,
                 PublisherFails, ClaimPending, Upload
  <2> QED
    BY <1>1, <1>2, <2>1
<1>15. CASE Unmoved \/ \E v \in Versions : ExpireLease(v)
  BY <1>1, <1>15 DEF ExpireLease
<1> QED
  BY <1>3, <1>13, <1>14, <1>15, StepParts DEF AnyStep, Faulty

(* How a version comes to wait, or goes on waiting.                         *)
LEMMA StaysWaiting ==
    ASSUME TypeInv, [Next]_vars, NEW u \in Versions, status'[u] \in Waiting
    PROVE  \/ \E p \in Publishers : Upload(p, u)
           \/ AnyRetry(u)
           \/ \E p \in Publishers : CommitPublished(p) /\ Requeues(p) /\ publisher[p].v = u
           \/ status'[u] = status[u] /\ (u \in clobbered => u \in clobbered')
<1> DEFINE Still == status'[u] = status[u] /\ (u \in clobbered => u \in clobbered')
<1>1. CASE UNCHANGED <<status, clobbered>>
  BY <1>1
<1>2. ASSUME NEW v \in Versions, NEW s, WriteStatus(v, s), clobbered \ {v} \subseteq clobbered',
             u = v => s \notin Waiting
      PROVE  Still
  BY <1>2 DEF WriteStatus, TypeInv, TypeOK
<1>3. ASSUME NEW p \in Publishers, NEW v \in Versions, Upload(p, v) PROVE Upload(p, u) \/ Still
  <2>1. CASE u # v
    BY <1>3, <2>1 DEF Upload, WriteStatus, TypeInv, TypeOK
  <2> QED
    BY <1>3, <2>1
<1>4. ASSUME NEW v \in Versions, AnyRetry(v) PROVE AnyRetry(u) \/ Still
  <2>1. CASE u # v
    BY <1>4, <2>1 DEF Retry, AdminRetry, RetryCommits, WriteStatus, TypeInv, TypeOK
  <2> QED
    BY <1>4, <2>1
<1>5. ASSUME NEW p \in Publishers, CommitPublished(p)
      PROVE  (CommitPublished(p) /\ Requeues(p) /\ publisher[p].v = u) \/ Still
  <2>1. CASE ~Requeues(p)
    BY <1>1, <1>5, <2>1 DEF CommitPublished
  <2>2. CASE Requeues(p) /\ publisher[p].v # u
    BY <1>5, <2>2 DEF CommitPublished, WriteStatus, TypeInv, TypeOK
  <2> QED
    BY <1>5, <2>1, <2>2
<1>6. ASSUME NEW w \in Workers,
             \/ Start(w) \/ FinishExtraction(w) \/ FinishChunking(w) \/ Finalize(w)
             \/ RecordFailure(w)
      PROVE  Still
  <2>1. worker[w].v \in Versions
    BY <1>6, WorkerRecord
    DEF Start, FinishExtraction, FinishChunking, EnterStage, Finalize, RecordFailure
  <2> QED
    BY <1>1, <1>2, <1>6, <2>1
    DEF Start, FinishExtraction, FinishChunking, EnterStage, Finalize, RecordFailure, Waiting
<1>7. ASSUME NEW p \in Publishers,
             \/ PublishStep(p) \/ PublisherFails(p) \/ \E e \in Events : ClaimPending(p, e)
      PROVE  (CommitPublished(p) /\ Requeues(p) /\ publisher[p].v = u) \/ Still
  BY <1>1, <1>5, <1>7 DEF PublishStep, ClaimOwn, Enqueue, EnqueueFails, LoadDocument,
                          PublisherFails, ClaimPending
<1>8. ASSUME NEW w \in Workers,
             \/ TaskStep(w) \/ StartFails(w) \/ Crash(w)
             \/ \E v \in Versions, t \in 0 .. MaxTries : Receive(w, v, t)
      PROVE  Still
  BY <1>1, <1>6, <1>8 DEF TaskStep, ProviderUnconfigured, Drop, DeleteChunks, Raise,
                          CeleryRetry, StartFails, Crash, Receive
<1>9. CASE Unmoved \/ \E v \in Versions : ExpireLease(v)
  BY <1>1, <1>9 DEF ExpireLease
<1> QED
  BY <1>3, <1>4, <1>7, <1>8, <1>9, StepParts DEF AnyStep, Faulty

(* A publisher that has sent its event is still the one it was.             *)
LEMMA StaysSent ==
    ASSUME TypeInv, [Next]_vars, NEW p \in Publishers,
           publisher'[p].pc \in Handed, p \notin stale'
    PROVE  \/ Enqueue(p)
           \/ /\ publisher[p].pc \in Handed /\ p \notin stale
              /\ publisher'[p].v = publisher[p].v /\ publisher'[p].seen = publisher[p].seen
<1> DEFINE Still == /\ publisher[p].pc \in Handed /\ p \notin stale
                    /\ publisher'[p].v = publisher[p].v
                    /\ publisher'[p].seen = publisher[p].seen
<1>0. p \notin Workers
  BY SessionsAreDistinct
<1>1. ASSUME UNCHANGED publisher, p \in stale => p \in stale' PROVE Still
  BY <1>1
<1>2. ASSUME NEW q \in Publishers, q # p,
             \/ PublishStep(q) \/ PublisherFails(q) \/ \E e \in Events : ClaimPending(q, e)
             \/ \E v \in Versions : Upload(q, v)
      PROVE  Still
  <2>1. p \in stale => p \in stale'
    BY <1>2 DEF PublishStep, ClaimOwn, Enqueue, EnqueueFails, LoadDocument, CommitPublished,
                PublisherFails, ClaimPending, Upload
  <2>2. publisher'[p] = publisher[p]
    BY <1>2 DEF PublishStep, ClaimOwn, Enqueue, EnqueueFails, LoadDocument, CommitPublished,
                PublisherFails, ClaimPending, Upload, TypeInv, TypeOK
  <2> QED
    BY <2>1, <2>2
<1>3. CASE \/ \E v \in Versions : Upload(p, v)
           \/ \E e \in Events : ClaimPending(p, e)
           \/ EnqueueFails(p) \/ CommitPublished(p) \/ PublisherFails(p)
  BY <1>3, IdleSessions DEF Upload, ClaimPending, EnqueueFails, CommitPublished, PublisherFails,
                            Handed, TypeInv, TypeOK
<1>4. CASE ClaimOwn(p)
  <2>1. publisher'[p] = IdlePublisher \/ publisher'[p] = [publisher[p] EXCEPT !.pc = "claimed"]
    BY <1>4 DEF ClaimOwn, TypeInv, TypeOK
  <2> QED
    BY <2>1, IdleSessions, PublisherRecord DEF PublisherState, Handed
<1>5. CASE LoadDocument(p)
  <2>1. /\ publisher'[p] = [publisher[p] EXCEPT !.pc = "loaded",
                                                !.document = document[publisher[p].v]]
        /\ publisher[p].pc = "sent" /\ stale' = stale
    BY <1>5 DEF LoadDocument, TypeInv, TypeOK
  <2> QED
    BY <2>1, PublisherRecord DEF PublisherState, Handed
<1>6. ASSUME NEW w \in Workers,
             \/ TaskStep(w) \/ StartFails(w) \/ Crash(w)
             \/ \E v \in Versions, t \in 0 .. MaxTries : Receive(w, v, t)
      PROVE  Still
  <2>1. UNCHANGED publisher /\ \A x \in stale \ {w} : x \in stale'
    BY <1>6
    DEF TaskStep, ProviderUnconfigured, Drop, Start, FinishExtraction, FinishChunking,
        EnterStage, DeleteChunks, Finalize, Raise, RecordFailure, CeleryRetry, StartFails,
        Crash, Receive
  <2> QED
    BY <1>0, <1>1, <2>1
<1>7. CASE Unmoved \/ \E v \in Versions : AnyRetry(v) \/ ExpireLease(v)
  BY <1>1, <1>7 DEF Retry, AdminRetry, RetryCommits, ExpireLease
<1> QED
  BY <1>2, <1>3, <1>4, <1>5, <1>6, <1>7, StepParts DEF AnyStep, Faulty, PublishStep

LEMMA EnqueueDelivers ==
    ASSUME TypeInv, NEW p \in Publishers, Enqueue(p)
    PROVE  InBroker(publisher[p].v)' /\ publisher'[p].v = publisher[p].v
<1> DEFINE v == publisher[p].v
<1>1. v \in Versions /\ publisher[p] \in PublisherState /\ 0 \in 0 .. MaxTries
  BY PublisherRecord, BoundsAreNaturals DEF Enqueue
<1>2. broker'[v][0] = broker[v][0] + 1 /\ broker[v][0] \in Nat
  BY <1>1 DEF Enqueue, TypeInv, TypeOK
<1>3. publisher'[p].v = v
  BY <1>1 DEF Enqueue, PublisherState, TypeInv, TypeOK
<1> QED
  BY <1>1, <1>2, <1>3 DEF InBroker

CarrierInv == WaitingHasCarrier /\ SentIsDelivered

LEMMA SentStep ==
    ASSUME TypeInv, LeaseInv, SentIsDelivered, [Next]_vars
    PROVE  SentIsDelivered'
<1> SUFFICES ASSUME NEW p \in Publishers, publisher'[p].pc \in Handed, p \notin stale',
                    Requeues(p)'
             PROVE  Delivered(publisher[p].v)' /\ publisher'[p].v = publisher[p].v
  BY DEF SentIsDelivered
<1>1. CASE Enqueue(p)
  BY <1>1, EnqueueDelivers DEF Delivered
<1>2. CASE /\ publisher[p].pc \in Handed /\ p \notin stale
           /\ publisher'[p].v = publisher[p].v /\ publisher'[p].seen = publisher[p].seen
  <2> DEFINE v == publisher[p].v
  <2>1. Requeues(p) /\ v \in Versions
    BY <1>2, PublisherRecord DEF Requeues, Handed
  <2>2. Delivered(v) /\ ~Dropped(v)
    BY <1>2, <2>1 DEF SentIsDelivered, LeaseInv, SessionsAgree, FreshPublisher, Requeues, Handed,
                      Dropped, LeaseIsFresh, Active
  <2>3. ~Rewritten(v)
    BY DEF Rewritten
  <2> QED
    BY <1>2, <2>1, <2>2, <2>3, DeliveredStays
<1> QED
  BY <1>1, <1>2, StaysSent

LEMMA WaitingStep ==
    ASSUME TypeInv, LeaseInv, CarrierInv, [Next]_vars
    PROVE  WaitingHasCarrier'
<1> USE DEF CarrierInv, LeaseInv
<1> SUFFICES ASSUME NEW u \in Versions, status'[u] \in Waiting
             PROVE  (\E e \in ToSend' : e[1] = u) \/ Delivered(u)' \/ u \in clobbered'
  BY DEF WaitingHasCarrier, Waiting, Delivered, WillBeSent, ToSend, Handed
<1>1. ASSUME NEW p \in Publishers, Upload(p, u) PROVE \E e \in ToSend' : e[1] = u
  <2>1. /\ outbox' = outbox \cup {<<u, 0>>} /\ UNCHANGED published /\ status[u] = "absent"
        /\ publisher'[p].pc = "uploaded"
        /\ \A q \in Publishers \ {p} : publisher'[q] = publisher[q]
    BY <1>1 DEF Upload, TypeInv, TypeOK
  <2>2. <<u, 0>> \notin outbox
    BY <2>1 DEF EventsExist
  <2>3. <<u, 0>> \in ToSend'
    BY <2>1, <2>2 DEF EventsExist, ToSend, Unpublished, Handed
  <2> QED
    BY <2>3
<1>2. CASE AnyRetry(u)
  <2>1. /\ outbox' = outbox \cup {<<u, retry_count[u] + 1>>}
        /\ UNCHANGED <<published, publisher>> /\ retry_count[u] \in Nat
    BY <1>2, BoundsAreNaturals DEF Retry, AdminRetry, RetryCommits, RetryEvent, TypeInv, TypeOK
  <2>2. <<u, retry_count[u] + 1>> \notin outbox
    BY <2>1 DEF EventsExist
  <2>3. <<u, retry_count[u] + 1>> \in ToSend'
    BY <2>1, <2>2 DEF EventsExist, ToSend, Unpublished, Handed
  <2> QED
    BY <2>3
<1>3. ASSUME NEW p \in Publishers, CommitPublished(p), Requeues(p), publisher[p].v = u
      PROVE  Delivered(u)' \/ u \in clobbered'
  <2>1. CASE p \in stale
    BY <1>3, <2>1 DEF CommitPublished
  <2>2. CASE p \notin stale
    BY <1>3, <2>2 DEF CommitPublished, SentIsDelivered, Handed, Delivered, InBroker, HeldBefore
  <2> QED
    BY <2>1, <2>2
<1>4. CASE status'[u] = status[u] /\ (u \in clobbered => u \in clobbered')
  <2>1. (\E e \in ToSend : e[1] = u) \/ Delivered(u) \/ u \in clobbered
    BY <1>4, CarrierParts
  <2>2. ASSUME NEW e \in ToSend, e[1] = u
        PROVE  (\E f \in ToSend' : f[1] = u) \/ Delivered(u)'
    BY <2>2, ToSendStays, EnqueueDelivers DEF Delivered
  <2>3. CASE Delivered(u)
    <3>1. ~Dropped(u)
      BY <1>4 DEF Waiting, Dropped, LeaseIsFresh, Active
    <3>2. CASE Rewritten(u)
      BY <1>2, <3>2 DEF Rewritten
    <3> QED
      BY <2>3, <3>1, <3>2, DeliveredStays
  <2> QED
    BY <1>4, <2>1, <2>2, <2>3
<1> QED
  BY <1>1, <1>2, <1>3, <1>4, StaysWaiting

(* A version that waits is never forgotten, except after a delivery died    *)
(* with its worker or a stale publisher wrote QUEUED.                       *)
THEOREM WaitingIsCarried == Spec => []WaitingHasCarrier
<1>1. Init => CarrierInv
  <2>1. Init => \A p \in Publishers : publisher[p].pc = "idle"
    BY IdleSessions DEF Init
  <2> QED
    BY <2>1 DEF Init, CarrierInv, WaitingHasCarrier, SentIsDelivered, Handed
<1>2. TypeInv /\ LeaseInv /\ CarrierInv /\ [Next]_vars => CarrierInv'
  BY SentStep, WaitingStep DEF CarrierInv
<1>3. CarrierInv => WaitingHasCarrier
  BY DEF CarrierInv
<1> QED
  BY <1>1, <1>2, <1>3, TypeCorrect, UpToDateSessionsAgree, PTL DEF Spec

-----------------------------------------------------------------------------
(*       Ingestion implements IndexPublication: each step publishes one    *)
(*       whole new attempt, withdraws one version, or is invisible.        *)

(* The substitution of Ingestion's INSTANCE, by name. *)
Stored == [v \in Versions |-> OwnerOf(chunks[v])]
Shown  == [v \in Versions |-> Searchable(v)]
Used   == [v \in Versions |-> {a \in Attempts : attempts[v][a] = "succeeded"}]

LEMMA Mapping ==
    /\ Index!Init <=> /\ Stored = [v \in Versions |-> 0]
                      /\ Shown = [v \in Versions |-> FALSE]
                      /\ Used = [v \in Versions |-> {}]
    /\ (UNCHANGED Index!ivars) <=> Stored' = Stored /\ Shown' = Shown /\ Used' = Used
    /\ \A v, a : Index!Publish(v, a) <=>
          /\ a \notin Used[v]
          /\ Stored' = [Stored EXCEPT ![v] = a]
          /\ Shown' = [Shown EXCEPT ![v] = TRUE]
          /\ Used' = [Used EXCEPT ![v] = @ \cup {a}]
    /\ \A v : Index!Withdraw(v) <=>
          /\ Shown[v]
          /\ Shown' = [Shown EXCEPT ![v] = FALSE]
          /\ Stored' = Stored /\ Used' = Used
BY DEF Index!Init, Index!ivars, Index!Publish, Index!Withdraw, Stored, Shown, Used

LEMMA InitMaps == Init => Index!Init
<1> SUFFICES ASSUME Init PROVE Index!Init
  OBVIOUS
<1>1. Stored = [v \in Versions |-> 0]
  BY DEF Init, Stored, OwnerOf
<1>2. Shown = [v \in Versions |-> FALSE]
  BY DEF Init, Shown, Searchable
<1>3. Used = [v \in Versions |-> {}]
  BY DEF Init, Used
<1> QED
  BY <1>1, <1>2, <1>3, Mapping

-----------------------------------------------------------------------------
(*                      Only Finalize adds to the index                     *)

Spends(u, b) == attempts[u][b] = "succeeded"

LEMMA OtherSteps ==
    ASSUME TypeInv, AttemptsAreOwned, ChunkInv, [Next]_vars, \A w \in Workers : ~Finalize(w)
    PROVE  /\ chunks' = chunks
           /\ \A u \in Versions, b \in Attempts : Spends(u, b)' <=> Spends(u, b)
<1> DEFINE Goal == /\ chunks' = chunks
                   /\ \A u \in Versions, b \in Attempts : Spends(u, b)' <=> Spends(u, b)
<1>1. CASE UNCHANGED <<chunks, attempts>>
  BY <1>1 DEF Spends
<1>2. ASSUME NEW w \in Workers, Start(w) PROVE Goal
  <2> DEFINE v == worker[w].v
             a == attempt_count[v] + 1
  <2>1. v \in Versions /\ a \in Attempts
    BY <1>2, WorkerRecord DEF Start, NextAttempt
  <2>2. /\ chunks' = chunks
        /\ attempts' = [attempts EXCEPT ![v] = [b \in Attempts |->
              IF b = a THEN "EXTRACTING"
              ELSE IF b \in LatestActive(v) THEN "abandoned" ELSE attempts[v][b]]]
    BY <1>2 DEF Start, NextAttempt
  <2>3. attempts[v][a] # "succeeded"
    BY <2>1, BoundsAreNaturals DEF AttemptsAreOwned, TypeInv, TypeOK
  <2>4. \A b \in LatestActive(v) : attempts[v][b] # "succeeded"
    BY DEF LatestActive, Active
  <2> QED
    BY <2>1, <2>2, <2>3, <2>4 DEF Spends, TypeInv, TypeOK
<1>3. ASSUME NEW w \in Workers, FinishExtraction(w) \/ FinishChunking(w) PROVE Goal
  <2> DEFINE v == worker[w].v
             a == worker[w].attempt
  <2>1. PICK to \in Active : /\ chunks' = chunks
                             /\ attempts' = [attempts EXCEPT ![v] = [attempts[v] EXCEPT ![a] = to]]
    BY <1>3 DEF FinishExtraction, FinishChunking, EnterStage, Active
  <2>2. v \in Versions /\ a \in Attempts /\ attempts[v][a] # "succeeded"
    BY <1>3, OwnerRecord DEF FinishExtraction, FinishChunking, EnterStage, Owner, Processing,
                             Active, ChunkInv, LiveAttempts
  <2> QED
    BY <2>1, <2>2 DEF Spends, Active, TypeInv, TypeOK
<1>4. ASSUME NEW w \in Workers, RecordFailure(w) PROVE Goal
  <2> DEFINE v == worker[w].v
             a == worker[w].attempt
  <2>1. v \in Versions /\ worker[w].pc = "failing" /\ worker[w] \in WorkerState
    BY <1>4, WorkerRecord DEF RecordFailure
  <2>2. a \in Attempts => attempts[v][a] # "succeeded"
    BY <2>1, BoundsAreNaturals DEF ChunkInv, LiveAttempts, Owner, Attempts
  <2>3. CASE attempts' = [attempts EXCEPT ![v] = [b \in Attempts |->
                            IF b = a THEN "failed" ELSE attempts[v][b]]]
    BY <1>4, <2>1, <2>2, <2>3 DEF RecordFailure, Spends, TypeInv, TypeOK
  <2> QED
    BY <1>1, <1>4, <2>3 DEF RecordFailure
<1>5. ASSUME NEW w \in Workers,
             \/ TaskStep(w) \/ StartFails(w) \/ Crash(w)
             \/ \E v \in Versions, t \in 0 .. MaxTries : Receive(w, v, t)
      PROVE  Goal
  BY <1>1, <1>2, <1>3, <1>4, <1>5
  DEF TaskStep, ProviderUnconfigured, Drop, DeleteChunks, Raise, CeleryRetry, StartFails, Crash,
      Receive
<1>6. ASSUME NEW p \in Publishers,
             \/ PublishStep(p) \/ PublisherFails(p) \/ \E e \in Events : ClaimPending(p, e)
             \/ \E v \in Versions : Upload(p, v)
      PROVE  Goal
  BY <1>1, <1>6 DEF PublishStep, ClaimOwn, Enqueue, EnqueueFails, LoadDocument, CommitPublished,
                    PublisherFails, ClaimPending, Upload
<1>7. CASE Unmoved \/ \E v \in Versions : AnyRetry(v) \/ ExpireLease(v)
  BY <1>1, <1>7 DEF Retry, AdminRetry, RetryCommits, ExpireLease
<1> QED
  BY <1>5, <1>6, <1>7, StepParts DEF AnyStep, Faulty

(* A step writes the rows of one version, and only Finalize says READY.     *)
RowWritten(v, s) ==
    /\ s # "READY"
    /\ status' = [status EXCEPT ![v] = s]
    /\ \A u \in Versions \ {v} : document'[u] = document[u]

LEMMA RowSteps ==
    ASSUME TypeInv, [Next]_vars, \A w \in Workers : ~Finalize(w)
    PROVE  \/ UNCHANGED <<status, document>>
           \/ \E v \in Versions, s \in Status : RowWritten(v, s)
<1> DEFINE Goal == \/ UNCHANGED <<status, document>>
                   \/ \E v \in Versions, s \in Status : RowWritten(v, s)
<1>1. ASSUME NEW v \in Versions, NEW s \in Status \ {"READY"}, NEW d, WriteStatus(v, s),
             WriteDocument(v, d)
      PROVE  Goal
  BY <1>1 DEF WriteStatus, WriteDocument, RowWritten, TypeInv, TypeOK
<1>2. ASSUME NEW v \in Versions, AnyRetry(v) \/ \E p \in Publishers : Upload(p, v) PROVE Goal
  <2>1. CASE AdminRetry(v)
    <3>1. RowWritten(v, "QUEUED")
      BY <2>1 DEF AdminRetry, RetryCommits, WriteStatus, RowWritten, TypeInv, TypeOK
    <3> QED
      BY <3>1 DEF Status
  <2> QED
    BY <1>1, <1>2, <2>1 DEF Retry, RetryCommits, Upload, Status
<1>3. ASSUME NEW p \in Publishers, CommitPublished(p) PROVE Goal
  <2>1. publisher[p].v \in Versions
    BY <1>3, PublisherRecord DEF CommitPublished
  <2>2. CASE Requeues(p)
    <3>1. RowWritten(publisher[p].v, "QUEUED")
      BY <1>3, <2>1, <2>2 DEF CommitPublished, WriteStatus, WriteDocument, RowWritten, TypeInv,
         TypeOK
    <3> QED
      BY <2>1, <3>1 DEF Status
  <2> QED
    BY <1>3, <2>2 DEF CommitPublished
<1>4. ASSUME NEW w \in Workers,
             Start(w) \/ FinishExtraction(w) \/ FinishChunking(w) \/ RecordFailure(w)
      PROVE  Goal
  <2>1. worker[w].v \in Versions
    BY <1>4, WorkerRecord
    DEF Start, FinishExtraction, FinishChunking, EnterStage, RecordFailure
  <2> QED
    BY <1>1, <1>4, <2>1
    DEF Start, FinishExtraction, FinishChunking, EnterStage, RecordFailure, Status, Active
<1>5. ASSUME NEW w \in Workers,
             \/ TaskStep(w) \/ StartFails(w) \/ Crash(w)
             \/ \E v \in Versions, t \in 0 .. MaxTries : Receive(w, v, t)
      PROVE  Goal
  BY <1>4, <1>5 DEF TaskStep, ProviderUnconfigured, Drop, DeleteChunks, Raise, CeleryRetry,
                    StartFails, Crash, Receive
<1>6. ASSUME NEW p \in Publishers,
             \/ PublishStep(p) \/ PublisherFails(p) \/ \E e \in Events : ClaimPending(p, e)
      PROVE  Goal
  BY <1>3, <1>6 DEF PublishStep, ClaimOwn, Enqueue, EnqueueFails, LoadDocument, PublisherFails,
                    ClaimPending
<1>7. CASE Unmoved \/ \E v \in Versions : ExpireLease(v)
  BY <1>7 DEF ExpireLease
<1> QED
  BY <1>2, <1>5, <1>6, <1>7, StepParts DEF AnyStep, Faulty

-----------------------------------------------------------------------------
(*                              Step simulation                             *)

LEMMA FinalizePublishes ==
    ASSUME TypeInv, AttemptsAreOwned, ChunkInv, NEW w \in Workers, Finalize(w),
           NEW v, v = worker[w].v, NEW a, a = worker[w].attempt
    PROVE  v \in Versions /\ a \in Attempts /\ Index!Publish(v, a)
<1>0. Owner(w) /\ v \in Versions /\ a \in Attempts /\ a # 0
  BY OwnerRecord DEF Finalize, Owner, Processing
<1>1. /\ chunks' = [chunks EXCEPT ![v] = {a}]
      /\ status' = [status EXCEPT ![v] = "READY"]
      /\ document' = [document EXCEPT ![v] = "READY"]
      /\ attempts' = [attempts EXCEPT ![v] = [attempts[v] EXCEPT ![a] = "succeeded"]]
  BY FinalizeReplaces DEF Finalize, WriteStatus, WriteDocument
<1>2. a \notin Used[v]
  BY <1>0 DEF Used, ChunkInv, LiveAttempts
<1>3. Stored' = [Stored EXCEPT ![v] = a]
  <2>1. chunks'[v] = {a} /\ \A u \in Versions \ {v} : chunks'[u] = chunks[u]
    BY <1>0, <1>1 DEF TypeInv, TypeOK
  <2>2. OwnerOf({a}) = a
    BY <1>0 DEF OwnerOf
  <2>3. Stored'[v] = a
    BY <1>0, <2>1, <2>2 DEF Stored
  <2>4. \A u \in Versions \ {v} : Stored'[u] = Stored[u]
    BY <2>1 DEF Stored
  <2>5. Stored' = [u \in Versions |-> IF u = v THEN a ELSE Stored[u]]
    BY <2>3, <2>4 DEF Stored
  <2> QED
    BY <1>0, <2>5 DEF Stored
<1>4. Shown' = [Shown EXCEPT ![v] = TRUE]
  <2>1. Searchable(v)'
    BY <1>0, <1>1 DEF Searchable, TypeInv, TypeOK
  <2>2. \A u \in Versions \ {v} : Searchable(u)' <=> Searchable(u)
    BY <1>0, <1>1 DEF Searchable, TypeInv, TypeOK
  <2>3. Shown' = [u \in Versions |-> IF u = v THEN TRUE ELSE Shown[u]]
    BY <2>1, <2>2 DEF Shown, Searchable
  <2> QED
    BY <1>0, <2>3 DEF Shown
<1>5. Used' = [Used EXCEPT ![v] = @ \cup {a}]
  <2>1. Used'[v] = Used[v] \cup {a}
    BY <1>0, <1>1 DEF Used, TypeInv, TypeOK
  <2>2. \A u \in Versions \ {v} : Used'[u] = Used[u]
    BY <1>0, <1>1 DEF Used, TypeInv, TypeOK
  <2> QED
    BY <1>0, <2>1, <2>2 DEF Used
<1> QED
  BY <1>0, <1>2, <1>3, <1>4, <1>5, Mapping

LEMMA StepMaps ==
    TypeInv /\ AttemptsAreOwned /\ ChunkInv /\ [Next]_vars => [Index!Next]_(Index!ivars)
<1> SUFFICES ASSUME TypeInv, AttemptsAreOwned, ChunkInv, [Next]_vars
             PROVE  Index!Next \/ UNCHANGED Index!ivars
  OBVIOUS
<1>1. ASSUME NEW w \in Workers, Finalize(w) PROVE Index!Next
  <2>1. PICK v, a : v = worker[w].v /\ a = worker[w].attempt
    OBVIOUS
  <2>2. v \in Versions /\ a \in Attempts /\ Index!Publish(v, a)
    BY <1>1, <2>1, FinalizePublishes
  <2> QED
    BY <2>2 DEF Index!Next
<1>2. CASE \A w \in Workers : ~Finalize(w)
  <2>1. Stored' = Stored /\ Used' = Used
    <3>1. /\ chunks' = chunks
          /\ \A u \in Versions, b \in Attempts : Spends(u, b)' <=> Spends(u, b)
      BY <1>2, OtherSteps
    <3> QED
      BY <3>1 DEF Stored, Used, Spends
  <2>2. CASE UNCHANGED <<status, document>>
    BY <2>1, <2>2, Mapping DEF Shown, Searchable
  <2>3. ASSUME NEW v \in Versions, NEW s \in Status, RowWritten(v, s)
        PROVE  Index!Next \/ UNCHANGED Index!ivars
    <3>1. ~Searchable(v)' /\ \A u \in Versions \ {v} : Searchable(u)' <=> Searchable(u)
      BY <2>3 DEF RowWritten, Searchable, TypeInv, TypeOK
    <3>2. CASE Searchable(v)
      <4>1. Shown[v] /\ Shown' = [Shown EXCEPT ![v] = FALSE]
        BY <3>1, <3>2 DEF Shown, Searchable
      <4> QED
        BY <2>1, <4>1, Mapping DEF Index!Next
    <3>3. CASE ~Searchable(v)
      <4>1. Shown' = Shown
        BY <3>1, <3>3 DEF Shown, Searchable
      <4> QED
        BY <2>1, <4>1, Mapping
    <3> QED
      BY <3>2, <3>3
  <2> QED
    BY <1>2, <2>2, <2>3, RowSteps
<1> QED
  BY <1>1, <1>2

(* What retrieval can see is always the complete output of one attempt that *)
(* was never published before (retrieval/repository.py, ingest()).          *)
THEOREM IngestionImplementsIndex == Spec => PublishesWholeAttempts
<1>1. Spec => []ChunkInv
  BY InitChunks, ChunkInvStep, TypeCorrect, AttemptNumbers, PTL DEF Spec
<1> QED
  BY <1>1, InitMaps, StepMaps, TypeCorrect, AttemptNumbers, PTL
  DEF Spec, PublishesWholeAttempts, Index!Spec
=============================================================================

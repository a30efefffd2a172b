# Formal models of Secure Knowledge

This directory holds TLA+ models of the Secure Knowledge backend (a multi-tenant
document store that ingests PDFs and text, indexes them in PostgreSQL/pgvector and
answers questions from the passages a user may see), the TLC configurations that check
them on small instances, and TLAPS proofs of theorems about them for every instance.
Paths below are relative to the repository; `core/` abbreviates
`packages/secure-knowledge-core/src/secure_knowledge_core/`, `worker/` and `api/` the
packages of the two applications.

Checking a model: `tlc -config MCIngestion.cfg MCIngestion`. Checking proofs:
`tlapm Ingestion_proofs.tla`.

## 1. The system

| Component | State | Operations | Hard parts |
|---|---|---|---|
| Upload (`core/documents/upload_service.py`) | `documents`, `document_versions`, `outbox_events`, an object in S3 | `upload` | permission read before the file is awaited; two stores, one transaction; a commit whose outcome is unknown |
| Outbox publisher (`core/outbox/service.py`) | `outbox_events.published_at` | `publish_event` (in the upload request), `publish_pending` (beat, every 30 s) | enqueues before it commits; tests a status it read before it enqueued; events that always fail are the oldest |
| Ingestion worker (`core/ingestion/service.py`, `worker/tasks/ingestion.py`) | `document_versions`, `document_processing_attempts`, `document_chunks` | `ingest` and its stages, `mark_failed` | five commits per run, lease by status and age, early acknowledgement, retries, crashes |
| Retry requests (`core/documents/service.py`, `core/admin/documents.py`) | the version row, a new outbox event | `retry_document_version`, `retry_version` | overlap with deliveries and Celery retries; a lock wait after which one row is new and the other old |
| Extraction and chunking (`core/ingestion/chunking.py` ...) | none | a pure pipeline | overlap against maximum; long paragraphs cut by tokens, not characters |
| Tenancy and access (`core/organizations`, `workspaces`, `groups`, `documents`, `retrieval/authorization.py`) | memberships, groups, grants | create, add and remove members and grants; three access conditions | check in one statement, write in another; duplicated conditions |
| Retrieval (`core/retrieval`) | `retrieval_runs`, `retrieval_result_records` | hybrid search, rank fusion, deduplication, tracing | two searches at two moments; rows that ingestion is replacing; ties |
| Answers (`core/answers`) | `answer_runs`, `answer_citations`, messages | `answer`: retrieve, select, call the model, validate, store | four transactions around a provider call; passages replaced meanwhile |
| Conversations (`core/conversations`) | conversations, messages | create, list, append | none of its own |
| LLM provider (`core/llm`) | none | calls, pricing, abstention | errors of an external service |
| Evaluations (`core/evaluations`, `worker/tasks/evaluations.py`) | datasets, cases, runs, case results, metric results | import, create run, execute run, finish, compare | lock released before the work; duplicate deliveries; columns written from old copies |
| Evaluation metrics (`core/evaluations/metrics`, `graders`) | none | metrics, aggregation, thresholds, gates, regression | zeros, empty sets, percentiles; a stored verdict that others classify again |
| Retention (`core/retention`) | deletes old rows | four daily cleanup tasks: retrieval traces, answer traces, evaluation details, audit events | run in any order with each other, with requests and executions; a cutoff in the middle of a day |
| Daily metrics (`core/metrics/daily.py`) | `daily_organization_metrics` | rebuild a date | counts in one statement, replaces in another |
| Administration (`core/admin`) | none (retry is above) | eight cursor listings, details, overview | pages while rows are committed and expire |
| Web console (`apps/web/src/features/admin`) | selection, shown data, requests under way | navigate, load, load more, review | answers that arrive after the selection changed |
| Object storage (`core/storage`) | objects in S3 | put, get, delete | not transactional |
| Audit (`core/audit`), authentication (`core/auth`) | `audit_events`; users | append, redact; tokens, passwords | none |
| Routes, settings, logging, migrations | none | | |

How they interact: the API adds rows and an outbox event in one transaction;
publishers turn events into Celery tasks in Redis; workers consume them and
write the index that retrieval reads with the two conditions *readiness*
(version and document READY) and *access*. Answers and evaluations call
retrieval and a provider. All coordination is through PostgreSQL rows at READ
COMMITTED, row locks that end with each commit, unique constraints, and
SQLAlchemy sessions that keep their objects across commits
(`expire_on_commit=False`, `autoflush=False`, `core/database/session.py:15`).

What makes the components correct:

* ingestion: what is searchable is always the complete output of one attempt;
  a slow, dead or duplicated worker never mixes or undoes another's result
  without an expired lease; each waiting version has something that will
  process it; what the user sees (document) follows what happened (version);
* outbox: no committed request is dropped, duplicates are harmless;
* access: the duplicated conditions are the same condition in every reachable
  database, and only those in charge of a document change who reads it;
* upload: a document row has its object, and an object without a row has a reason;
* chunking and ranking: the chunks are the whole text in order, the fused order
  is that of the two searches, the context is the best that fits its budget;
* answers and retention: what the provider sees was readable, what is cited was
  sent, and a stored answer keeps the parts of its trace;
* daily metrics: a date's numbers are complete, disjoint and the dashboard's;
* evaluations: final results and successes are not undone by retries, a success is
  complete until its details expire, a baseline stays comparable, every run ends;
* metrics: a run's verdicts agree with each other and with how it is classified later;
* administration: a reader of pages misses and repeats nothing, and the console shows
  what is selected.

## 2. Modules

```
IndexPublication   what ingestion promises to retrieval (abstract)
  ^ implemented by
Ingestion          upload, retry, outbox, broker, workers        MCIngestion
  Ingestion_proofs
Access             tenancy, grants, the three access conditions  MCAccess
  Access_proofs
OutboxPublisher    batches, locks and the limit of the outbox
  ^ extended by
Upload             uploads and run requests that feed it         MCUpload
  Upload_proofs
Answering          answers, traces, retention, daily metrics     MCAnswering
  Answering_proofs
Evaluation         import, runs, execution, aggregates           MCEvaluation
  Evaluation_proofs
Lists              sums and orders of lists, for the next three
Chunking           from pages to chunks
  ^ extended by
Ranking            from chunks to the passages of an answer      MCRanking
  Ranking_proofs
Scoring            metrics, gates, classification of a run       MCScoring
  Scoring_proofs
Pages, Console     cursor listings; the console in the browser
  ^ both extended by
Administration                                                   MCAdministration
  Administration_proofs
```

Definitions called `Mutant...` are faulty variants (a dropped guard, a wrong
reset) of the definition after them. No specification uses them. Substituted
for the original, each makes its property fail, which shows that the property
depends on that piece of code.

### 2.1 Ingestion

One action is one database transaction or one external call. State:

| Variable | Code |
|---|---|
| `status`, `failure_code`, `attempt_count`, `retry_count`, `lease_fresh` | columns of `document_versions`; `lease_fresh` abstracts `updated_at` against `ingestion_lease_seconds` |
| `document` | `documents.status`; upload is the only creator of versions and makes version 1, so documents and versions are one to one |
| `attempts`, `lease_expired` | `document_processing_attempts.status`, and the rows whose failure code is `processing_lease_expired` |
| `chunks` | `document_chunks` of the version, by the attempt that wrote them |
| `outbox`, `published` | ingestion events and `published_at` |
| `broker` | Redis queue: deliveries per version and Celery retry number (a bag, since Celery promises no order) |
| `worker`, `publisher` | program counter and locals of each session |
| `admin` | an administrator's retry of the version: `"waiting"` for its row lock, or `"missed"`, committed without an UPDATE of the document row |
| `stale`, `clobbered`, `lost` | history variables, read by properties only |

| Action | Code |
|---|---|
| `Upload` | transaction of `DocumentUploadService.upload` |
| `Retry` | `retry_document_version`; `AdminDocumentService.retry_version` when it need not wait |
| `AdminWaits`, `AdminRetry`, `AdminRefused` | `retry_version` behind another transaction's lock of the version row |
| `ClaimOwn`, `ClaimPending` | row lock and reads of `publish_event` / one turn of `publish_pending` (`SKIP LOCKED`) |
| `Enqueue`, `EnqueueFails` | `task_queue.enqueue` and its except branch |
| `LoadDocument`, `CommitPublished`, `PublisherFails` | the rest of `_publish_locked_event` |
| `Receive` | delivery with early acknowledgement |
| `ProviderUnconfigured` | `GeminiEmbeddingProvider()` raising in the task before `ingest` |
| `Drop`, `Start`, `StartFails` | early returns, `_start_processing`, its failure |
| `FinishExtraction`, `FinishChunking` | `_set_stage` commits |
| `DeleteChunks`, `Finalize` | DELETE of the last transaction; INSERTs, READY, commit |
| `Raise`, `RecordFailure` | the except branches and `_record_failure` |
| `CeleryRetry` | `autoretry_for`, `max_retries` |
| `Crash`, `ExpireLease` | process death (its transaction rolls back); time passing |

Details of the code that the model keeps because properties turn on them:

* a session writes rows by primary key from its own copy; nothing compares the
  row with the copy. `EnterStage` therefore has no guard on the row.
  `stale` says whose copy somebody has overwritten;
* columns that do not change in the copy are not in the UPDATE: `Finalize`
  leaves `failure_code` in the row alone, since its copy already has None;
* an administrator's retry reads version and document in one statement that locks
  the version only (`core/admin/documents.py:209-217`). If it waits, PostgreSQL
  returns the version as committed meanwhile and the document as of the
  statement's start; if that copy says QUEUED, `document.status = QUEUED` sends
  no UPDATE. The version is then QUEUED and its document FAILED until a worker takes
  the version. `DocumentFollowsVersion` names this state (`"missed"`) and says
  what it looks like. The user's retry locks first and reads the document in a second
  statement, so it has no such window. A copy that says anything but QUEUED is
  written whatever the row says, which is `Retry`;
* the final DELETE sees the rows committed when it runs. Rows inserted
  between it and the INSERTs collide with `uq_document_chunks_version_index`,
  because each attempt writes index 0;
* the broker has the task before the publisher's transaction commits, and the
  publisher decides whether to write QUEUED from the status it read before.
  Such a write over a status it had not seen (`clobbered`) can leave a version
  QUEUED with nothing to process it; the properties name this loss;
* Celery acknowledges first, so a crash loses the delivery (`lost`). A second
  delivery that arrives while the dead worker's lease is fresh is dropped;
* `ProviderUnconfigured` bypasses the failure recording; the version stays
  QUEUED, and retry only accepts FAILED (`lost` again);
* `_start_processing` and `_record_failure` lock the version row and then write the
  document, a stage commit writes them in the unit of work's order. PostgreSQL
  breaks the possible deadlock by aborting one transaction, which is
  `StartFails`, `PublisherFails` or `Raise`.

Abstractions: one administrator at a time waits for a version; the outcome of a commit
is known to its session; text, embeddings and durations are left out (the commit at
`core/ingestion/service.py:202` writes only durations, so it is not a step); the loop of
`publish_pending` is a sequence of independent turns (its limit and `processed_ids` are
in `OutboxPublisher`, where the evaluation events that share the outbox are too).

`IndexPublication` is the abstract specification: an index, whether it is searchable,
and the attempts already served. `Ingestion` implements it under the mapping
at the end of the module (`PublishesWholeAttempts`).

### 2.2 Access

State: the membership tables, the organization of each workspace and group,
the tenancy columns of documents, both grant tables, and per session the
request it is working on. A request takes three steps, as its handler does:
`Check` (reads about the actor: `_get_manageable_document`,
`_get_manageable_group`, `_get_workspace_access`, `require_document_creation`),
`FindTarget` (eligibility of the member or grantee, existence of the row to
delete), and its commit; `Fail` is the rollback of `get_session`, which also
covers unique violations. `Paths`, `Authorized` and `PermissionPath` translate
`core/retrieval/authorization.py`; `CanRead` and `CanManage` the document
service. A DELETE addresses the row that was read: `missed` marks sessions whose
row another session has deleted, even if an equal row was added since.
`outdated` is a history variable for sessions whose actor lost a right since its
check; it guards nothing. No handler changes or deletes an organization
membership, so operators do it (`SetOrganizationRole`).

Abstractions: the two statements with which `_get_manageable_document`
establishes the actor's right are one step; names and slugs, and their unique
constraints, are left out (they only make requests fail, which `Fail` allows
anyway); documents are never deleted by the code; the order of paths in
`PermissionPath` is kept but only the presence of a path matters to a
property.

### 2.3 OutboxPublisher and Upload

`OutboxPublisher` is the loop of `publish_pending`: a batch claims the oldest pending
event that nobody has locked and that it has not processed (`ClaimOldest`, `FOR UPDATE
SKIP LOCKED`), sends and marks it in the transaction that holds the lock (`Publish`),
goes on when it cannot be sent (`SendFails`) and ends when the marking fails
(`MarkFails`), nothing is left or it has had as many turns as the limit, sent or not
(`EndBatch`). Without `processed_ids` a batch would still end, but spend its turns on
one event that cannot be sent; what that breaks is `EventsArePublished`. `created_at` is
the start of a transaction, so `began` orders events by `Store`, the first query of an
upload, and not by commit: an event may appear before those already published. `Remove`
is an operator who deletes the row an event is about; such an event can never be sent
and stays the oldest.

`Upload` adds what feeds it. An upload is `Store` (the object is put and the
transaction has begun), `Commit`, and the publication of its own event
(`Claim`, `PublishOwn`). `StoreFails`, `Conflict` (the slug is
taken), `CommitFails` lead to `CleanUp`, the best-effort delete of
`_delete_after_failed_upload`. `CommitFails` has both outcomes: nothing happened,
or the database committed and only the answer was lost (`uncertain`). `Crash` is
the death of the API process at any step.
Slugs are in one workspace; each upload's slug is named by the first upload that
asks for it.

### 2.4 Answering

One request is `Ask` (the question is committed), `VectorSearch`, `KeywordSearch` (two
statements, two snapshots), `Trace`, `Select`, and `Abstain`, `Generate` or
`RecordFailure`; `Interrupt` is every path that ends without an answer run, a crash
included. A document has one chunk per ingestion, so `Ingest` replaces it and, by `ON
DELETE CASCADE`, the records and citations that refer to it; `Trace` and `Save` need the
chunks they refer to, which is the foreign key. `ChangePermission` stands for every
change `Access` has. `CleanRetrievals` and `CleanAnswers` are two of the four cleanup
tasks (for the others see 2.5 and 2.7), `ReadDate` and `WriteDate` one rebuild,
`Overview` the dashboard's own counts. Time is days: `Tick` assumes only that no request
lasts a whole day. The cutoff of a cleanup is n times 24 hours ago and so lies within a
date: the rows of older dates are all `Expired`, any part of that date's may be
(`Expiring`), in each run of the task another. `visible` (readable at some moment of the
request), `sent`, `total` and `readOn` are history.

Abstractions: the questions are one user's in one organization (`Access`
has the others); a provider's answer is any answerability with any citations of
known chunks; costs and latencies are left out of the metrics. A single
rebuild runs at a time.

### 2.5 Evaluation

The API: `CheckImport` and `Import` are the two statements of `import_cases`,
`PrepareRun` and `CreateRun` those of `create_run`. `Send` is the outbox, with
`duplicates` for a run that is sent and not marked. A worker's execution is
`Start` (lock, RUNNING, commit), `ListCases`, and for each case `TakeCase`,
`MarkRunning`, `Converse`, then `GradeCase`, `FailCase` or `RetryCase`; then
`ReadResults` and `Finish`, or `FailRun`. `DatabaseFails` is a transient error that
leaves the run as it is and is retried by Celery, `Abandon` the death of the
process, `StartFails` an error of the first transaction, which nothing retries.

Details that are kept because properties turn on them: the row lock ends with
the commit that makes a run RUNNING, so two deliveries execute side by side
(`overlapped`); a session writes only the columns that differ from what it loaded
(`Column`, `MarkRunning`); the aggregate rows a finish deletes are those it
read (`old`); `FailRun` does not look at the status; a conversation is unique per result, and
`_prepare_case_retry` removes it before a retry.

`CleanUp` is `cleanup_expired_evaluation_details` on one run: every case result and, by
`ON DELETE CASCADE`, their metrics and conversations; the run row with its counts and
the run-level metrics stay. A run should long be over by then, but nothing in the code
makes it so: the model lets it happen at any step, for up to `MaxExpired` runs. `Bereft`
says what becomes of an execution whose result is gone: one that answers finds out when
it writes (`gone`, `MissResult`), one that is about to write ends in the handler of
`execute_run`. `expired` is the history of such runs. A rollback expires what a session
has loaded, so `Held` is read anew after a failed case or a transient error.

The case runner is the protocol `EvaluationCaseRunner`
(`core/evaluations/service.py:82`); `EvaluationRunner` implements it and is what is
modelled. Two things keep it from working as the repository stands. No code constructs
one: the worker builds `EvaluationService(session=session)`
(`worker/tasks/evaluations.py:21`), so `RunnerConfigured` has both values in the
liveness run. And it calls `_execute_case`, `_calculate_deterministic_metrics`,
`_run_graders`, `_determine_case_pass` and `_persist_case_success`
(`core/evaluations/runner.py:107-141`), which are defined nowhere in the repository: as
written, every case of an `EvaluationRunner` ends in its error handler. `GradeCase` is
what these calls are there for, a result that is saved with any verdict, so the model
has more behaviours than that class alone; the properties hold for those and for the
fewer ones. Abstractions: the aggregate rows of one finish are one id; the cases of a
dataset are numbers up to `MaxCases`.

### 2.6 Chunking, Ranking and Scoring

Pure code, modelled as the steps of its loops. `Lists` has what they share: the
sum of a list (`Total`) and the list of a set by an order (`InOrder`: the element with
k others before it is at k + 1). Both are functions or counts, so that theorems can be
proved about them.

In `Chunking` a text is a value of which the tokenizer is known: `Tokens` is how many
tokens it has, `Slice` what some of them decode to, stripped. Nothing is assumed of a
slice but that it is a text: it may be blank, its ends may be characters that were cut,
and it may have more tokens than it was cut from. `Parted` is what a text and the blank
line after it have, so that a joined text has the sum of its parts; a tokenizer that
merges across a blank line is not modelled. `Cut` is one turn of the inner loop of
`_build_fragments` (`Kept` is `if text`, `AtEnd` its end), `Pack` one turn of `chunk`,
with `After` for the overlap rule; `LeftAfter` is the countdown of `_build_overlap` from
the end of a chunk, and `LastTokens` the text its slice decodes to. `done` is the
position of `Cut` in its paragraph and `origin` history: which tokens of which paragraph
a fragment was cut from. A fragment that begins a chunk without an overlap is not
measured by the code: if it was cut from a longer paragraph and has become longer when
encoded, the chunk exceeds `Maximum`. `ChunksCoverTheDocument` names that case (`IsCut`)
and no other.

In `Ranking`, `Search` returns any two rankings without repetition, `Fused` is
`reciprocal_rank_fusion`, `Distinct` the deduplication, `Answer` the abstention without
results, `Select` one turn of the loop of `ContextSelector.select` (`seen` counts them),
`EndSelect` its end, and `Judge` the abstention policy of the generation service. Scores
are multiples of `1 / Scale`, where `Scale` is divisible by each K + rank that occurs,
so that sums compare as the exact fractions do (`RankingSettings`; such a number exists
for every K and number of candidates).

In `Scoring`, `Result` grades one case, `Aggregate` a run, `Passes` is the decision on
one threshold and `RunPass` the other function over them, `Verdict` what
`_persist_aggregate_metrics` stores, and `Classification` what the administration's
summary of the run concludes from what is stored. An execution that raises has no
metrics and no gates: its case is in error, or failed if the citations were invalid
(`_persist_case_error`); the provider's error rate counts the former with a provider's
code only. Which metric function the runner applies to a case is left to the methods it
lacks (2.5); the model applies the one of the metric's name. The dashboard shows the
first five of the classified runs among the 50 newest and the leakage of a range of
dates (`useAdminDashboard.ts:117-119`, `:191-195`): a sixth regressed run is in the list
of runs and not on the dashboard. That selection is not modelled and nothing is claimed
of it. Rates are multiples of `1 / Unit`, rounded down where they are not exact (in the
run all are), so floating point rounding is not modelled. A percentile interpolates, in
hundredths, between two values found by counting: the k-th smallest is the least that k
values do not exceed (`Kth`).

### 2.7 Pages, Console and Administration

`Pages`: a reader of one of the eight listings (`ListAnswerRuns` ... ) sends
one query per page with the cursor of the page before; between two pages
rows are committed with timestamps that may be old or shared (`Add`), leave and
re-enter a condition (`Remove`, `FailAgain`), or expire (`Expire`,
`ExpireParent`). `steady` is the history of rows that were there all the time.

`Console`: the selected place (organization, page, run), what is shown and
for which place it was loaded, and the requests under way. `Go` changes the
place; the hook's effect aborts its loads and, in the same component, clears what a detail page
shows. Loads, further pages and reviews answer in any order. A further page has
no abort signal and may arrive at the next run (`strayed`).

`Administration` puts both behind one specification; they share no variable, and
`activity` lets a behaviour exercise one of them.

## 3. Runs

| Run | Instance and what it shows |
|---|---|
| `ingestion_safety` | 1 version, 2 workers, 2 publishers, 2 attempts, 1 user retry, 1 Celery retry, 2 faults: types, five invariants of the state, three properties of steps, and the refinement of `IndexPublication` |
| `ingestion_liveness` | under fairness each request settles in READY or FAILED and each event is published |
| `expired_attempt_succeeds` | an attempt marked as not completed completes: see findings |
| `access_safety` | 2 users, 2 organizations, 1 workspace, group and document, 2 overlapping sessions, 5 requests, 1 operator change |
| `upload_and_outbox` | 2 uploads that may want one slug, 1 evaluation run, 1 batch with limit 2, 1 removed row: objects and rows, and the liveness of events |
| `answering` | 2 questions, 1 document, 3 dates, retention of 1 day for retrieval and 2 for answers, 1 change |
| `evaluation_safety` | 2 runs, 2 workers, 1 case, 1 duplicate, 1 Celery retry, 1 fault, 1 run whose details expire |
| `evaluation_liveness` | 1 run, 2 cases, 2 workers, with and without a runner, details that expire meanwhile: every run ends |
| `released_dataset_changes` | a released dataset grows: see findings |
| `chunks_and_ranks` | a small tokenizer (a character of two tokens that may be cut, white space that is lost, a character that a blank line makes longer); plain texts of up to 3 paragraphs, PDFs of two pages; `Target` 3, `Overlap` 2, `Maximum` 4; rankings of up to 3 candidates, K = 60 as in the code, limits 1 and 3, contexts of 2 chunks and 4 tokens, which some chunks exceed |
| `scores_and_gates` | runs of up to 3 of 12 kinds of case (perfect, slow, badly ranked, leaking, repeated chunks, cited outside the context, forbidden claim, abstaining, unanswerable, and three kinds of error), each possible run as the baseline of each |
| `administration` | 8 listings, 4 rows, 2 timestamps, pages of 1 and 2, 2 changes; 2 organizations, 2 runs, 5 moves in the console |

Properties of ingestion: `ReadyIsIndexed` (one attempt's chunks, and it
succeeded), `AttemptsAreOwned` (numbers never shared), `WaitingHasCarrier`
(PENDING/QUEUED has an event, a delivery or a worker), `ActiveHasWorker`,
`DocumentFollowsVersion`, `OvertakenOnlyAfterExpiry` (the lease excludes),
`OnlyStaleSessionsUndoReady`, `UndisturbedFinishIsClean`,
`PublishesWholeAttempts`; live: `EveryRequestSettles`, `EveryEventIsPublished`.
Of access: `AccessDefinitionsAgree`, `OnlyManagersChangeReaders`.
Of upload and outbox: `ObjectsMatchRows`; live: `EventsArePublished`.
Of answers: `PassagesWereReadable`, `TracesStayComplete`, `DailyMetricsAreComplete`.
Of evaluations: `SucceededRunsAreComplete`, `RetriesStartAfresh`,
`BaselinesStayComparable`, `OutcomesStay`; live: `RunsEnd`. Of the pure parts:
`FragmentsCoverTheText`, `ChunksCoverTheDocument`, `BestPassagesFirst`, `ContextFitsTheBudget`,
`VerdictsAgree`, `RegressionsAreReported`, `PerfectCasesNeverHurt`. Of the
administration: `PagesAreComplete`, `ConsoleFollowsSelection`. Each is stated
in words above its definition.

Bounds of ingestion. Versions share only the publishers and the queue and no property
relates two versions, so one version suffices. Two workers give every pairwise race on a
row; two attempts give a takeover and an overtaken worker; with both publishers an
upload request races beat. Two faults combine, for example, an expired lease with a
crash. The model is symmetric in workers and publishers. The liveness run has one
publisher and no symmetry, and four attempts so that the bound on attempts never blocks
a delivery: two events (upload and one retry) and one fault make at most three
deliveries. One administrator's wait is enough for each version: a second would find the
version not FAILED, or wait in the same way. In `Access` five requests are what the
deepest scenario needs (workspace, upload, group, grant, member); organization creation
and operators have bounds of their own. The cfg offers one value for each kind of role
the code tells apart: `admin` is used like `owner`, `member` like `evaluation_admin`,
`editor` like `viewer` by every condition.

Bounds of the others. Uploads interact through a slug, which two decide, and through the
batch; a limit of 2 against three events makes a batch end with work left, and one
removed row is one fewer than the limit. With as many removed rows as the limit the
newer events starve, which is how the code is written; `EventsArePublished` is stated
and checked below that. A question interacts with others only in the counts of a date,
and two make those differ; three dates let a trace expire, in whole or in part, while a
metric of its date is read, and let a retrieval expire before its answer does. In
`Evaluation` two runs make a baseline, two workers a side-by-side execution, and one
duplicate, retry and fault are needed to bring them about; one run whose details expire
may be the baseline of the other, or be the one that is executed (`MaxExpired`); the
order of cases within a run is covered by the liveness run's two cases and, for any
number, by the proof. In `Ranking` three candidates give ties, both-lists and
single-list chunks and repeated contents; paragraphs are shorter and longer than
`Target`, joined ones reach `Maximum` and beyond, and a paragraph is cut within a
character, within white space and at its end. In `Pages` four rows with two timestamps
make shared keys on both sides of a cursor, and two changes an added and a removed row.
Five moves in `Console` leave a page, return to it and review.

The theorems hold for all values of these constants.

`CHECK_DEADLOCK FALSE` is set everywhere: a system without requests, or out of
its bounds, rests; a chunked document or a finished listing is the end of its
behaviour.

Fairness. Ingestion: weak fairness on each worker's own steps and on receiving, since a running
Celery process executes its task and takes the next. Weak fairness on a
publisher's steps. Strong fairness on `Enqueue`: the broker does not refuse one
session for ever. Strong fairness on claiming each event: beat runs `publish_pending`
every 30 seconds (`worker/celery_app.py:21`), and an event that others lock now and
then is free infinitely often. No fairness on uploads, retries or faults.
Upload: weak fairness on the normal steps of a request and on each batch
(beat), strong fairness on `PublishEvent`: an event that is claimed again and again
is not refused for ever by the broker or the database. None on rejecting,
failing, crashing or removing. Evaluation: weak fairness on `Send` (beat) and on each worker's
`Execute`, which ends an execution, retries included; none on the API and on faults.

## 4. Findings

`expired_attempt_succeeds`: when a lease expires under a slow worker and a second
delivery takes the version over, `_start_processing` marks the slow attempt
abandoned with `failure_code = "processing_lease_expired"` and "The previous
processing attempt did not complete." (`core/ingestion/service.py:342-348`). The
slow worker goes on; its final commit sets the attempt to succeeded
(`:253`) and leaves both fields. The stored attempt then says that it
succeeded and that it did not complete. The index is not affected
(`ReadyIsIndexed` holds).

`released_dataset_changes`: `import_cases` tests that the dataset has no run
(`core/evaluations/service.py:246`) and inserts its cases in later statements.
`create_run` does not lock the dataset, so a run may be created in between: the
dataset is released, and then it grows, although
`api/routes/evaluations.py:130` says "Released datasets cannot be changed; create a new
version." What holds regardless is `SucceededRunsAreComplete`: an execution covers
at least the cases the run was created for.

## 5. Proofs

TLAPS proves, for all values of the constants that satisfy the ASSUMEs of the
modules (bounds are naturals, session and identifier sets do not overlap, the sets that are
counted are finite):

| Theorem | Module |
|---|---|
| `TypeSafety`, `AttemptNumbers`, `ReadyServesOneAttempt`, `ActiveIsAttended`, `UpToDateSessionsAgree`, `LeaseExcludes`, `ReadyIsRespected`, `CleanFinish`, `DocumentIsCurrent`, `WaitingIsCarried`, `IngestionImplementsIndex` | `Ingestion_proofs` |
| `InductiveInvariant`, `TypeSafety`, `DefinitionsAgree`, `ManagersDecide` | `Access_proofs` |
| `TypeSafety`, `PassagesAreReadable`, `TracesAreComplete`, `MetricsAreComplete` | `Answering_proofs` |
| `InductiveInvariant`, `TypeSafety`, `ObjectsAreAccountedFor` | `Upload_proofs` |
| `InductiveInvariant`, `TypeSafety`, `SuccessIsComplete`, `RetriesAreFresh`, `BaselinesComparable`, `OutcomesAreKept` | `Evaluation_proofs` |
| `TypeSafety`, `ListingsAreComplete`, `ConsoleIsFaithful` | `Administration_proofs` |
| `InductiveInvariant`, `TypeSafety`, `TextSafety`, `CoverSafety`, `RankingSafety`, `ContextSafety` | `Ranking_proofs` |
| `InductiveInvariant`, `TypeSafety`, `VerdictSafety`, `ReportSafety`, `PerfectCasesSafety` | `Scoring_proofs` |

Ingestion. `TypeInv` adds to `TypeOK` which fields a session in each state uses, so that
an attempt number of a working session is a real one. `ChunkInv` ties chunk rows to the
attempts that wrote them: a version's rows belong to one attempt, which succeeded, and a
worker's own attempt has none before it finalizes. That makes `ReadyIsIndexed`
inductive, because the unique index forces the rows seen by the DELETE and the rows at
the INSERT to be the same. `LeaseInv` is the heart of the lease argument: a session that
is not stale agrees with its row (the status is its own stage), hence two up-to-date
workers cannot own one version, and whoever takes it over had to see an expired lease.
`CarrierInv` is the conjunction of `WaitingHasCarrier` with `SentIsDelivered`: when an
up-to-date publisher that is about to write QUEUED has enqueued its task, the task is in
the broker or with a worker. The refinement needs `ChunkInv` (a finalizing attempt has
never been served) but not `DocumentFollowsVersion`: `Searchable` tests both rows as
retrieval does. `DocumentIsCurrent` has an invariant of its own with the two exceptions
the code has: a publisher's write over a status it had not seen, and an administrator's
retry that missed the document row, for which the pair of statuses is known exactly and
ends with the next write of the document.

Access. `Inv` is `TypeOK` with four conjuncts. `Reservations`: the row a session
will create does not exist and nobody else creates it. `TenancyAgrees`: workspaces,
documents and group grants agree about their organization. `Targets`: what a session
read about its group and document still holds. `Rights`: a session not marked
outdated is still entitled. `AccessDefinitionsAgree` follows from `TenancyAgrees`: the
group path of retrieval, which does not compare organizations, never meets a grant
that crosses them. `OnlyManagersChangeReaders` follows from `Rights`
and `TenancyAgrees`, one action at a time.

Answering. `PassageInv`: what an active request holds was readable during it, what it
will cite from is what it sent, and citations of chunks that are replaced go with them.
`TraceInv`: the retrieval run of an active request is younger than the request and the
request younger than a day, so no cleanup reaches it before the answer run that will
protect it exists. `CountInv`: until the first of a date's answers may expire, the runs
of that date in the table are as many as were ever created on it (`total`), and the
outcomes partition them; a rebuild that counts in that window, and the row it writes
later, inherit it. `MarkInv` says how many records a selection has.

Upload. `OutboxInv`: a lock belongs to a pending event, a batch holds at most one, and
an upload holds no event but its own. `UploadInv` says for each step of a request
whether its object and row exist. `ObjectsMatchRows` is inductive with them because the
key that `CleanUp` deletes is that of one upload.

Evaluation. The invariant is about one run at a time. `ExecutionOK(r, w)` describes the
only worker of a run nobody has executed side by side: all cases before its own are
final, no result lies beyond the cases it listed, at `finish` the counts and old rows it
read are still the table's. `FreshInv` says that a conversation belongs to a final case
or to the case being answered, which is why the retry of a transient error alone never
collides. `RunInv` puts them together, for runs whose details have not expired; what
remains of the others is their counts and their one set of aggregates. The lemma of each
action shows it for the worker's own run, and `OtherRuns` that the rest is untouched;
`CleanUp` touches all workers of a run at once. `BaselineInv` needs no such exception: a
finish deletes only rows it has read and always adds one, so the rows of a run that once
succeeded are never empty, however many workers finish it. `OutcomesStay` follows by
cases over the actions.

Administration. `FirstExists` and `LastExists` show that the order of a listing
has a first and a last row in every set of rows, because strict inclusion of the sets of
preceding (or following) rows is well-founded; `FewRowsAreAll` and `FirstIsPrefix` then
show what reading `limit + 1` rows tells about the rest. `CursorSplits` is the
invariant of a reader between two pages: what was received is up to the cursor, and a row
that was there all the time was received or comes after it. For the console,
`LoadsFollow` (the cleanup leaves no load for an earlier place) and
`ResultsFollow` make `ConsoleFollowsSelection` inductive; a review's
`saw` equals its `run` because a run is only shown where it is selected.

Chunking and ranking. The invariant of the indexing (`IndexInv`) has four parts.
`IndexTypes`. `StagesInOrder`. `TextInv`: the paragraphs not yet split are the last ones
of the document, `done` is within the first of them, and the fragments made so far are,
one by one, the texts of the tokens their `origin` names, in order, with every other
token in white space (`PartsHold`). `TextSafety` and what a fragment may be rest on it.
`ChunksHold`: there is a function from the chunks to the number of fragments packed
before each (`Covered`), a chunk of several pieces is within `Maximum` (`Whole`), and
each follows the one before (`Chained`): it repeats its last tokens and has no page
before its pages. That pages grow along the fragments comes from `InOrder`, which lists
the places of a document by page and position. `OverlapFacts` shows what
`_build_overlap` returns, by induction on the pieces from the end: the tokens of the
last k pieces and those left to take add up to `Overlap`, until nothing is left or the
rest is white space. Nothing is known of the number of tokens of a text that was cut, so
the proof holds for any tokenizer that satisfies `Encoding`: decoding all the tokens of
a text gives the text back, and only the blank text has none. The sizes work out because
a chunk grows only up to `Target` and an overlap that does not fit into `Maximum` is
dropped; a fragment left alone is a whole paragraph of at most `Target` tokens or the
exception `IsCut`. For the query, `QueryInv` says that the fused list and the results
are what the rankings determine (`Fused`, `Given`), and `Selects` is the invariant of
the selection loop: of the results looked at, the context has, in their order, all but
those too long by themselves. `ListedInOrder` (`InOrder` of a linear order lists each
member once, in that order) then makes the fused ranking one of descending scores;
`HigherScore` and `HalfScore` compare 1/(K + q) with 1/(K + r), the latter with twice
the former when no rank is above K, which is why a chunk that both searches find comes
first. `FirstExists` finds the best chunk of a content by the least rank.

Scoring. `Inv` says that each case is the result of some execution, that a stored
verdict is the one on the cases and the baseline, and that compared baseline metrics are
naturals. `GatesStopLeaks` ties a case's gates to its own leakage and citations, so that
a rounded average cannot hide a leak: the gates are tested case by case. `VerdictSafety`
and `ReportSafety` (a run is classified as a regression exactly if it did not pass, one
of security exactly if its hard gates failed) follow from the verdict and the
classification, for any thresholds that the fields of `EvaluationThresholds` allow. The
types of averages follow from a bound on sums (`TotalBound`), those of percentiles from
`KthFacts`: the values that k others do not exceed have a least one, which grows with k.
`PerfectCasesSafety` compares the aggregates of a run with those after one more perfect
case, metric by metric (`PerfectAggregates`): averages of rates rise and those of
failures fall, and the interpolation between the k-th values moves down when a zero is
added, although the interpolated place moves up (`PerfectPercentile`).

Both modules prove facts about sums by `Induction`: a set that contains 0 and the successors of
its members up to a bound contains all numbers up to it, which follows from the
well-foundedness of < and takes a set, not a predicate, as its parameter.

Only model-checked: the liveness properties `EveryRequestSettles`, `EveryEventIsPublished`,
`EventsArePublished` and `RunsEnd`, since fairness needs ENABLED, which the
prover does not handle. Every invariant and every property of steps in a run is a theorem.

## 6. Not modelled

Known limits of the models, smallest gap first:

* two rebuilds of the same date at a time, and the sums of latency and cost in a day's row;
* the human reviews of evaluation results, whose columns a concurrent execution of
  the case does not write;
* a question saved without an answer run (`Interrupt` ends there; nothing promises one);
* the dashboard's numbers of the previous organization while new ones load, and the
  notice of a review on the next run's page: modelled in `Console`, promised by nobody;
* the creation of datasets, descriptive columns, filters of the listings;
* permission decisions recorded in retrieval traces;
* the dashboard's choice of five runs and its range of dates (2.6);
* retention periods of single organizations (`audit_event_retention_overrides`): the cleanup of
  audit events is an expiry like any other to the reader of a listing (`Pages`);
* the case runner's missing methods (2.5): what they would do is a choice;
* floating point rounding of metrics and costs.

Left out for good: text extraction, normalisation, embeddings and prompts
(content), the validation of uploaded bytes (a choice in `Upload`), password and
token handling (library calls without steps to interleave), audit redaction
(a text filter; audit rows are added in the caller's transaction and never
change), settings, logging, tracing, schema migrations (the constraints that
matter are modelled with the tables they protect), the translation to
HTTP and JSON, and the pages of the web application that only render.

What remains worth doing: an abstract specification of a run that executes each
case once, implemented by `Evaluation` when nothing overlaps; and the composition of
`Answering` with `Access`, whose permissions are a choice in `Answering` today.

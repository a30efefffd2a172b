----------------------------- MODULE Evaluation -----------------------------
(***************************************************************************)
(* The evaluation of one dataset: administrators import cases and create   *)
(* runs through the API, the outbox sends a run to the broker, workers     *)
(* execute it case by case and finish it with counts.                      *)
(*                                                                         *)
(* Every step of a worker is one transaction, or one statement of it where *)
(* another session can commit in between.  The session keeps the columns   *)
(* it loaded (expire_on_commit=False) and writes only those it changes, so *)
(* a column assigned the value it was loaded with is not written.          *)
(* `overlapped', `halfway', `abandoned' and `expired' are history.          *)
(*                                                                         *)
(* The runner that grades a case is the protocol runner.py calls for: five  *)
(* of the methods it calls are defined nowhere in the repository, so their  *)
(* outcomes are those its callers and tests expect of them.                 *)
(***************************************************************************)
EXTENDS Naturals, FiniteSets

CONSTANTS
    Runs, Workers,
    RunnerConfigured,  \* the values EvaluationService.case_runner may have: set or not
    Nil,               \* no run
    MaxCases,          \* bound: cases imported into the dataset
    MaxDuplicates,     \* bound: times the outbox sends a run and cannot mark it
    MaxFaults,         \* bound: executions that the database or a death ends
    MaxRetries,        \* run_evaluation max_retries
    MaxExpired         \* bound: runs that outlive the retention period of their details

ASSUME BoundsAreNaturals ==
    MaxCases \in Nat /\ MaxDuplicates \in Nat /\ MaxFaults \in Nat /\ MaxRetries \in Nat
    /\ MaxExpired \in Nat
ASSUME WorkersAreFinite == IsFiniteSet(Workers)
ASSUME RunnerIsConfiguredOrNot == RunnerConfigured \subseteq BOOLEAN
ASSUME NilIsNoRun == Nil \notin Runs

VARIABLES
    cases,         \* number of cases of the dataset, in the order of import
    import,        \* the importing request: "none", or "checked" that no run exists
    creation,      \* requests creating a run: what each one read, Absent before
    run,           \* evaluation_runs
    result,        \* evaluation_case_results, by run and case
    conversation,  \* conversations of the case results, by run and case
    rows,          \* ids of the aggregate rows of evaluation_metric_results, one for all of a finish
    duplicates,    \* times the outbox has sent a run and not marked it
    faults,        \* executions that the database or a death has ended
    published,     \* runs whose outbox event has published_at
    broker,        \* messages of the evaluation queue: the run and the retries made
    worker,        \* what each worker process is doing
    runner,        \* case_runner of the workers is set
    overlapped,    \* history: runs that two workers have executed at a time
    halfway,       \* history: runs an execution of which ended without its clean-up
    abandoned,     \* history: runs an execution of which ended without a retry or a status
    expired        \* history: runs the clean-up has deleted results of

dataset == <<cases, import, creation>>
queue   == <<duplicates, published, broker>>
history == <<overlapped, halfway, abandoned, expired>>
vars == <<dataset, run, result, conversation, rows, queue, worker, faults, runner, history>>

-----------------------------------------------------------------------------
CaseNumbers == 1 .. MaxCases
RunStatus   == {"pending", "running", "succeeded", "failed"}
Terminal    == {"passed", "failed", "error"}
CaseStatus  == {"none", "pending", "running"} \cup Terminal
Counts      == [completed : 0 .. MaxCases, passed : 0 .. MaxCases, failed : 0 .. MaxCases]
Zero        == [completed |-> 0, passed |-> 0, failed |-> 0]

(* A request's or a run's row before it exists. *)
Absent == [status |-> "none", total |-> 0, baseline |-> Nil, count |-> Zero]

(* A run created with this many cases and this baseline. *)
Created(n, b) == [Absent EXCEPT !.status = "pending", !.total = n, !.baseline = b]

NoResult == [status |-> "none", collided |-> FALSE]

Idle == [pc |-> "idle", run |-> Nil, retries |-> 0, loaded |-> Zero, next |-> 0, last |-> 0,
         seen |-> "none", count |-> Zero, old |-> {}]

Existing  == {r \in Runs : run[r].status # "none"}
Executing(r) == {w \in Workers : worker[w].run = r}
Messages  == [run : Runs, retries : 0 .. MaxRetries]

Init ==
    /\ cases = 0 /\ import = "none" /\ creation = [r \in Runs |-> Absent]
    /\ run = [r \in Runs |-> Absent]
    /\ result = [r \in Runs |-> [c \in CaseNumbers |-> NoResult]]
    /\ conversation = [r \in Runs |-> {}]
    /\ rows = [r \in Runs |-> {}]
    /\ duplicates = 0 /\ faults = 0 /\ published = {} /\ broker = [m \in Messages |-> 0]
    /\ worker = [w \in Workers |-> Idle] /\ runner \in RunnerConfigured
    /\ overlapped = {} /\ halfway = {} /\ abandoned = {} /\ expired = {}

-----------------------------------------------------------------------------
(* The API.  Both operations read in one statement and write in a later one. *)

(* import_cases: no run of the dataset exists. *)
Released == Existing # {}

CheckImport ==
    /\ import = "none" /\ ~Released /\ cases < MaxCases
    /\ import' = "checked"
    /\ UNCHANGED <<cases, creation, run, result, conversation, rows, queue, worker, faults, runner, history>>

Import ==
    /\ import = "checked"
    /\ \E k \in 1 .. MaxCases - cases : cases' = cases + k
    /\ import' = "none"
    /\ UNCHANGED <<creation, run, result, conversation, rows, queue, worker, faults, runner, history>>

(* The rows violate (dataset, external_id), or the request ends otherwise. *)
ImportConflicts ==
    /\ import = "checked"
    /\ import' = "none"
    /\ UNCHANGED <<cases, creation, run, result, conversation, rows, queue, worker, faults, runner, history>>

(* _resolve_baseline_run: the runs a new run may be compared with. *)
MutantBaselines == Existing \cup {Nil}
Baselines == {b \in Existing : run[b].status = "succeeded"} \cup {Nil}

PrepareRun(r) ==
    /\ run[r].status = "none" /\ creation[r] = Absent
    /\ \E b \in Baselines : creation' = [creation EXCEPT ![r] = Created(cases, b)]
    /\ UNCHANGED <<cases, import, run, result, conversation, rows, queue, worker, faults, runner, history>>

(* The run and its outbox event are committed together. *)
CreateRun(r) ==
    /\ creation[r] # Absent
    /\ run' = [run EXCEPT ![r] = creation[r]]
    /\ creation' = [creation EXCEPT ![r] = Absent]
    /\ UNCHANGED <<cases, import, result, conversation, rows, queue, worker, faults, runner, history>>

-----------------------------------------------------------------------------
(* The outbox sends a run and marks the event in a later commit, which may *)
(* fail: the run is sent again.                                            *)
Send(r) ==
    /\ r \in Existing \ published
    /\ broker' = [broker EXCEPT ![[run |-> r, retries |-> 0]] = @ + 1]
    /\ \/ published' = published \cup {r} /\ UNCHANGED duplicates
       \/ duplicates < MaxDuplicates /\ duplicates' = duplicates + 1 /\ UNCHANGED published
    /\ UNCHANGED <<dataset, run, result, conversation, rows, worker, faults, runner, history>>

-----------------------------------------------------------------------------
(* run_evaluation and execute_run.                                         *)

(* Worker w goes to step s of its execution. *)
Go(w, s) == worker' = [worker EXCEPT ![w].pc = s]

(* It goes to execute_run's last handler, which needs only the run. *)
Failing(w) == [Idle EXCEPT !.pc = "fail", !.run = worker[w].run]
Fail(w) == worker' = [worker EXCEPT ![w] = Failing(w)]

(* The run is locked, made RUNNING and unlocked by the commit. *)
MutantStartable(r) == run[r].status \in RunStatus
Startable(r) == run[r].status \in RunStatus \ {"succeeded"}

(* The message is acknowledged when it is received. *)
Received(m) == broker[m] > 0 /\ broker' = [broker EXCEPT ![m] = @ - 1]

Skip(w, m) ==
    /\ worker[w] = Idle /\ ~Startable(m.run) /\ Received(m)
    /\ UNCHANGED <<dataset, run, result, conversation, rows, duplicates, published, worker, faults, runner, history>>

Start(w, m) ==
    /\ worker[w] = Idle /\ Startable(m.run) /\ Received(m)
    /\ run' = [run EXCEPT ![m.run].status = "running"]
    /\ worker' = [worker EXCEPT ![w] =
           [Idle EXCEPT !.pc = "list", !.run = m.run, !.retries = m.retries,
                        !.loaded = run[m.run].count]]
    /\ overlapped' = IF Executing(m.run) = {} THEN overlapped ELSE overlapped \cup {m.run}
    /\ UNCHANGED <<dataset, result, conversation, rows, duplicates, published, faults, runner, halfway, abandoned, expired>>

Fault == faults < MaxFaults /\ faults' = faults + 1

(* The first transaction of execute_run fails: its error is not mapped to a *)
(* transient one, and the message is gone.                                  *)
StartFails(m) ==
    /\ Received(m) /\ Fault
    /\ abandoned' = abandoned \cup {m.run}
    /\ UNCHANGED <<dataset, run, result, conversation, rows, duplicates, published, worker, runner, overlapped, halfway, expired>>

(* _execute_cases: the cases of the dataset now; none can be run without a runner. *)
ListCases(w) ==
    /\ worker[w].pc = "list"
    /\ IF cases > 0 /\ ~runner
       THEN Fail(w)
       ELSE worker' = [worker EXCEPT ![w] = [@ EXCEPT !.pc = "case", !.next = 1, !.last = cases]]
    /\ UNCHANGED <<dataset, run, result, conversation, rows, queue, faults, runner, history>>

(* The statuses of a case that an execution passes over. *)
Done == Terminal

(* The counts the session holds of its run: a rollback has expired them     *)
(* (Nil) until the run is used again.                                       *)
Held(w) == IF worker[w].loaded = Nil THEN run[worker[w].run].count ELSE worker[w].loaded

(* The status of the case's result is read. *)
TakeCase(w) ==
    LET r == worker[w].run  c == worker[w].next
    IN  /\ worker[w].pc = "case" /\ c <= worker[w].last
        /\ worker' = [worker EXCEPT ![w] =
               IF result[r][c].status \in Done
               THEN [@ EXCEPT !.loaded = Held(w), !.next = c + 1]
               ELSE [@ EXCEPT !.loaded = Held(w), !.pc = "mark", !.seen = result[r][c].status]]
        /\ UNCHANGED <<dataset, run, result, conversation, rows, queue, faults, runner, history>>

(* The result is inserted, or made RUNNING if it was loaded as PENDING; one *)
(* loaded as RUNNING is not written.  (run, case) is unique.                *)
MarkRunning(w) ==
    LET r == worker[w].run  c == worker[w].next
        missing == result[r][c].status = "none"
    IN  /\ worker[w].pc = "mark"
        /\ IF worker[w].seen = "none" /\ ~missing
           THEN Fail(w) /\ UNCHANGED result
           ELSE /\ worker' = [worker EXCEPT ![w] = [@ EXCEPT !.pc = "converse", !.seen = "none"]]
                /\ result' = IF worker[w].seen = "running" THEN result
                             ELSE [result EXCEPT ![r][c] =
                                      IF missing THEN [NoResult EXCEPT !.status = "running"]
                                      ELSE [@ EXCEPT !.status = "running"]]
        /\ UNCHANGED <<dataset, run, conversation, rows, queue, faults, runner, history>>

(* _create_isolated_conversation: a result has at most one conversation; a  *)
(* second one is an error of the case.                                      *)
Converse(w) ==
    LET r == worker[w].run  c == worker[w].next
    IN  /\ worker[w].pc = "converse"
        /\ IF c \in conversation[r]
           THEN Go(w, "collided") /\ UNCHANGED conversation
           ELSE Go(w, "answer") /\ conversation' = [conversation EXCEPT ![r] = @ \cup {c}]
        /\ UNCHANGED <<dataset, run, result, rows, queue, faults, runner, history>>

(* Result v replaces that of the worker's case, and the next case is taken  *)
(* with these counts in the session.                                        *)
EndCase(w, v, loaded) ==
    LET r == worker[w].run  c == worker[w].next
    IN  /\ result' = [result EXCEPT ![r][c] = v]
        /\ worker' = [worker EXCEPT ![w] = [@ EXCEPT !.pc = "case", !.next = c + 1, !.loaded = loaded]]
        /\ UNCHANGED <<dataset, run, conversation, rows, queue, faults, runner, history>>

(* The case runner's own commit of an answered and graded case. *)
GradeCase(w) ==
    /\ worker[w].pc = "answer"
    /\ \E s \in {"passed", "failed"} :
          EndCase(w, [status |-> s, collided |-> FALSE], worker[w].loaded)

(* _persist_case_error, for an invalid citation or another error: it rolls  *)
(* back first, which expires everything the session has loaded.             *)
FailCase(w) ==
    /\ worker[w].pc \in {"answer", "collided"}
    /\ \E s \in {"failed", "error"} :
          /\ s = "failed" => worker[w].pc = "answer"
          /\ LET old == result[worker[w].run][worker[w].next]
             IN  EndCase(w, [old EXCEPT !.status = s, !.collided = worker[w].pc = "collided"], Nil)

(* autoretry_for: the run is sent again until max_retries is reached. *)
MutantRetry(w) == worker' = [worker EXCEPT ![w] = Idle] /\ UNCHANGED <<broker, abandoned>>
Retry(w) ==
    LET r == worker[w].run  n == worker[w].retries
    IN  /\ worker' = [worker EXCEPT ![w] = Idle]
        /\ IF n < MaxRetries
           THEN /\ broker' = [broker EXCEPT ![[run |-> r, retries |-> n + 1]] = @ + 1]
                /\ UNCHANGED abandoned
           ELSE abandoned' = abandoned \cup {r} /\ UNCHANGED broker

(* _prepare_case_retry: the conversations a case leaves to its next execution. *)
MutantKept(r, c) == conversation[r]
Kept(r, c) == conversation[r] \ {c}

RetryCase(w) ==
    LET r == worker[w].run  c == worker[w].next
    IN  /\ worker[w].pc \in {"converse", "answer"}
        /\ conversation' = [conversation EXCEPT ![r] = Kept(r, c)]
        /\ result' = [result EXCEPT ![r][c].status = "pending"]
        /\ Retry(w)
        /\ UNCHANGED <<dataset, run, rows, duplicates, published, faults, runner, overlapped, halfway, expired>>

(* The database fails in a statement of the execution, or in the one that  *)
(* would prepare a case's retry: the run is retried as it is.              *)
DatabaseFails(w) ==
    /\ worker[w].pc \notin {"idle", "fail"}
    /\ Retry(w) /\ Fault
    /\ halfway' = halfway \cup {worker[w].run}
    /\ UNCHANGED <<dataset, run, result, conversation, rows, duplicates, published, runner, overlapped, expired>>

(* The process dies, or the commit of FAILED fails: nothing sends the run again. *)
Abandon(w) ==
    /\ worker[w] # Idle /\ Fault
    /\ worker' = [worker EXCEPT ![w] = Idle]
    /\ halfway' = halfway \cup {worker[w].run} /\ abandoned' = abandoned \cup {worker[w].run}
    /\ UNCHANGED <<dataset, run, result, conversation, rows, duplicates, published, broker, runner, overlapped, expired>>

-----------------------------------------------------------------------------
(* _finish_run and _persist_aggregate_metrics.                             *)

Having(r, S) == {c \in CaseNumbers : result[r][c].status \in S}

(* The counts of a run from the statuses of its results. *)
MutantCounted(r) == [completed |-> Cardinality(Having(r, CaseStatus \ {"none"})),
                     passed |-> Cardinality(Having(r, {"passed"})),
                     failed |-> Cardinality(Having(r, {"failed"}))]
Counted(r) == [completed |-> Cardinality(Having(r, CaseStatus \ {"none"})),
               passed |-> Cardinality(Having(r, {"passed"})),
               failed |-> Cardinality(Having(r, {"failed", "error"}))]

(* Results, baseline and the old aggregate rows to delete are read.  A     *)
(* baseline without aggregate rows is a configuration error.               *)
ReadResults(w) ==
    LET r == worker[w].run  b == run[r].baseline
    IN  /\ worker[w].pc = "case" /\ worker[w].next > worker[w].last
        /\ IF b # Nil /\ rows[b] = {}
           THEN Fail(w)
           ELSE worker' = [worker EXCEPT ![w] = [@ EXCEPT !.pc = "finish", !.count = Counted(r),
                                                 !.loaded = Held(w), !.old = rows[r]]]
        /\ UNCHANGED <<dataset, run, result, conversation, rows, queue, faults, runner, history>>

(* A column is written only where it differs from the value loaded. *)
MutantColumn(current, loaded, new) == current + new
Column(current, loaded, new) == IF new = loaded THEN current ELSE new

Written(current, loaded, new) ==
    [completed |-> Column(current.completed, loaded.completed, new.completed),
     passed    |-> Column(current.passed, loaded.passed, new.passed),
     failed    |-> Column(current.failed, loaded.failed, new.failed)]

(* The aggregate rows after this finish.  A new row's id is unused: by rows *)
(* that stay, and by rows that another execution has read and will delete.  *)
ReplacedRows(w) ==
    LET r == worker[w].run
        left == rows[r] \ worker[w].old
        used == left \cup UNION {worker[v].old : v \in Executing(r) \ {w}}
    IN  left \cup {CHOOSE n \in 0 .. Cardinality(used) : n \notin used}

Finish(w) ==
    LET r == worker[w].run
    IN  /\ worker[w].pc = "finish"
        /\ run' = [run EXCEPT ![r] = [@ EXCEPT !.status = "succeeded",
               !.count = Written(run[r].count, worker[w].loaded, worker[w].count)]]
        /\ rows' = [rows EXCEPT ![r] = ReplacedRows(w)]
        /\ worker' = [worker EXCEPT ![w] = Idle]
        /\ UNCHANGED <<dataset, result, conversation, queue, faults, runner, history>>

(* execute_run's last handler: FAILED whatever the run's status now. *)
FailRun(w) ==
    /\ worker[w].pc = "fail"
    /\ run' = [run EXCEPT ![worker[w].run].status = "failed"]
    /\ worker' = [worker EXCEPT ![w] = Idle]
    /\ UNCHANGED <<dataset, result, conversation, rows, queue, faults, runner, history>>

-----------------------------------------------------------------------------
(* cleanup_expired_evaluation_details: the results of a run created before  *)
(* the cutoff are deleted, whatever its status, and their conversations by  *)
(* ON DELETE CASCADE; the run and its aggregate rows stay.  The period is a *)
(* day or more, and a run may still be executed when it ends: a worker that *)
(* is about to write a deleted result, or whose case has failed, ends in    *)
(* execute_run's handler; one that is answering ("gone") finds out later.   *)
Bereft(w, r) ==
    LET pc == worker[w].pc
    IN  IF worker[w].run # r THEN worker[w]
        ELSE IF pc \in {"converse", "answer"} THEN [worker[w] EXCEPT !.pc = "gone"]
        ELSE IF (pc = "mark" /\ worker[w].seen # "none") \/ pc = "collided" THEN Failing(w)
        ELSE worker[w]

CleanUp(r) ==
    /\ \E c \in CaseNumbers : result[r][c] # NoResult
    /\ expired' = expired \cup {r} /\ Cardinality(expired') <= MaxExpired
    /\ result' = [result EXCEPT ![r] = [c \in CaseNumbers |-> NoResult]]
    /\ conversation' = [conversation EXCEPT ![r] = {}]
    /\ worker' = [w \in Workers |-> Bereft(w, r)]
    /\ UNCHANGED <<dataset, run, rows, queue, faults, runner, overlapped, halfway, abandoned>>

(* No handler of the case survives the missing row: execute_run fails, or   *)
(* finds the transient error the handler was entered with and raises it.    *)
MissResult(w) ==
    /\ worker[w].pc = "gone"
    /\ \/ Fail(w) /\ UNCHANGED <<broker, abandoned>>
       \/ Retry(w)
    /\ UNCHANGED <<dataset, run, result, conversation, rows, duplicates, published, faults, runner, overlapped, halfway, expired>>

-----------------------------------------------------------------------------
Api == CheckImport \/ Import \/ ImportConflicts \/ \E r \in Runs : PrepareRun(r) \/ CreateRun(r)

Execute(w) ==
    \/ \E m \in Messages : Start(w, m) \/ Skip(w, m)
    \/ ListCases(w) \/ TakeCase(w) \/ MarkRunning(w) \/ Converse(w)
    \/ GradeCase(w) \/ FailCase(w) \/ RetryCase(w)
    \/ ReadResults(w) \/ Finish(w) \/ FailRun(w) \/ MissResult(w)

Next ==
    \/ Api
    \/ \E r \in Runs : Send(r) \/ CleanUp(r)
    \/ \E m \in Messages : StartFails(m)
    \/ \E w \in Workers : Execute(w) \/ DatabaseFails(w) \/ Abandon(w)

(* The beat schedule publishes again and again, idle workers take messages, *)
(* and a busy worker goes on unless its process dies.                       *)
Fairness ==
    /\ \A r \in Runs : WF_vars(Send(r))
    /\ \A w \in Workers : WF_vars(Execute(w))

Spec == Init /\ [][Next]_vars /\ Fairness

-----------------------------------------------------------------------------
(* Every variable has its type: the rows, the messages and what each worker *)
(* has read are those the services and the broker can hold.                 *)
Rows == [status : RunStatus \cup {"none"}, total : 0 .. MaxCases, baseline : Runs \cup {Nil}, count : Counts]

TypeOK ==
    /\ cases \in 0 .. MaxCases /\ import \in {"none", "checked"}
    /\ creation \in [Runs -> Rows] /\ run \in [Runs -> Rows]
    /\ result \in [Runs -> [CaseNumbers -> [status : CaseStatus, collided : BOOLEAN]]]
    /\ conversation \in [Runs -> SUBSET CaseNumbers]
    /\ rows \in [Runs -> SUBSET Nat]
    /\ duplicates \in 0 .. MaxDuplicates /\ faults \in 0 .. MaxFaults /\ published \subseteq Runs
    /\ broker \in [Messages -> Nat]
    /\ \A w \in Workers : worker[w] # Idle =>
          /\ worker[w].run \in Existing /\ worker[w].retries \in 0 .. MaxRetries
          /\ worker[w].next \in 0 .. MaxCases + 1 /\ worker[w].last \in 0 .. MaxCases
          /\ worker[w].pc \in {"mark", "converse", "answer", "collided"} => worker[w].next \in CaseNumbers
    /\ runner \in BOOLEAN

(* A run that only one worker at a time has executed and that has SUCCEEDED *)
(* has one finish's aggregates, and until its details expire a result of    *)
(* every case it was created for, all of them final, and counts that are    *)
(* those of its results (service.py _finish_run, _persist_aggregate_metrics,*)
(* retention/service.py cleanup_expired_evaluation_details).                *)
SucceededRunsAreComplete ==
    \A r \in Existing \ overlapped : run[r].status = "succeeded" =>
        /\ Cardinality(rows[r]) = 1
        /\ run[r].count.completed = run[r].count.passed + run[r].count.failed
        /\ r \notin expired =>
              /\ Having(r, {"pending", "running"}) = {}
              /\ 1 .. run[r].total \subseteq Having(r, Terminal)
              /\ run[r].count.completed = Cardinality(Having(r, Terminal))

(* Unless two workers execute the run at a time, its success with counts    *)
(* and aggregates is never undone, and a final result is never replaced by  *)
(* another outcome, whatever is retried, sent again or crashes: only the    *)
(* clean-up ends it, and then all results of the run are gone together      *)
(* (service.py execute_run, runner.py _run_case and its error handlers,     *)
(* docs/retention-policy.md "run summaries and run-level metrics are        *)
(* preserved").                                                             *)
OutcomesStay == [][\A r \in Existing \ overlapped' :
    /\ run[r].status = "succeeded" => run'[r] = run[r] /\ rows'[r] = rows[r]
    /\ \/ \A c \in Having(r, Terminal) : result'[r][c] = result[r][c]
       \/ r \in expired' /\ \A c \in CaseNumbers : result'[r][c] = NoResult]_vars

(* A case fails because its result has a conversation already only after an *)
(* execution that could not clean up, or beside another one: the retry of a *)
(* transient error alone never makes a case an ERROR (runner.py             *)
(* _prepare_case_retry, _create_isolated_conversation).                     *)
RetriesStartAfresh ==
    \A r \in Runs, c \in CaseNumbers :
        result[r][c].collided => r \in halfway \cup overlapped

(* What a run is compared with has aggregate metrics as long as the run     *)
(* exists, even when the baseline is executed again or made FAILED later    *)
(* (service.py _resolve_baseline_run, _compare_with_baseline).              *)
BaselinesStayComparable ==
    \A r \in Existing : run[r].baseline # Nil => rows[run[r].baseline] # {}

(* A run that is created ends, SUCCEEDED or FAILED, unless an execution was *)
(* abandoned: its process died, its retries were used up, or its first or   *)
(* its last transaction failed (worker tasks/evaluations.py).               *)
RunsEnd ==
    \A r \in Runs : (run[r].status # "none") ~>
        (run[r].status \in {"succeeded", "failed"} \/ r \in abandoned)

(* routes/evaluations.py:130: "Released datasets cannot be changed". *)
ReleasedDatasetsAreFixed == [][Existing # {} => cases' = cases]_vars
=============================================================================

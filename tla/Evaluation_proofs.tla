-------------------------- MODULE Evaluation_proofs --------------------------
(***************************************************************************)
(* Proofs about Evaluation: whatever the number of runs, cases, workers,   *)
(* duplicates and retries, the rows of a run that one worker at a time has *)
(* executed fit the step of its execution, and what is compared with a     *)
(* baseline stays comparable.                                              *)
(***************************************************************************)
EXTENDS Evaluation, FiniteSetTheorems, TLAPS

Steps == {"idle", "list", "case", "mark", "converse", "answer", "collided", "gone", "finish", "fail"}
InCase == {"mark", "converse", "answer", "collided"}

ResultRows == [status : CaseStatus, collided : BOOLEAN]

WorkerRows ==
    [pc : Steps, run : Runs \cup {Nil}, retries : 0 .. MaxRetries, loaded : Counts \cup {Nil},
     next : 0 .. MaxCases + 1, last : 0 .. MaxCases, seen : CaseStatus, count : Counts,
     old : SUBSET Nat]

TypeInv ==
    /\ cases \in 0 .. MaxCases /\ import \in {"none", "checked"}
    /\ creation \in [Runs -> Rows] /\ run \in [Runs -> Rows]
    /\ result \in [Runs -> [CaseNumbers -> ResultRows]]
    /\ conversation \in [Runs -> SUBSET CaseNumbers]
    /\ rows \in [Runs -> SUBSET Nat]
    /\ duplicates \in 0 .. MaxDuplicates /\ faults \in 0 .. MaxFaults /\ published \subseteq Runs
    /\ broker \in [Messages -> Nat]
    /\ worker \in [Workers -> WorkerRows] /\ runner \in BOOLEAN
    /\ overlapped \subseteq Runs /\ halfway \subseteq Runs /\ abandoned \subseteq Runs

(* What is being executed exists; an execution stays within its cases. *)
PlaceInv ==
    /\ \A m \in Messages : broker[m] > 0 => m.run \in Existing
    /\ \A r \in Runs : IsFiniteSet(rows[r])
    /\ \A w \in Workers : worker[w] # Idle =>
          /\ worker[w].pc # "idle" /\ worker[w].run \in Existing /\ IsFiniteSet(worker[w].old)
          /\ worker[w].last <= cases
          /\ worker[w].pc = "case" => worker[w].next >= 1 /\ worker[w].next <= worker[w].last + 1
          /\ worker[w].pc \in InCase => worker[w].next \in 1 .. worker[w].last
    /\ \A r \in Runs :
          /\ run[r].total <= cases /\ creation[r].total <= cases
          /\ creation[r] # Absent => /\ run[r].status = "none" /\ creation[r].status = "pending"
                                     /\ creation[r].count = Zero

-----------------------------------------------------------------------------
(* Lemmas about the operators. *)
LEMMA NotIdle == ASSUME NEW w, worker[w].pc # "idle" PROVE worker[w] # Idle
BY DEF Idle

(* The actions that work on a case are taken at that case. *)
LEMMA MarkAtCase == ASSUME NEW w, MarkRunning(w) PROVE worker[w].pc = "mark"
BY DEF MarkRunning

LEMMA ConverseAtCase == ASSUME NEW w, Converse(w) PROVE worker[w].pc \in {"converse", "collided"}
BY DEF Converse

LEMMA GradeAtCase == ASSUME NEW w, GradeCase(w) PROVE worker[w].pc = "answer"
BY DEF GradeCase

LEMMA FailAtCase == ASSUME NEW w, FailCase(w) PROVE worker[w].pc \in {"answer", "collided"}
BY DEF FailCase

LEMMA RetryAtCase == ASSUME NEW w, RetryCase(w) PROVE worker[w].pc \in {"converse", "answer"}
BY DEF RetryCase

LEMMA AtCase ==
    ASSUME NEW w, MarkRunning(w) \/ Converse(w) \/ GradeCase(w) \/ FailCase(w) \/ RetryCase(w)
    PROVE  worker[w] # Idle /\ worker[w].pc \in InCase
<1>1. worker[w].pc \in InCase
    BY MarkAtCase, ConverseAtCase, GradeAtCase, FailAtCase, RetryAtCase DEF InCase
<1>2. worker[w].pc # "idle"
    BY <1>1 DEF InCase
<1> QED BY <1>1, <1>2, NotIdle

LEMMA CaseSets ==
    ASSUME NEW S \in SUBSET CaseNumbers
    PROVE  IsFiniteSet(S) /\ Cardinality(S) \in 0 .. MaxCases
<1>1. IsFiniteSet(CaseNumbers) /\ Cardinality(CaseNumbers) = MaxCases
    BY FS_Interval, BoundsAreNaturals DEF CaseNumbers
<1> QED BY <1>1, FS_Subset, FS_CardinalityType

LEMMA CountsOfStatuses == \A r \in Runs : Counted(r) \in Counts
BY CaseSets DEF Counted, Counts, Having

LEMMA WrittenCounts ==
    ASSUME NEW x \in Counts, NEW y, NEW z \in Counts
    PROVE  Written(x, y, z) \in Counts /\ (x = y => Written(x, y, z) = z)
BY DEF Written, Column, Counts

(* A finite set of numbers leaves one of the first numbers unused. *)
LEMMA UnusedNumber ==
    ASSUME NEW S, IsFiniteSet(S)
    PROVE  \E n \in 0 .. Cardinality(S) : n \notin S
<1>1. Cardinality(S) \in Nat
    BY FS_CardinalityType
<1>2. Cardinality(0 .. Cardinality(S)) = Cardinality(S) + 1
    BY <1>1, FS_Interval
<1>3. SUFFICES ASSUME 0 .. Cardinality(S) \subseteq S PROVE FALSE
    OBVIOUS
<1>4. Cardinality(0 .. Cardinality(S)) <= Cardinality(S)
    BY <1>3, FS_Subset
<1> QED BY <1>1, <1>2, <1>4

LEMMA RowsOfAFinish ==
    ASSUME TypeInv, PlaceInv, NEW w \in Workers, worker[w] # Idle
    PROVE  \E n \in Nat : ReplacedRows(w) = (rows[worker[w].run] \ worker[w].old) \cup {n}
<1> DEFINE r == worker[w].run
           others == Executing(r) \ {w}
           olds == {worker[v].old : v \in others}
           used == (rows[r] \ worker[w].old) \cup UNION olds
<1>1. r \in Runs
    BY DEF PlaceInv, Existing
<1>2. \A v \in others : IsFiniteSet(worker[v].old)
  <2>1. \A v \in others : v \in Workers /\ worker[v] # Idle
      BY <1>1, NilIsNoRun DEF Executing, Idle
  <2> QED BY <2>1 DEF PlaceInv
<1>3. IsFiniteSet(olds)
  <2> DEFINE f == [v \in others |-> worker[v].old]
  <2>1. IsFiniteSet(others)
      BY WorkersAreFinite, FS_Subset DEF Executing
  <2>2. f \in Surjection(others, olds)
      BY DEF Surjection
  <2> QED BY <2>1, <2>2, FS_Surjection
<1>4. IsFiniteSet(UNION olds)
    BY <1>2, <1>3, FS_UNION
<1>5. IsFiniteSet(rows[r] \ worker[w].old)
    BY <1>1, FS_Subset DEF PlaceInv
<1>6. IsFiniteSet(used)
    BY <1>4, <1>5, FS_Union
<1>7. Cardinality(used) \in Nat
    BY <1>6, FS_CardinalityType
<1>8. \E n \in 0 .. Cardinality(used) : n \notin used
    BY <1>6, UnusedNumber
<1> DEFINE chosen == CHOOSE n \in 0 .. Cardinality(used) : n \notin used
<1>9. chosen \in 0 .. Cardinality(used)
    BY <1>8
<1>10. chosen \in Nat
    BY <1>7, <1>9
<1>11. ReplacedRows(w) = (rows[r] \ worker[w].old) \cup {chosen}
    BY DEF ReplacedRows
<1> QED BY <1>10, <1>11

-----------------------------------------------------------------------------
(* The new row of a worker in a step of its execution. *)
Moves(w, X) == worker' = [worker EXCEPT ![w] = X]

LEMMA Moved ==
    ASSUME TypeInv, NEW w \in Workers, NEW X \in WorkerRows, Moves(w, X)
    PROVE  /\ worker' \in [Workers -> WorkerRows] /\ worker'[w] = X
           /\ \A v \in Workers : v # w => worker'[v] = worker[v]
BY DEF TypeInv, Moves

LEMMA IdleRow == Idle \in WorkerRows
<1>1. Zero \in Counts
    BY BoundsAreNaturals DEF Zero, Counts
<1> QED BY <1>1, BoundsAreNaturals DEF Idle, WorkerRows, Steps, CaseStatus

LEMMA RowUpdates ==
    ASSUME NEW x \in WorkerRows, NEW s \in Steps, NEW n \in 0 .. MaxCases + 1
    PROVE  /\ [x EXCEPT !.pc = s] \in WorkerRows
           /\ \A l \in 0 .. MaxCases : [x EXCEPT !.pc = s, !.next = n, !.last = l] \in WorkerRows
           /\ \A l \in Counts \cup {Nil} : /\ [x EXCEPT !.loaded = l, !.next = n] \in WorkerRows
                                           /\ [x EXCEPT !.pc = s, !.next = n, !.loaded = l] \in WorkerRows
           /\ \A k \in CaseStatus : /\ [x EXCEPT !.pc = s, !.seen = k] \in WorkerRows
                                    /\ \A l \in Counts : [x EXCEPT !.loaded = l, !.pc = s, !.seen = k] \in WorkerRows
           /\ \A k \in Counts, l \in Counts, o \in SUBSET Nat :
                 [x EXCEPT !.pc = s, !.count = k, !.loaded = l, !.old = o] \in WorkerRows
BY DEF WorkerRows

LEMMA HeldCounts ==
    ASSUME TypeInv, NEW w \in Workers, worker[w].run \in Runs
    PROVE  Held(w) \in Counts
<1>1. worker[w].loaded \in Counts \cup {Nil} /\ run[worker[w].run].count \in Counts
    BY DEF TypeInv, WorkerRows, Rows
<1> QED BY <1>1 DEF Held

LEMMA GoMoves ==
    ASSUME TypeInv, NEW w \in Workers, NEW s \in Steps, Go(w, s)
    PROVE  /\ Moves(w, [worker[w] EXCEPT !.pc = s])
           /\ [worker[w] EXCEPT !.pc = s] \in WorkerRows
<1>1. worker[w] \in WorkerRows
    BY DEF TypeInv
<1> QED BY <1>1 DEF Moves, Go, TypeInv, WorkerRows

LEMMA FailMoves ==
    ASSUME TypeInv, PlaceInv, NEW w \in Workers, worker[w] # Idle
    PROVE  /\ Failing(w) \in WorkerRows /\ (Fail(w) => Moves(w, Failing(w)))
           /\ Failing(w).pc = "fail" /\ Failing(w).run = worker[w].run /\ Failing(w).old = {}
           /\ Failing(w).last = 0
<1>1. worker[w].run \in Runs /\ "fail" \in Steps
    BY DEF PlaceInv, Existing, Steps
<1>2. Failing(w) \in WorkerRows
    BY <1>1, IdleRow DEF Failing, WorkerRows
<1>3. /\ Failing(w).pc = "fail" /\ Failing(w).run = worker[w].run /\ Failing(w).old = {}
      /\ Failing(w).last = 0
    BY DEF Failing, Idle
<1> QED BY <1>2, <1>3 DEF Fail, Moves

(* The clean-up stops the workers of its run, at most. *)
LEMMA Bereaved ==
    ASSUME TypeInv, PlaceInv, NEW r \in Runs, CleanUp(r), NEW w \in Workers
    PROVE  /\ worker'[w] \in WorkerRows
           /\ worker[w].run # r => worker'[w] = worker[w]
           /\ \/ /\ worker'[w] = worker[w] /\ worker[w].pc \notin {"converse", "answer", "collided"}
                 /\ worker[w].pc = "mark" => worker[w].seen = "none"
              \/ worker'[w] = worker[w] /\ worker[w].run # r
              \/ /\ worker[w] # Idle /\ worker'[w].pc \in {"gone", "fail"} /\ worker'[w].run = worker[w].run
                 /\ worker'[w].old \in {{}, worker[w].old} /\ worker'[w].last \in {0, worker[w].last}
<1>1. worker'[w] = Bereft(w, r) /\ worker[w] \in WorkerRows
    BY DEF CleanUp, TypeInv
<1>2. CASE worker[w].run # r
    BY <1>1, <1>2 DEF Bereft
<1>3. CASE worker[w].run = r /\ worker[w].pc \in {"converse", "answer"}
  <2> DEFINE X == [worker[w] EXCEPT !.pc = "gone"]
  <2>1. worker'[w] = X
      BY <1>1, <1>3 DEF Bereft
  <2>2. X \in WorkerRows
    <3>1. "gone" \in Steps /\ 0 \in 0 .. MaxCases + 1
        BY BoundsAreNaturals DEF Steps
    <3> QED BY <1>1, <3>1, RowUpdates
  <2>3. X.pc = "gone" /\ X.run = worker[w].run /\ X.old = worker[w].old /\ X.last = worker[w].last
      BY <1>1 DEF WorkerRows
  <2>4. worker[w] # Idle
      BY <1>3 DEF Idle
  <2> HIDE DEF X
  <2> QED BY <1>3, <2>1, <2>2, <2>3, <2>4
<1>4. CASE /\ worker[w].run = r /\ worker[w].pc \notin {"converse", "answer"}
           /\ (worker[w].pc = "mark" /\ worker[w].seen # "none") \/ worker[w].pc = "collided"
  <2>1. worker'[w] = Failing(w) /\ worker[w] # Idle
      BY <1>1, <1>4 DEF Bereft, Idle
  <2> QED BY <1>4, <2>1, FailMoves
<1>5. CASE /\ worker[w].run = r /\ worker[w].pc \notin {"converse", "answer"}
           /\ ~((worker[w].pc = "mark" /\ worker[w].seen # "none") \/ worker[w].pc = "collided")
    BY <1>1, <1>5 DEF Bereft
<1> QED BY <1>2, <1>3, <1>4, <1>5

(* A worker of Retry is idle, and its message, if it has one, is the run's. *)
LEMMA Retried ==
    ASSUME TypeInv, PlaceInv, NEW w \in Workers, worker[w] # Idle, Retry(w)
    PROVE  /\ Moves(w, Idle) /\ abandoned' \subseteq Runs
           /\ broker' \in [Messages -> Nat]
           /\ \A m \in Messages : broker'[m] > 0 => broker[m] > 0 \/ m.run = worker[w].run
<1>1. worker[w].run \in Runs /\ worker[w].retries \in 0 .. MaxRetries /\ broker \in [Messages -> Nat]
    BY DEF PlaceInv, Existing, TypeInv, WorkerRows
<1>2. CASE worker[w].retries < MaxRetries
  <2> DEFINE n == [run |-> worker[w].run, retries |-> worker[w].retries + 1]
  <2>1. n \in Messages
      BY <1>1, <1>2, BoundsAreNaturals DEF Messages
  <2>2. broker' = [broker EXCEPT ![n] = @ + 1] /\ UNCHANGED abandoned /\ worker' = [worker EXCEPT ![w] = Idle]
      BY <1>2 DEF Retry
  <2>3. broker' \in [Messages -> Nat] /\ \A m \in Messages : m # n => broker'[m] = broker[m]
      BY <1>1, <2>1, <2>2
  <2>4. n.run = worker[w].run
      OBVIOUS
  <2> QED BY <2>2, <2>3, <2>4 DEF Moves, TypeInv
<1>3. CASE ~(worker[w].retries < MaxRetries)
    BY <1>1, <1>3 DEF Retry, Moves, TypeInv
<1> QED BY <1>2, <1>3

LEMMA MessageReceived ==
    ASSUME TypeInv, NEW m \in Messages, Received(m)
    PROVE  /\ broker' \in [Messages -> Nat] /\ broker[m] > 0
           /\ \A n \in Messages : broker'[n] > 0 => broker[n] > 0
<1>1. broker \in [Messages -> Nat] /\ broker[m] > 0 /\ broker' = [broker EXCEPT ![m] = @ - 1]
    BY DEF TypeInv, Received
<1> QED BY <1>1

LEMMA RowsAreRows ==
    ASSUME TypeInv
    PROVE  /\ \A r \in Runs, s \in RunStatus : [run[r] EXCEPT !.status = s] \in Rows
           /\ \A r \in Runs, s \in RunStatus, n \in Counts : [run[r] EXCEPT !.status = s, !.count = n] \in Rows
           /\ \A n \in 0 .. MaxCases, b \in Runs \cup {Nil} : Created(n, b) \in Rows
           /\ Absent \in Rows
<1>1. Zero \in Counts
    BY BoundsAreNaturals DEF Zero, Counts
<1>2. run \in [Runs -> Rows]
    BY DEF TypeInv
<1>3. \A r \in Runs, s \in RunStatus, n \in Counts : [run[r] EXCEPT !.status = s, !.count = n] \in Rows
    BY <1>2 DEF Rows
<1>4. \A r \in Runs, s \in RunStatus : [run[r] EXCEPT !.status = s] \in Rows
    BY <1>2 DEF Rows
<1>5. Absent \in Rows
    BY <1>1, BoundsAreNaturals DEF Rows, Absent
<1>6. \A n \in 0 .. MaxCases, b \in Runs \cup {Nil} : Created(n, b) \in Rows
    BY <1>1, BoundsAreNaturals DEF Rows, Absent, Created, RunStatus
<1> QED BY <1>3, <1>4, <1>5, <1>6

-----------------------------------------------------------------------------
(* Every step leaves every variable its type. *)
LEMMA TypeStep == TypeInv /\ PlaceInv /\ [Next]_vars => TypeInv'
<1> SUFFICES ASSUME TypeInv, PlaceInv, [Next]_vars PROVE TypeInv'
    OBVIOUS
<1> USE BoundsAreNaturals
<1>1. CASE CheckImport \/ Import \/ ImportConflicts
  <2>1. cases' \in 0 .. MaxCases /\ import' \in {"none", "checked"}
      BY <1>1 DEF CheckImport, Import, ImportConflicts, TypeInv
  <2> QED BY <1>1, <2>1 DEF CheckImport, Import, ImportConflicts, TypeInv, queue, history
<1>2. ASSUME NEW r \in Runs, PrepareRun(r) PROVE TypeInv'
  <2>1. PICK b \in Baselines : creation' = [creation EXCEPT ![r] = Created(cases, b)]
      BY <1>2 DEF PrepareRun
  <2>2. b \in Runs \cup {Nil} /\ cases \in 0 .. MaxCases
      BY DEF Baselines, Existing, TypeInv
  <2>3. creation' \in [Runs -> Rows]
      BY <2>1, <2>2, RowsAreRows DEF TypeInv
  <2> QED BY <1>2, <2>3 DEF PrepareRun, TypeInv, queue, history
<1>3. ASSUME NEW r \in Runs, CreateRun(r) PROVE TypeInv'
  <2>1. run' \in [Runs -> Rows] /\ creation' \in [Runs -> Rows]
      BY <1>3, RowsAreRows DEF CreateRun, TypeInv
  <2> QED BY <1>3, <2>1 DEF CreateRun, TypeInv, queue, history
<1>4. ASSUME NEW r \in Runs, Send(r) PROVE TypeInv'
  <2>1. [run |-> r, retries |-> 0] \in Messages
      BY DEF Messages
  <2>2. broker' \in [Messages -> Nat]
      BY <1>4, <2>1 DEF Send, TypeInv
  <2>3. published' \subseteq Runs /\ duplicates' \in 0 .. MaxDuplicates
      BY <1>4 DEF Send, TypeInv
  <2> QED BY <1>4, <2>2, <2>3 DEF Send, TypeInv, dataset, history
<1>5. ASSUME NEW w \in Workers, NEW m \in Messages, Skip(w, m) PROVE TypeInv'
    BY <1>5, MessageReceived DEF Skip, TypeInv, dataset, history
<1>6. ASSUME NEW m \in Messages, StartFails(m) PROVE TypeInv'
  <2>1. m.run \in Runs
      BY DEF Messages
  <2>2. faults' \in 0 .. MaxFaults
      BY <1>6 DEF StartFails, Fault, TypeInv
  <2> QED BY <1>6, <2>1, <2>2, MessageReceived DEF StartFails, TypeInv, dataset
<1>7. ASSUME NEW w \in Workers, NEW m \in Messages, Start(w, m) PROVE TypeInv'
  <2>1. m.run \in Runs /\ m.retries \in 0 .. MaxRetries
      BY DEF Messages
  <2>2. run' \in [Runs -> Rows]
      BY <1>7, <2>1, RowsAreRows DEF Start, TypeInv, RunStatus
  <2> DEFINE X == [Idle EXCEPT !.pc = "list", !.run = m.run, !.retries = m.retries, !.loaded = run[m.run].count]
  <2>3. X \in WorkerRows
    <3>1. run[m.run].count \in Counts
        BY <2>1 DEF TypeInv, Rows
    <3> QED BY <2>1, <3>1, IdleRow DEF WorkerRows, Steps
  <2>4. worker' \in [Workers -> WorkerRows]
    <3>1. worker' = [worker EXCEPT ![w] = X]
        BY <1>7 DEF Start
    <3> HIDE DEF X
    <3> QED BY <2>3, <3>1 DEF TypeInv
  <2> QED BY <1>7, <2>1, <2>2, <2>4, MessageReceived DEF Start, TypeInv, dataset
<1>8. ASSUME NEW w \in Workers, \/ ListCases(w) \/ TakeCase(w) \/ ReadResults(w)
      PROVE TypeInv'
  <2>0. worker[w] \in WorkerRows
      BY DEF TypeInv
  <2>1. worker[w] # Idle
      BY <1>8 DEF ListCases, TakeCase, ReadResults, Idle
  <2>2. worker[w].run \in Runs
      BY <2>1 DEF PlaceInv, Existing
  <2>3. CASE ListCases(w)
    <3>1. cases \in 0 .. MaxCases /\ 1 \in 0 .. MaxCases + 1 /\ {"case", "fail"} \subseteq Steps
        BY DEF TypeInv, Steps
    <3>2. [worker[w] EXCEPT !.pc = "case", !.next = 1, !.last = cases] \in WorkerRows
        BY <2>0, <3>1, RowUpdates
    <3>3. \/ Fail(w)
          \/ Moves(w, [worker[w] EXCEPT !.pc = "case", !.next = 1, !.last = cases])
        BY <2>3 DEF ListCases, Moves
    <3>4. worker' \in [Workers -> WorkerRows]
        BY <2>1, <3>2, <3>3, FailMoves, Moved
    <3> QED BY <2>3, <3>4 DEF ListCases, TypeInv, dataset, queue, history
  <2>4. CASE TakeCase(w)
    <3>1. /\ [worker[w] EXCEPT !.loaded = Held(w), !.next = worker[w].next + 1] \in WorkerRows
          /\ [worker[w] EXCEPT !.loaded = Held(w), !.pc = "mark",
                               !.seen = result[worker[w].run][worker[w].next].status] \in WorkerRows
      <4>1. worker[w].next \in 1 .. MaxCases
        <5>1. worker[w].next \in 0 .. MaxCases + 1 /\ worker[w].last \in 0 .. MaxCases
            BY <2>0 DEF WorkerRows
        <5> QED BY <2>1, <2>4, <5>1 DEF TakeCase, PlaceInv
      <4>2. result[worker[w].run][worker[w].next].status \in CaseStatus
          BY <2>2, <4>1 DEF TypeInv, ResultRows, CaseNumbers
      <4>3. "mark" \in Steps /\ worker[w].next + 1 \in 0 .. MaxCases + 1
          BY <4>1 DEF Steps
      <4>4. Held(w) \in Counts
          BY <2>2, HeldCounts
      <4> QED BY <2>0, <4>2, <4>3, <4>4, RowUpdates
    <3>2. worker' \in [Workers -> WorkerRows]
        BY <2>4, <3>1, Moved DEF TakeCase, Moves
    <3> QED BY <2>4, <3>2 DEF TakeCase, TypeInv, dataset, queue, history
  <2>5. CASE ReadResults(w)
    <3>1. [worker[w] EXCEPT !.pc = "finish", !.count = Counted(worker[w].run), !.loaded = Held(w),
                            !.old = rows[worker[w].run]] \in WorkerRows
      <4>1. Counted(worker[w].run) \in Counts /\ rows[worker[w].run] \in SUBSET Nat /\ Held(w) \in Counts
          BY <2>2, CountsOfStatuses, HeldCounts DEF TypeInv
      <4>2. "finish" \in Steps /\ 0 \in 0 .. MaxCases + 1
          BY DEF Steps
      <4> QED BY <2>0, <4>1, <4>2, RowUpdates
    <3>2. \/ Fail(w)
          \/ Moves(w, [worker[w] EXCEPT !.pc = "finish", !.count = Counted(worker[w].run), !.loaded = Held(w),
                                        !.old = rows[worker[w].run]])
        BY <2>5 DEF ReadResults, Moves
    <3>4. worker' \in [Workers -> WorkerRows]
        BY <2>1, <3>1, <3>2, FailMoves, Moved
    <3> QED BY <2>5, <3>4 DEF ReadResults, TypeInv, dataset, queue, history
  <2> QED BY <1>8, <2>3, <2>4, <2>5
<1>9. ASSUME NEW w \in Workers, MarkRunning(w) \/ Converse(w) PROVE TypeInv'
  <2>1. worker[w] # Idle /\ worker[w].pc \in InCase
      BY <1>9, AtCase
  <2>2. worker[w].run \in Runs /\ worker[w].next \in CaseNumbers
    <3>1. worker[w].last \in 0 .. MaxCases
        BY DEF TypeInv, WorkerRows
    <3> QED BY <2>1, <3>1 DEF PlaceInv, Existing, CaseNumbers
  <2>3. worker' \in [Workers -> WorkerRows]
    <3>1. [worker[w] EXCEPT !.pc = "converse", !.seen = "none"] \in WorkerRows
      <4>1. worker[w] \in WorkerRows /\ "converse" \in Steps /\ "none" \in CaseStatus /\ 0 \in 0 .. MaxCases + 1
          BY DEF TypeInv, Steps, CaseStatus
      <4> QED BY <4>1, RowUpdates
    <3>2. \/ Fail(w) \/ Moves(w, [worker[w] EXCEPT !.pc = "converse", !.seen = "none"])
          \/ Go(w, "collided") \/ Go(w, "answer")
        BY <1>9 DEF MarkRunning, Converse, Moves
    <3>3. "collided" \in Steps /\ "answer" \in Steps
        BY DEF Steps
    <3> QED BY <2>1, <3>1, <3>2, <3>3, FailMoves, GoMoves, Moved
  <2>4. CASE MarkRunning(w)
    <3>1. result' \in [Runs -> [CaseNumbers -> ResultRows]]
      <4>1. result[worker[w].run][worker[w].next] \in ResultRows
          BY <2>2 DEF TypeInv
      <4>2. /\ [NoResult EXCEPT !.status = "running"] \in ResultRows
            /\ [result[worker[w].run][worker[w].next] EXCEPT !.status = "running"] \in ResultRows
          BY <4>1 DEF ResultRows, NoResult, CaseStatus
      <4>3. \/ UNCHANGED result
            \/ \E v \in ResultRows : result' = [result EXCEPT ![worker[w].run][worker[w].next] = v]
        <5> DEFINE v == IF result[worker[w].run][worker[w].next].status = "none"
                        THEN [NoResult EXCEPT !.status = "running"]
                        ELSE [result[worker[w].run][worker[w].next] EXCEPT !.status = "running"]
        <5>1. v \in ResultRows
            BY <4>2
        <5>2. UNCHANGED result \/ result' = [result EXCEPT ![worker[w].run][worker[w].next] = v]
            BY <2>4 DEF MarkRunning
        <5> HIDE DEF v
        <5> QED BY <5>1, <5>2
      <4>4. ASSUME NEW v \in ResultRows, result' = [result EXCEPT ![worker[w].run][worker[w].next] = v]
            PROVE result' \in [Runs -> [CaseNumbers -> ResultRows]]
          BY <2>2, <4>4 DEF TypeInv
      <4> QED BY <4>3, <4>4 DEF TypeInv
    <3> QED BY <2>3, <2>4, <3>1 DEF MarkRunning, TypeInv, dataset, queue, history
  <2>5. CASE Converse(w)
    <3>1. conversation' \in [Runs -> SUBSET CaseNumbers]
        BY <2>2, <2>5 DEF Converse, TypeInv
    <3> QED BY <2>3, <2>5, <3>1 DEF Converse, TypeInv, dataset, queue, history
  <2> QED BY <1>9, <2>4, <2>5
<1>10. ASSUME NEW w \in Workers, GradeCase(w) \/ FailCase(w) PROVE TypeInv'
  <2>1. worker[w] # Idle /\ worker[w].pc \in InCase
      BY <1>10, AtCase
  <2>2. worker[w].run \in Runs /\ worker[w].next \in CaseNumbers /\ worker[w] \in WorkerRows
    <3>1. worker[w].last \in 0 .. MaxCases /\ worker[w] \in WorkerRows
        BY DEF TypeInv, WorkerRows
    <3> QED BY <2>1, <3>1 DEF PlaceInv, Existing, CaseNumbers
  <2>3. \E v \in ResultRows, l \in Counts \cup {Nil} : EndCase(w, v, l)
    <3>1. CASE GradeCase(w)
      <4>1. \A s \in {"passed", "failed"} : [status |-> s, collided |-> FALSE] \in ResultRows
          BY DEF ResultRows, CaseStatus, Terminal
      <4>2. worker[w].loaded \in Counts \cup {Nil}
          BY <2>2 DEF WorkerRows
      <4> QED BY <3>1, <4>1, <4>2 DEF GradeCase
    <3>2. CASE FailCase(w)
      <4>1. result[worker[w].run][worker[w].next] \in ResultRows
          BY <2>2 DEF TypeInv
      <4>2. \A s \in {"failed", "error"}, b \in BOOLEAN :
               [result[worker[w].run][worker[w].next] EXCEPT !.status = s, !.collided = b] \in ResultRows
          BY <4>1 DEF ResultRows, CaseStatus, Terminal
      <4>3. (worker[w].pc = "collided") \in BOOLEAN
          OBVIOUS
      <4> QED BY <3>2, <4>2, <4>3 DEF FailCase
    <3> QED BY <1>10, <3>1, <3>2
  <2>4. PICK v \in ResultRows, l \in Counts \cup {Nil} : EndCase(w, v, l)
      BY <2>3
  <2>5. [worker[w] EXCEPT !.pc = "case", !.next = worker[w].next + 1, !.loaded = l] \in WorkerRows
    <3>1. "case" \in Steps /\ worker[w].next + 1 \in 0 .. MaxCases + 1
        BY <2>2 DEF Steps, CaseNumbers
    <3> QED BY <2>2, <3>1, RowUpdates
  <2>6. worker' \in [Workers -> WorkerRows]
      BY <2>4, <2>5, Moved DEF EndCase, Moves
  <2>7. result' \in [Runs -> [CaseNumbers -> ResultRows]]
      BY <2>2, <2>4 DEF EndCase, TypeInv
  <2> QED BY <2>4, <2>6, <2>7 DEF EndCase, TypeInv, dataset, queue, history
<1>11. ASSUME NEW w \in Workers, RetryCase(w) PROVE TypeInv'
  <2>1. worker[w] # Idle /\ worker[w].pc \in InCase /\ Retry(w)
      BY <1>11, AtCase DEF RetryCase
  <2>2. worker[w].run \in Runs /\ worker[w].next \in CaseNumbers
    <3>1. worker[w].last \in 0 .. MaxCases
        BY DEF TypeInv, WorkerRows
    <3> QED BY <2>1, <3>1 DEF PlaceInv, Existing, CaseNumbers
  <2>3. worker' \in [Workers -> WorkerRows] /\ broker' \in [Messages -> Nat] /\ abandoned' \subseteq Runs
      BY <2>1, Retried, Moved, IdleRow
  <2>4. result' \in [Runs -> [CaseNumbers -> ResultRows]]
    <3>1. result[worker[w].run][worker[w].next] \in ResultRows
        BY <2>2 DEF TypeInv
    <3>2. [result[worker[w].run][worker[w].next] EXCEPT !.status = "pending"] \in ResultRows
        BY <3>1 DEF ResultRows, CaseStatus
    <3>3. \E v \in ResultRows : result' = [result EXCEPT ![worker[w].run][worker[w].next] = v]
        BY <1>11, <3>2 DEF RetryCase
    <3> QED BY <2>2, <3>3 DEF TypeInv
  <2>5. conversation' \in [Runs -> SUBSET CaseNumbers]
      BY <1>11, <2>2 DEF RetryCase, TypeInv, Kept
  <2> QED BY <1>11, <2>3, <2>4, <2>5 DEF RetryCase, TypeInv, dataset
<1>12. ASSUME NEW w \in Workers, DatabaseFails(w) \/ Abandon(w) PROVE TypeInv'
  <2>1. worker[w] # Idle
      BY <1>12 DEF DatabaseFails, Abandon, Idle
  <2>2. worker[w].run \in Runs
      BY <2>1 DEF PlaceInv, Existing
  <2>3. worker' \in [Workers -> WorkerRows] /\ broker' \in [Messages -> Nat] /\ abandoned' \subseteq Runs
        /\ faults' \in 0 .. MaxFaults /\ halfway' \subseteq Runs
      BY <1>12, <2>1, <2>2, Retried, Moved, IdleRow DEF DatabaseFails, Abandon, Moves, TypeInv, Fault
  <2> QED BY <1>12, <2>3 DEF DatabaseFails, Abandon, TypeInv, dataset
<1>13. ASSUME NEW w \in Workers, Finish(w) \/ FailRun(w) PROVE TypeInv'
  <2>1. worker[w] # Idle
      BY <1>13 DEF Finish, FailRun, Idle
  <2>2. worker[w].run \in Runs /\ worker[w] \in WorkerRows
      BY <2>1 DEF PlaceInv, Existing, TypeInv
  <2>3. worker' \in [Workers -> WorkerRows]
      BY <1>13, Moved, IdleRow DEF Finish, FailRun, Moves
  <2>4. CASE Finish(w)
    <3>1. ReplacedRows(w) \in SUBSET Nat
        BY <2>1, <2>2, RowsOfAFinish DEF TypeInv
    <3>2. rows' \in [Runs -> SUBSET Nat]
        BY <2>2, <2>4, <3>1 DEF Finish, TypeInv
    <3>3. Written(run[worker[w].run].count, worker[w].loaded, worker[w].count) \in Counts
        BY <2>2, WrittenCounts DEF TypeInv, Rows, WorkerRows
    <3>4. run' \in [Runs -> Rows]
      <4>1. \E x \in Rows : run' = [run EXCEPT ![worker[w].run] = x]
        <5>1. "succeeded" \in RunStatus
            BY DEF RunStatus
        <5>2. [run[worker[w].run] EXCEPT !.status = "succeeded",
                   !.count = Written(run[worker[w].run].count, worker[w].loaded, worker[w].count)] \in Rows
            BY <2>2, <3>3, <5>1, RowsAreRows
        <5> QED BY <2>4, <5>2 DEF Finish
      <4> QED BY <2>2, <4>1 DEF TypeInv
    <3> QED BY <2>3, <2>4, <3>2, <3>4 DEF Finish, TypeInv, dataset, queue, history
  <2>5. CASE FailRun(w)
    <3>1. run' \in [Runs -> Rows]
        BY <2>2, <2>5, RowsAreRows DEF FailRun, TypeInv, RunStatus
    <3> QED BY <2>3, <2>5, <3>1 DEF FailRun, TypeInv, dataset, queue, history
  <2> QED BY <1>13, <2>4, <2>5
<1>14. CASE UNCHANGED vars
    BY <1>14 DEF vars, TypeInv, dataset, queue, history
<1>15. ASSUME NEW r \in Runs, CleanUp(r) PROVE TypeInv'
  <2>1. worker' \in [Workers -> WorkerRows]
    <3>1. worker' = [w \in Workers |-> Bereft(w, r)] /\ \A w \in Workers : worker'[w] \in WorkerRows
        BY <1>15, Bereaved DEF CleanUp
    <3> QED BY <3>1
  <2>2. result' \in [Runs -> [CaseNumbers -> ResultRows]]
    <3>1. NoResult \in ResultRows
        BY DEF NoResult, ResultRows, CaseStatus
    <3>2. [c \in CaseNumbers |-> NoResult] \in [CaseNumbers -> ResultRows]
        BY <3>1
    <3> QED BY <1>15, <3>2 DEF CleanUp, TypeInv
  <2>3. conversation' \in [Runs -> SUBSET CaseNumbers]
      BY <1>15 DEF CleanUp, TypeInv
  <2> QED BY <1>15, <2>1, <2>2, <2>3 DEF CleanUp, TypeInv, dataset, queue
<1>16. ASSUME NEW w \in Workers, MissResult(w) PROVE TypeInv'
  <2>1. worker[w] # Idle
      BY <1>16 DEF MissResult, Idle
  <2>2. worker' \in [Workers -> WorkerRows] /\ broker' \in [Messages -> Nat] /\ abandoned' \subseteq Runs
      BY <1>16, <2>1, Retried, FailMoves, Moved, IdleRow DEF MissResult, TypeInv
  <2> QED BY <1>16, <2>2 DEF MissResult, TypeInv, dataset
<1> QED BY <1>1, <1>2, <1>3, <1>4, <1>5, <1>6, <1>7, <1>8, <1>9, <1>10, <1>11, <1>12, <1>13, <1>14, <1>15, <1>16
    DEF Next, Api, Execute

-----------------------------------------------------------------------------
(* Runs are created and cases are imported; neither goes again. *)
LEMMA RowsStay ==
    ASSUME TypeInv, PlaceInv, [Next]_vars
    PROVE  /\ Existing \subseteq Existing' /\ cases <= cases'
           /\ \A r \in Runs : run'[r].total = run[r].total \/ (run[r].status = "none" /\ run'[r] = creation[r])
<1>0. cases \in Nat /\ cases <= cases /\ run \in [Runs -> Rows]
    BY BoundsAreNaturals DEF TypeInv
<1>1. CASE UNCHANGED <<cases, run>>
    BY <1>0, <1>1 DEF Existing
<1>2. CASE Import
  <2>1. \E k \in 1 .. MaxCases - cases : cases' = cases + k
      BY <1>2 DEF Import
  <2>2. cases <= cases' /\ UNCHANGED run
      BY <1>0, <1>2, <2>1, BoundsAreNaturals DEF Import
  <2> QED BY <2>2 DEF Existing
<1>3. ASSUME NEW r \in Runs, CreateRun(r)
      PROVE /\ Existing \subseteq Existing' /\ cases <= cases'
            /\ \A q \in Runs : run'[q].total = run[q].total \/ (run[q].status = "none" /\ run'[q] = creation[q])
  <2>1. creation[r].status = "pending" /\ run' = [run EXCEPT ![r] = creation[r]] /\ run[r].status = "none"
        /\ UNCHANGED cases
      BY <1>3 DEF CreateRun, PlaceInv
  <2>2. \A q \in Runs : run'[q] = IF q = r THEN creation[r] ELSE run[q]
      BY <1>0, <2>1
  <2> QED BY <1>0, <2>1, <2>2 DEF Existing
<1>4. ASSUME NEW r \in Runs, NEW s \in RunStatus, UNCHANGED cases,
             \/ run' = [run EXCEPT ![r].status = s]
             \/ \E n : run' = [run EXCEPT ![r] = [@ EXCEPT !.status = s, !.count = n]]
      PROVE /\ Existing \subseteq Existing' /\ cases <= cases'
            /\ \A q \in Runs : run'[q].total = run[q].total \/ (run[q].status = "none" /\ run'[q] = creation[q])
  <2>1. \A q \in Runs : q # r => run'[q] = run[q]
      BY <1>0, <1>4
  <2>2. run'[r].status = s /\ run'[r].total = run[r].total
    <3>1. run[r] \in Rows
        BY <1>0
    <3>2. CASE run' = [run EXCEPT ![r].status = s]
      <4>1. run'[r] = [run[r] EXCEPT !.status = s]
          BY <1>0, <3>2
      <4> QED BY <3>1, <4>1 DEF Rows
    <3>3. ASSUME NEW n, run' = [run EXCEPT ![r] = [@ EXCEPT !.status = s, !.count = n]]
          PROVE run'[r].status = s /\ run'[r].total = run[r].total
      <4>1. run'[r] = [run[r] EXCEPT !.status = s, !.count = n]
          BY <1>0, <3>3
      <4> QED BY <3>1, <4>1 DEF Rows
    <3> QED BY <1>4, <3>2, <3>3
  <2>3. s # "none"
      BY DEF RunStatus
  <2> QED BY <1>0, <1>4, <2>1, <2>2, <2>3 DEF Existing
<1>5. ASSUME NEW w \in Workers, NEW m \in Messages, Start(w, m) PROVE \E r \in Runs, s \in RunStatus :
          run' = [run EXCEPT ![r].status = s] /\ UNCHANGED cases
    BY <1>5 DEF Start, Messages, RunStatus, dataset
<1>6. ASSUME NEW w \in Workers, FailRun(w) PROVE \E r \in Runs, s \in RunStatus :
          run' = [run EXCEPT ![r].status = s] /\ UNCHANGED cases
  <2>1. worker[w].run \in Runs
      BY <1>6 DEF FailRun, PlaceInv, Idle, Existing
  <2> QED BY <1>6, <2>1 DEF FailRun, RunStatus, dataset
<1>7. ASSUME NEW w \in Workers, Finish(w) PROVE \E r \in Runs, s \in RunStatus : \E n :
          run' = [run EXCEPT ![r] = [@ EXCEPT !.status = s, !.count = n]] /\ UNCHANGED cases
  <2>1. worker[w].run \in Runs
      BY <1>7 DEF Finish, PlaceInv, Idle, Existing
  <2> QED BY <1>7, <2>1 DEF Finish, RunStatus, dataset
<1>8. \/ UNCHANGED <<cases, run>> \/ Import \/ (\E r \in Runs : CreateRun(r))
      \/ (\E w \in Workers, m \in Messages : Start(w, m)) \/ (\E w \in Workers : Finish(w) \/ FailRun(w))
    BY ZenonT(60) DEF Next, Api, Execute, CheckImport, ImportConflicts, PrepareRun, Send, Skip, StartFails, CleanUp, MissResult, ListCases,
           TakeCase, MarkRunning, Converse, GradeCase, FailCase, EndCase, RetryCase, DatabaseFails, Abandon,
           ReadResults, vars, dataset
<1> QED BY <1>1, <1>2, <1>3, <1>4, <1>5, <1>6, <1>7, <1>8

(* What a step does to the workers: nothing, or one of them moves, or a     *)
(* clean-up stops those of a run.                                           *)
LEMMA WorkersMove ==
    ASSUME TypeInv, PlaceInv, [Next]_vars
    PROVE  \/ UNCHANGED worker
           \/ \E r \in Runs : CleanUp(r)
           \/ \E w \in Workers, X \in WorkerRows : Moves(w, X) /\
                 \/ X = Idle
                 \/ /\ X.pc # "idle" /\ X.run \in Existing /\ IsFiniteSet(X.old) /\ X.last <= cases
                    /\ X.pc = "case" => X.next >= 1 /\ X.next <= X.last + 1
                    /\ X.pc \in InCase => X.next \in 1 .. X.last
<1> USE BoundsAreNaturals
<1> DEFINE Good(X) == /\ X \in WorkerRows
                      /\ X.pc # "idle" /\ X.run \in Existing /\ IsFiniteSet(X.old) /\ X.last <= cases
                      /\ X.pc = "case" => X.next >= 1 /\ X.next <= X.last + 1
                      /\ X.pc \in InCase => X.next \in 1 .. X.last
<1>0. cases \in 0 .. MaxCases
    BY DEF TypeInv
<1>1. ASSUME NEW w \in Workers, NEW m \in Messages, Start(w, m)
      PROVE \E X : Good(X) /\ Moves(w, X)
  <2> DEFINE X == [Idle EXCEPT !.pc = "list", !.run = m.run, !.retries = m.retries, !.loaded = run[m.run].count]
  <2>1. m.run \in Existing
      BY <1>1, MessageReceived DEF Start, PlaceInv
  <2>2. run[m.run].count \in Counts /\ m.run \in Runs /\ m.retries \in 0 .. MaxRetries
      BY <2>1 DEF TypeInv, Rows, Existing, Messages
  <2>3. X \in WorkerRows
      BY <2>2, IdleRow DEF WorkerRows, Steps
  <2>4. X.pc = "list" /\ X.run = m.run /\ X.old = {} /\ X.last = 0
      BY DEF Idle
  <2>5. Good(X)
      BY <2>1, <2>3, <2>4, <1>0, FS_EmptySet DEF InCase
  <2>6. Moves(w, X)
      BY <1>1 DEF Start, Moves
  <2> QED BY <2>5, <2>6
<1>2. ASSUME NEW w \in Workers, worker[w] # Idle PROVE Good(worker[w])
    BY <1>2 DEF PlaceInv, TypeInv
<1>3. ASSUME NEW w \in Workers, worker[w] # Idle, NEW s \in Steps,
             s \in InCase /\ worker[w].pc \in InCase, Go(w, s)
      PROVE \E X : Good(X) /\ Moves(w, X)
  <2> DEFINE X == [worker[w] EXCEPT !.pc = s]
  <2>1. Moves(w, X) /\ X \in WorkerRows
      BY <1>3, GoMoves
  <2>2. /\ X.pc = s /\ X.run = worker[w].run /\ X.old = worker[w].old /\ X.last = worker[w].last
        /\ X.next = worker[w].next
      BY DEF TypeInv, WorkerRows
  <2> HIDE DEF X
  <2>3. Good(X)
      BY <1>2, <1>3, <2>1, <2>2 DEF InCase
  <2> QED BY <2>1, <2>3
<1>14. ASSUME NEW w \in Workers, worker[w] # Idle, Fail(w) PROVE \E X : Good(X) /\ Moves(w, X)
  <2>1. 0 <= cases /\ IsFiniteSet({}) /\ worker[w].run \in Existing
      BY <1>0, <1>14, FS_EmptySet DEF PlaceInv
  <2>2. Good(Failing(w))
      BY <1>14, <2>1, FailMoves DEF InCase
  <2> QED BY <1>14, <2>2, FailMoves
<1>4. ASSUME NEW w \in Workers, ListCases(w) PROVE \E X : Good(X) /\ Moves(w, X)
  <2>1. worker[w] # Idle /\ worker[w] \in WorkerRows
      BY <1>4 DEF ListCases, Idle, TypeInv
  <2> DEFINE X == [worker[w] EXCEPT !.pc = "case", !.next = 1, !.last = cases]
  <2>2. "case" \in Steps /\ 1 \in 0 .. MaxCases + 1
      BY DEF Steps
  <2>3. X \in WorkerRows
      BY <2>1, <2>2, <1>0, RowUpdates
  <2>4. X.pc = "case" /\ X.run = worker[w].run /\ X.old = worker[w].old /\ X.last = cases /\ X.next = 1
      BY <2>1 DEF WorkerRows
  <2>5. Fail(w) \/ Moves(w, X)
      BY <1>4 DEF ListCases, Moves
  <2> HIDE DEF X
  <2>6. Good(X)
      BY <1>0, <1>2, <2>1, <2>3, <2>4 DEF InCase
  <2> HIDE DEF Good
  <2> QED BY <1>14, <2>1, <2>5, <2>6
<1>5. ASSUME NEW w \in Workers, TakeCase(w) PROVE \E X : Good(X) /\ Moves(w, X)
  <2>1. worker[w] # Idle /\ worker[w] \in WorkerRows /\ worker[w].pc = "case" /\ worker[w].next <= worker[w].last
      BY <1>5 DEF TakeCase, Idle, TypeInv
  <2>2. worker[w].next \in 1 .. worker[w].last /\ worker[w].last \in 0 .. MaxCases /\ worker[w].run \in Runs
        /\ worker[w].next \in CaseNumbers
    <3>1. worker[w].next \in 0 .. MaxCases + 1 /\ worker[w].last \in 0 .. MaxCases
        BY <2>1 DEF WorkerRows
    <3> QED BY <2>1, <3>1, <1>2 DEF CaseNumbers, Existing
  <2> DEFINE X == [worker[w] EXCEPT !.loaded = Held(w), !.next = worker[w].next + 1]
             Y == [worker[w] EXCEPT !.loaded = Held(w), !.pc = "mark",
                                    !.seen = result[worker[w].run][worker[w].next].status]
  <2>3. X \in WorkerRows /\ Y \in WorkerRows
    <3>1. result[worker[w].run][worker[w].next].status \in CaseStatus /\ "mark" \in Steps
        BY <2>2 DEF TypeInv, ResultRows, Steps
    <3>2. worker[w].next + 1 \in 0 .. MaxCases + 1
        BY <2>2
    <3>3. 0 \in 0 .. MaxCases + 1 /\ Held(w) \in Counts
        BY <2>2, HeldCounts
    <3> QED BY <2>1, <3>1, <3>2, <3>3, RowUpdates
  <2>4. /\ X.pc = "case" /\ X.run = worker[w].run /\ X.old = worker[w].old /\ X.last = worker[w].last
        /\ X.next = worker[w].next + 1
        /\ Y.pc = "mark" /\ Y.run = worker[w].run /\ Y.old = worker[w].old /\ Y.last = worker[w].last
        /\ Y.next = worker[w].next
      BY <2>1 DEF WorkerRows
  <2>5. Moves(w, X) \/ Moves(w, Y)
      BY <1>5 DEF TakeCase, Moves
  <2> HIDE DEF X, Y
  <2>6. Good(X) /\ Good(Y)
      BY <1>2, <2>1, <2>2, <2>3, <2>4 DEF InCase
  <2> QED BY <2>5, <2>6
<1>6. ASSUME NEW w \in Workers, MarkRunning(w) \/ Converse(w) PROVE \E X : Good(X) /\ Moves(w, X)
  <2>1. worker[w] # Idle /\ worker[w].pc \in InCase
      BY <1>6, AtCase
  <2> DEFINE X == [worker[w] EXCEPT !.pc = "converse", !.seen = "none"]
  <2>2. Fail(w) \/ Moves(w, X) \/ Go(w, "collided") \/ Go(w, "answer")
    <3>1. CASE MarkRunning(w)
        BY <3>1 DEF MarkRunning, Moves
    <3>2. CASE Converse(w)
        BY <3>2 DEF Converse
    <3> QED BY <1>6, <3>1, <3>2
  <2>3. {"converse", "collided", "answer"} \subseteq Steps /\ {"converse", "collided", "answer"} \subseteq InCase
      BY DEF Steps, InCase
  <2>4. worker[w] \in WorkerRows /\ "none" \in CaseStatus /\ 0 \in 0 .. MaxCases + 1
      BY DEF TypeInv, CaseStatus
  <2>5. X \in WorkerRows
      BY <2>3, <2>4, RowUpdates
  <2>6. /\ X.pc = "converse" /\ X.run = worker[w].run /\ X.old = worker[w].old /\ X.last = worker[w].last
        /\ X.next = worker[w].next
      BY <2>4 DEF WorkerRows
  <2> HIDE DEF X
  <2>7. Good(X)
      BY <1>2, <2>1, <2>3, <2>5, <2>6 DEF InCase
  <2> HIDE DEF Good
  <2> QED BY <1>3, <1>14, <2>1, <2>2, <2>3, <2>7
<1>7. ASSUME NEW w \in Workers, GradeCase(w) \/ FailCase(w) PROVE \E X : Good(X) /\ Moves(w, X)
  <2>1. worker[w] # Idle /\ worker[w] \in WorkerRows /\ worker[w].pc \in InCase
      BY <1>7, AtCase DEF TypeInv
  <2>2. worker[w].next \in 1 .. worker[w].last /\ worker[w].last \in 0 .. MaxCases
      BY <2>1, <1>2 DEF WorkerRows
  <2>8. \E l \in Counts \cup {Nil} : Moves(w, [worker[w] EXCEPT !.pc = "case", !.next = worker[w].next + 1, !.loaded = l])
    <3>1. worker[w].loaded \in Counts \cup {Nil}
        BY <2>1 DEF WorkerRows
    <3> QED BY <1>7, <3>1 DEF GradeCase, FailCase, EndCase, Moves
  <2> PICK l \in Counts \cup {Nil} : Moves(w, [worker[w] EXCEPT !.pc = "case", !.next = worker[w].next + 1, !.loaded = l])
      BY <2>8
  <2> DEFINE X == [worker[w] EXCEPT !.pc = "case", !.next = worker[w].next + 1, !.loaded = l]
  <2>3. "case" \in Steps /\ worker[w].next + 1 \in 0 .. MaxCases + 1
      BY <2>2 DEF Steps
  <2>4. X \in WorkerRows
      BY <2>1, <2>3, RowUpdates
  <2>5. /\ X.pc = "case" /\ X.run = worker[w].run /\ X.old = worker[w].old /\ X.last = worker[w].last
        /\ X.next = worker[w].next + 1
      BY <2>1 DEF WorkerRows
  <2>6. Moves(w, X)
      OBVIOUS
  <2> HIDE DEF X
  <2>7. Good(X)
      BY <1>2, <2>1, <2>2, <2>4, <2>5 DEF InCase
  <2> QED BY <2>6, <2>7
<1>8. ASSUME NEW w \in Workers, ReadResults(w) PROVE \E X : Good(X) /\ Moves(w, X)
  <2>1. worker[w] # Idle /\ worker[w] \in WorkerRows
      BY <1>8 DEF ReadResults, Idle, TypeInv
  <2> DEFINE X == [worker[w] EXCEPT !.pc = "finish", !.count = Counted(worker[w].run), !.loaded = Held(w),
                                    !.old = rows[worker[w].run]]
  <2>2. worker[w].run \in Runs
      BY <2>1, <1>2 DEF Existing
  <2>3. X \in WorkerRows
    <3>1. Counted(worker[w].run) \in Counts /\ rows[worker[w].run] \in SUBSET Nat /\ Held(w) \in Counts
        BY <2>2, CountsOfStatuses, HeldCounts DEF TypeInv
    <3>2. "finish" \in Steps /\ 0 \in 0 .. MaxCases + 1
        BY DEF Steps
    <3> QED BY <2>1, <3>1, <3>2, RowUpdates
  <2>4. X.pc = "finish" /\ X.run = worker[w].run /\ X.old = rows[worker[w].run] /\ X.last = worker[w].last
      BY <2>1 DEF WorkerRows
  <2>5. Fail(w) \/ Moves(w, X)
      BY <1>8 DEF ReadResults, Moves
  <2>6. IsFiniteSet(rows[worker[w].run])
      BY <2>2 DEF PlaceInv
  <2> HIDE DEF X
  <2>7. Good(X)
      BY <1>2, <2>1, <2>3, <2>4, <2>6 DEF InCase
  <2> HIDE DEF Good
  <2> QED BY <1>14, <2>1, <2>5, <2>7
<1>15. ASSUME NEW w \in Workers, MissResult(w) PROVE (\E X : Good(X) /\ Moves(w, X)) \/ Moves(w, Idle)
  <2>1. worker[w] # Idle /\ (Fail(w) \/ Retry(w))
      BY <1>15 DEF MissResult, Idle
  <2> HIDE DEF Good
  <2> QED BY <1>14, <2>1, Retried
<1>9. ASSUME NEW w \in Workers, RetryCase(w) \/ DatabaseFails(w) \/ Abandon(w) \/ Finish(w) \/ FailRun(w)
      PROVE Moves(w, Idle)
  <2>1. CASE RetryCase(w) \/ DatabaseFails(w)
    <3>1. worker[w] # Idle /\ Retry(w)
        BY <2>1 DEF RetryCase, DatabaseFails, Idle
    <3> QED BY <3>1, Retried
  <2>2. CASE Abandon(w) \/ Finish(w) \/ FailRun(w)
      BY <2>2 DEF Abandon, Finish, FailRun, Moves
  <2> QED BY <1>9, <2>1, <2>2
<1>10. CASE UNCHANGED worker
    BY <1>10
<1>11. \/ UNCHANGED worker \/ (\E w \in Workers, m \in Messages : Start(w, m)) \/ (\E r \in Runs : CleanUp(r))
       \/ \E w \in Workers :
             \/ MissResult(w) \/ ListCases(w) \/ TakeCase(w) \/ MarkRunning(w) \/ Converse(w) \/ GradeCase(w) \/ FailCase(w)
             \/ ReadResults(w) \/ RetryCase(w) \/ DatabaseFails(w) \/ Abandon(w) \/ Finish(w) \/ FailRun(w)
    BY DEF Next, Api, Execute, CheckImport, Import, ImportConflicts, PrepareRun, CreateRun, Send, Skip,
           StartFails, vars
<1>12. Idle \in WorkerRows
    BY IdleRow
<1>13. (\E w \in Workers : \E X : Good(X) /\ Moves(w, X)) \/ (\E w \in Workers : Moves(w, Idle)) \/ UNCHANGED worker
      \/ \E r \in Runs : CleanUp(r)
  <2> HIDE DEF Good
  <2> QED BY <1>1, <1>4, <1>5, <1>6, <1>7, <1>8, <1>9, <1>11, <1>15
<1> QED BY <1>12, <1>13

(* The rows of a run change by a finish of it only, which leaves it some. *)
LEMMA RowsChange ==
    ASSUME TypeInv, PlaceInv, [Next]_vars
    PROVE  \/ UNCHANGED rows
           \/ \E w \in Workers, n \in Nat :
                 /\ Finish(w) /\ worker[w] # Idle /\ worker[w].run \in Existing
                 /\ ReplacedRows(w) = (rows[worker[w].run] \ worker[w].old) \cup {n}
                 /\ rows' = [rows EXCEPT ![worker[w].run] = (rows[worker[w].run] \ worker[w].old) \cup {n}]
<1>1. ASSUME NEW w \in Workers, Finish(w)
      PROVE \E n \in Nat : /\ worker[w] # Idle /\ worker[w].run \in Existing
                           /\ ReplacedRows(w) = (rows[worker[w].run] \ worker[w].old) \cup {n}
                           /\ rows' = [rows EXCEPT ![worker[w].run] = (rows[worker[w].run] \ worker[w].old) \cup {n}]
  <2>1. worker[w] # Idle
      BY <1>1 DEF Finish, Idle
  <2>2. worker[w].run \in Existing
      BY <2>1 DEF PlaceInv
  <2>3. PICK n \in Nat : ReplacedRows(w) = (rows[worker[w].run] \ worker[w].old) \cup {n}
      BY <2>1, RowsOfAFinish
  <2>4. rows' = [rows EXCEPT ![worker[w].run] = ReplacedRows(w)]
      BY <1>1 DEF Finish
  <2> QED BY <2>1, <2>2, <2>3, <2>4
<1>2. UNCHANGED rows \/ \E w \in Workers : Finish(w)
    BY ZenonT(60) DEF Next, Api, Execute, CheckImport, Import, ImportConflicts, PrepareRun, CreateRun, Send, Skip, Start,
           StartFails, CleanUp, MissResult, ListCases, TakeCase, MarkRunning, Converse, GradeCase, FailCase, EndCase, RetryCase,
           DatabaseFails, Abandon, ReadResults, FailRun, vars
<1> QED BY <1>1, <1>2

LEMMA CreationsChange ==
    ASSUME TypeInv, PlaceInv, [Next]_vars
    PROVE  \A r \in Runs :
              \/ creation'[r] = creation[r] /\ (creation[r] # Absent => run'[r] = run[r])
              \/ creation'[r] = Absent
              \/ /\ run[r].status = "none" /\ UNCHANGED <<run, cases, rows>>
                 /\ \E b \in Baselines : creation'[r] = Created(cases, b)
<1>0. creation \in [Runs -> Rows] /\ run \in [Runs -> Rows]
    BY DEF TypeInv
<1>1. ASSUME NEW q \in Runs, PrepareRun(q)
      PROVE \A r \in Runs :
              \/ creation'[r] = creation[r] /\ (creation[r] # Absent => run'[r] = run[r])
              \/ creation'[r] = Absent
              \/ /\ run[r].status = "none" /\ UNCHANGED <<run, cases, rows>>
                 /\ \E b \in Baselines : creation'[r] = Created(cases, b)
    BY <1>0, <1>1 DEF PrepareRun
<1>2. ASSUME NEW q \in Runs, CreateRun(q)
      PROVE \A r \in Runs : \/ creation'[r] = creation[r] /\ run'[r] = run[r]
                            \/ creation'[r] = Absent
    BY <1>0, <1>2 DEF CreateRun
<1>3. ASSUME NEW q \in Runs, run[q].status # "none", UNCHANGED creation,
             \E x : run' = [run EXCEPT ![q] = x]
      PROVE \A r \in Runs : creation'[r] = creation[r] /\ (creation[r] # Absent => run'[r] = run[r])
  <2>1. creation[q] = Absent
      BY <1>3 DEF PlaceInv
  <2> QED BY <1>0, <1>3, <2>1
<1>4. ASSUME NEW w \in Workers, NEW m \in Messages, Start(w, m)
      PROVE m.run \in Existing /\ UNCHANGED creation /\ \E x : run' = [run EXCEPT ![m.run] = x]
  <2>1. m.run \in Existing
      BY <1>4, MessageReceived DEF Start, PlaceInv
  <2>2. run' = [run EXCEPT ![m.run] = [run[m.run] EXCEPT !.status = "running"]]
      BY <1>4 DEF Start
  <2> QED BY <1>4, <2>1, <2>2 DEF Start, dataset
<1>5. ASSUME NEW w \in Workers, Finish(w) \/ FailRun(w)
      PROVE worker[w].run \in Existing /\ UNCHANGED creation /\ \E x : run' = [run EXCEPT ![worker[w].run] = x]
  <2>1. worker[w].run \in Existing
      BY <1>5 DEF Finish, FailRun, Idle, PlaceInv
  <2>2. CASE Finish(w)
      BY <2>1, <2>2 DEF Finish, dataset
  <2>3. CASE FailRun(w)
    <3>1. run' = [run EXCEPT ![worker[w].run] = [run[worker[w].run] EXCEPT !.status = "failed"]]
        BY <2>3 DEF FailRun
    <3> QED BY <2>1, <2>3, <3>1 DEF FailRun, dataset
  <2> QED BY <1>5, <2>2, <2>3
<1>6. CASE UNCHANGED <<creation, run>>
    BY <1>6
<1>7. \/ UNCHANGED <<creation, run>> \/ (\E r \in Runs : PrepareRun(r) \/ CreateRun(r))
      \/ (\E w \in Workers, m \in Messages : Start(w, m)) \/ (\E w \in Workers : Finish(w) \/ FailRun(w))
    BY ZenonT(60) DEF Next, Api, Execute, CheckImport, Import, ImportConflicts, Send, Skip, StartFails, CleanUp, MissResult, ListCases,
           TakeCase, MarkRunning, Converse, GradeCase, FailCase, EndCase, RetryCase, DatabaseFails, Abandon,
           ReadResults, vars, dataset
<1>8. ASSUME NEW q \in Existing, UNCHANGED creation, \E x : run' = [run EXCEPT ![q] = x]
      PROVE \A r \in Runs : creation'[r] = creation[r] /\ (creation[r] # Absent => run'[r] = run[r])
    BY <1>3, <1>8 DEF Existing
<1> QED BY <1>1, <1>2, <1>4, <1>5, <1>6, <1>7, <1>8

LEMMA MessagesChange ==
    ASSUME TypeInv, PlaceInv, [Next]_vars
    PROVE  \A m \in Messages : broker'[m] > 0 => m.run \in Existing
<1>1. ASSUME NEW r \in Runs, Send(r) PROVE \A m \in Messages : broker'[m] > 0 => m.run \in Existing
  <2>1. r \in Existing /\ broker' = [broker EXCEPT ![[run |-> r, retries |-> 0]] = @ + 1]
        /\ broker \in [Messages -> Nat]
      BY <1>1 DEF Send, TypeInv
  <2>2. \A m \in Messages : m # [run |-> r, retries |-> 0] => broker'[m] = broker[m]
      BY <2>1
  <2> QED BY <2>1, <2>2 DEF PlaceInv
<1>2. ASSUME NEW w \in Workers, RetryCase(w) \/ DatabaseFails(w)
      PROVE \A m \in Messages : broker'[m] > 0 => m.run \in Existing
  <2>1. worker[w] # Idle /\ Retry(w)
      BY <1>2 DEF RetryCase, DatabaseFails, Idle
  <2> QED BY <2>1, Retried DEF PlaceInv
<1>5. ASSUME NEW w \in Workers, MissResult(w)
      PROVE UNCHANGED broker \/ \A m \in Messages : broker'[m] > 0 => m.run \in Existing
  <2>1. worker[w] # Idle /\ (UNCHANGED broker \/ Retry(w))
      BY <1>5 DEF MissResult, Idle
  <2> QED BY <2>1, Retried DEF PlaceInv
<1>3. ASSUME NEW m \in Messages, Received(m) PROVE \A n \in Messages : broker'[n] > 0 => n.run \in Existing
    BY <1>3, MessageReceived DEF PlaceInv
<1>4. \/ UNCHANGED broker \/ (\E r \in Runs : Send(r)) \/ (\E m \in Messages : Received(m))
      \/ (\E w \in Workers : RetryCase(w) \/ DatabaseFails(w) \/ MissResult(w))
    BY ZenonT(60) DEF Next, Api, Execute, CheckImport, Import, ImportConflicts, PrepareRun, CreateRun, Skip, Start,
           StartFails, CleanUp, ListCases, TakeCase, MarkRunning, Converse, GradeCase, FailCase, EndCase,
           Abandon, ReadResults, Finish, FailRun, vars, queue
<1> QED BY <1>1, <1>2, <1>3, <1>4, <1>5 DEF PlaceInv

LEMMA PlaceStep == TypeInv /\ PlaceInv /\ [Next]_vars => PlaceInv'
<1> SUFFICES ASSUME TypeInv, PlaceInv, [Next]_vars PROVE PlaceInv'
    OBVIOUS
<1>0. cases \in Nat /\ cases' \in Nat /\ cases <= cases'
    BY TypeStep, RowsStay, BoundsAreNaturals DEF TypeInv
<1>1. \A m \in Messages : (broker[m] > 0 => m.run \in Existing)'
    BY MessagesChange, RowsStay
<1>2. \A r \in Runs : IsFiniteSet(rows'[r])
  <2>3. \A r \in Runs : IsFiniteSet(rows[r])
      BY DEF PlaceInv
  <2>4. rows \in [Runs -> SUBSET Nat]
      BY DEF TypeInv
  <2>5. ASSUME NEW w, NEW n, rows' = [rows EXCEPT ![worker[w].run] = (rows[worker[w].run] \ worker[w].old) \cup {n}]
        PROVE \A r \in Runs : IsFiniteSet(rows'[r])
    <3>1. \A r \in Runs : rows'[r] = rows[r] \/ rows'[r] = (rows[r] \ worker[w].old) \cup {n}
        BY <2>4, <2>5
    <3>2. ASSUME NEW r \in Runs PROVE IsFiniteSet((rows[r] \ worker[w].old) \cup {n})
      <4>1. IsFiniteSet(rows[r] \ worker[w].old)
          BY <2>3, FS_Subset
      <4> QED BY <4>1, FS_AddElement
    <3> QED BY <2>3, <3>1, <3>2
  <2> QED BY <2>3, <2>5, RowsChange
<1>3. \A w \in Workers : (worker[w] # Idle =>
          /\ worker[w].pc # "idle" /\ worker[w].run \in Existing /\ IsFiniteSet(worker[w].old)
          /\ worker[w].last <= cases
          /\ worker[w].pc = "case" => worker[w].next >= 1 /\ worker[w].next <= worker[w].last + 1
          /\ worker[w].pc \in InCase => worker[w].next \in 1 .. worker[w].last)'
  <2> DEFINE Good(X) == /\ X.pc # "idle" /\ X.run \in Existing' /\ IsFiniteSet(X.old) /\ X.last <= cases'
                        /\ X.pc = "case" => X.next >= 1 /\ X.next <= X.last + 1
                        /\ X.pc \in InCase => X.next \in 1 .. X.last
  <2>1. \A X \in WorkerRows : X.last \in Nat
      BY BoundsAreNaturals DEF WorkerRows
  <2>2. \A w \in Workers : worker[w] # Idle => Good(worker[w])
      BY <1>0, <2>1, RowsStay DEF PlaceInv, TypeInv
  <2>3. ASSUME NEW w \in Workers, NEW X \in WorkerRows, Moves(w, X),
                 \/ X = Idle
                 \/ /\ X.pc # "idle" /\ X.run \in Existing /\ IsFiniteSet(X.old) /\ X.last <= cases
                    /\ X.pc = "case" => X.next >= 1 /\ X.next <= X.last + 1
                    /\ X.pc \in InCase => X.next \in 1 .. X.last
        PROVE \A v \in Workers : worker'[v] # Idle => Good(worker'[v])
    <3>1. X # Idle => Good(X)
        BY <1>0, <2>1, <2>3, RowsStay
    <3>2. worker'[w] = X /\ \A v \in Workers : v # w => worker'[v] = worker[v]
        BY <2>3, Moved
    <3> HIDE DEF Good
    <3> QED BY <2>2, <3>1, <3>2
  <2>4. ASSUME NEW r \in Runs, CleanUp(r) PROVE \A v \in Workers : worker'[v] # Idle => Good(worker'[v])
    <3> SUFFICES ASSUME NEW v \in Workers PROVE worker'[v] = worker[v] \/ Good(worker'[v])
        BY <2>2
    <3>1. CASE /\ worker[v] # Idle /\ worker'[v].pc \in {"gone", "fail"} /\ worker'[v].run = worker[v].run
               /\ worker'[v].old \in {{}, worker[v].old} /\ worker'[v].last \in {0, worker[v].last}
      <4>1. worker[v].run \in Existing' /\ IsFiniteSet(worker[v].old) /\ worker[v].last <= cases' /\ 0 <= cases'
          BY <1>0, <2>2, <3>1
      <4>2. IsFiniteSet({})
          BY FS_EmptySet
      <4>3. worker'[v].pc \notin {"idle", "case"} \cup InCase
          BY <3>1 DEF InCase
      <4>4. IsFiniteSet(worker'[v].old) /\ worker'[v].last <= cases'
          BY <3>1, <4>1, <4>2
      <4> QED BY <3>1, <4>1, <4>3, <4>4
    <3> HIDE DEF Good
    <3>2. worker'[v] = worker[v] \/ (/\ worker[v] # Idle /\ worker'[v].pc \in {"gone", "fail"}
                                     /\ worker'[v].run = worker[v].run /\ worker'[v].old \in {{}, worker[v].old}
                                     /\ worker'[v].last \in {0, worker[v].last})
        BY <2>4, Bereaved
    <3> QED BY <3>1, <3>2
  <2> QED BY <2>2, <2>3, <2>4, WorkersMove
<1>4. \A r \in Runs : (/\ run[r].total <= cases /\ creation[r].total <= cases
                       /\ creation[r] # Absent => /\ run[r].status = "none" /\ creation[r].status = "pending"
                                                  /\ creation[r].count = Zero)'
  <2> SUFFICES ASSUME NEW r \in Runs
               PROVE /\ run'[r].total <= cases' /\ creation'[r].total <= cases'
                     /\ creation'[r] # Absent => /\ run'[r].status = "none" /\ creation'[r].status = "pending"
                                                 /\ creation'[r].count = Zero
      OBVIOUS
  <2>1. run[r].total \in Nat /\ creation[r].total \in Nat /\ run[r].total <= cases /\ creation[r].total <= cases
      BY BoundsAreNaturals DEF TypeInv, Rows, PlaceInv
  <2>2. run'[r].total \in {run[r].total, creation[r].total}
      BY RowsStay
  <2>3. Absent.total = 0 /\ \A b : Created(cases, b).total = cases /\ Created(cases, b).status = "pending"
                                   /\ Created(cases, b).count = Zero
      BY DEF Absent, Created
  <2>4. run'[r].total <= cases'
      BY <1>0, <2>1, <2>2
  <2>5. \/ creation'[r] = creation[r] /\ (creation[r] # Absent => run'[r] = run[r])
        \/ creation'[r] = Absent
        \/ /\ run[r].status = "none" /\ UNCHANGED <<run, cases, rows>>
           /\ \E b \in Baselines : creation'[r] = Created(cases, b)
      BY CreationsChange
  <2>6. creation[r] # Absent => /\ run[r].status = "none" /\ creation[r].status = "pending"
                                /\ creation[r].count = Zero
      BY DEF PlaceInv
  <2>7. CASE creation'[r] = creation[r] /\ (creation[r] # Absent => run'[r] = run[r])
      BY <1>0, <2>1, <2>4, <2>6, <2>7
  <2>8. CASE creation'[r] = Absent
      BY <1>0, <2>3, <2>4, <2>8
  <2>9. CASE /\ run[r].status = "none" /\ UNCHANGED <<run, cases, rows>>
             /\ \E b \in Baselines : creation'[r] = Created(cases, b)
      BY <1>0, <2>3, <2>4, <2>9
  <2> QED BY <2>5, <2>7, <2>8, <2>9
<1> QED BY <1>1, <1>2, <1>3, <1>4 DEF PlaceInv

-----------------------------------------------------------------------------
(* A run that has ever SUCCEEDED has aggregate rows, and they are never all *)
(* deleted: a finish replaces what it has read.                             *)
BaselineInv ==
    \A r \in Runs :
       /\ run[r].status = "succeeded" => rows[r] # {}
       /\ \A b \in Runs : run[r].baseline = b \/ creation[r].baseline = b => rows[b] # {}

LEMMA BaselineStep == TypeInv /\ PlaceInv /\ BaselineInv /\ [Next]_vars => BaselineInv'
<1> SUFFICES ASSUME TypeInv, PlaceInv, BaselineInv, [Next]_vars PROVE BaselineInv'
    OBVIOUS
<1>0. run \in [Runs -> Rows] /\ rows \in [Runs -> SUBSET Nat]
    BY DEF TypeInv
<1>1. \A b \in Runs : rows[b] # {} => rows'[b] # {}
    BY <1>0, RowsChange
<1>2. \A r \in Runs : run'[r].status = "succeeded" => run[r].status = "succeeded" \/ rows'[r] # {}
  <2>1. ASSUME NEW q \in Runs, CreateRun(q)
        PROVE \A r \in Runs : run'[r].status = "succeeded" => run[r].status = "succeeded"
    <3>1. creation[q].status = "pending" /\ run' = [run EXCEPT ![q] = creation[q]]
        BY <2>1 DEF CreateRun, PlaceInv
    <3> QED BY <1>0, <3>1
  <2>2. ASSUME NEW q \in Runs, NEW s \in {"running", "failed"}, run' = [run EXCEPT ![q].status = s]
        PROVE \A r \in Runs : run'[r].status = "succeeded" => run[r].status = "succeeded"
      BY <1>0, <2>2 DEF Rows
  <2>3. ASSUME NEW w \in Workers, Finish(w)
        PROVE \A r \in Runs : run'[r] = run[r] \/ rows'[r] # {}
    <3>1. worker[w].run \in Runs /\ worker[w] # Idle
        BY <2>3 DEF Finish, Idle, PlaceInv, Existing
    <3>2. rows' = [rows EXCEPT ![worker[w].run] = ReplacedRows(w)] /\ ReplacedRows(w) # {}
        BY <2>3, <3>1, RowsOfAFinish DEF Finish
    <3>3. \A r \in Runs : r # worker[w].run => run'[r] = run[r]
        BY <1>0, <2>3 DEF Finish
    <3> QED BY <1>0, <3>1, <3>2, <3>3
  <2>4. ASSUME NEW w \in Workers, NEW m \in Messages, Start(w, m)
        PROVE m.run \in Runs /\ run' = [run EXCEPT ![m.run].status = "running"]
      BY <2>4 DEF Start, Messages
  <2>5. ASSUME NEW w \in Workers, FailRun(w)
        PROVE worker[w].run \in Runs /\ run' = [run EXCEPT ![worker[w].run].status = "failed"]
      BY <2>5 DEF FailRun, Idle, PlaceInv, Existing
  <2>6. \/ UNCHANGED run \/ (\E r \in Runs : CreateRun(r))
        \/ (\E w \in Workers, m \in Messages : Start(w, m)) \/ (\E w \in Workers : Finish(w) \/ FailRun(w))
    BY ZenonT(60) DEF Next, Api, Execute, CheckImport, Import, ImportConflicts, PrepareRun, Send, Skip, StartFails, CleanUp, MissResult, ListCases,
           TakeCase, MarkRunning, Converse, GradeCase, FailCase, EndCase, RetryCase, DatabaseFails, Abandon,
           ReadResults, vars
  <2> QED BY <2>1, <2>2, <2>3, <2>4, <2>5, <2>6
<1>3. ASSUME NEW r \in Runs PROVE run'[r].baseline \in {run[r].baseline, creation[r].baseline}
  <2>1. ASSUME NEW q \in Runs, CreateRun(q)
        PROVE run'[r].baseline \in {run[r].baseline, creation[r].baseline}
      BY <1>0, <2>1 DEF CreateRun
  <2>2. ASSUME NEW q \in Runs, NEW s, \/ run' = [run EXCEPT ![q].status = s]
                                      \/ \E n : run' = [run EXCEPT ![q] = [@ EXCEPT !.status = s, !.count = n]]
        PROVE run'[r].baseline = run[r].baseline
    <3>1. run[r] \in Rows
        BY <1>0
    <3>2. CASE run' = [run EXCEPT ![q].status = s]
        BY <1>0, <3>1, <3>2 DEF Rows
    <3>3. ASSUME NEW n, run' = [run EXCEPT ![q] = [@ EXCEPT !.status = s, !.count = n]]
          PROVE run'[r].baseline = run[r].baseline
      <4>1. run'[r] = run[r] \/ run'[r] = [run[r] EXCEPT !.status = s, !.count = n]
          BY <1>0, <3>3
      <4> QED BY <3>1, <4>1 DEF Rows
    <3> QED BY <2>2, <3>2, <3>3
  <2>3. ASSUME NEW w \in Workers, NEW m \in Messages, Start(w, m)
        PROVE m.run \in Runs /\ run' = [run EXCEPT ![m.run].status = "running"]
      BY <2>3 DEF Start, Messages
  <2>4. ASSUME NEW w \in Workers, FailRun(w)
        PROVE worker[w].run \in Runs /\ run' = [run EXCEPT ![worker[w].run].status = "failed"]
      BY <2>4 DEF FailRun, Idle, PlaceInv, Existing
  <2>5. ASSUME NEW w \in Workers, Finish(w)
        PROVE worker[w].run \in Runs /\
              \E n : run' = [run EXCEPT ![worker[w].run] = [@ EXCEPT !.status = "succeeded", !.count = n]]
    <3>1. worker[w].run \in Runs
        BY <2>5 DEF Finish, Idle, PlaceInv, Existing
    <3>2. run' = [run EXCEPT ![worker[w].run] = [@ EXCEPT !.status = "succeeded",
                     !.count = Written(run[worker[w].run].count, worker[w].loaded, worker[w].count)]]
        BY <2>5 DEF Finish
    <3> QED BY <3>1, <3>2
  <2>6. \/ UNCHANGED run \/ (\E q \in Runs : CreateRun(q))
        \/ (\E w \in Workers, m \in Messages : Start(w, m)) \/ (\E w \in Workers : Finish(w) \/ FailRun(w))
    BY ZenonT(60) DEF Next, Api, Execute, CheckImport, Import, ImportConflicts, PrepareRun, Send, Skip, StartFails, CleanUp, MissResult, ListCases,
           TakeCase, MarkRunning, Converse, GradeCase, FailCase, EndCase, RetryCase, DatabaseFails, Abandon,
           ReadResults, vars
  <2> QED BY <2>1, <2>2, <2>3, <2>4, <2>5, <2>6
<1>4. ASSUME NEW r \in Runs, NEW b \in Runs, creation'[r].baseline = b PROVE rows[b] # {}
  <2>1. Absent.baseline = Nil /\ \A n, c : Created(n, c).baseline = c
      BY DEF Absent, Created
  <2>2. \A c \in Baselines : c = Nil \/ (c \in Runs /\ run[c].status = "succeeded")
      BY DEF Baselines, Existing
  <2>3. \/ creation'[r] = creation[r] \/ creation'[r] = Absent
        \/ \E c \in Baselines : creation'[r] = Created(cases, c)
      BY CreationsChange
  <2> QED BY <1>4, <2>1, <2>2, <2>3, NilIsNoRun DEF BaselineInv
<1> QED BY <1>1, <1>2, <1>3, <1>4 DEF BaselineInv

-----------------------------------------------------------------------------
(* What the rows of a run that one worker at a time has executed are, at    *)
(* each step of that worker.                                                *)
Final(r, c) == result[r][c].status \in Terminal

(* The case is final, or its result was deleted. *)
Settled(r, c) == Final(r, c) \/ (r \in expired /\ result[r][c].status = "none")

Finished(r) ==
    /\ \A c \in CaseNumbers : Final(r, c) \/ result[r][c].status = "none"
    /\ \A c \in 1 .. run[r].total : Settled(r, c)

Balanced(k) == k.completed = k.passed + k.failed

(* Counts k are those of the results of r, as long as they are kept. *)
CountsOf(r, k) == Balanced(k) /\ (r \notin expired => k = Counted(r))

Complete(r) == Finished(r) /\ CountsOf(r, run[r].count) /\ \E n : rows[r] = {n}

(* The execution of r by w, at its step. *)
ExecutionOK(r, w) ==
    LET c == worker[w].next  pc == worker[w].pc
    IN  /\ run[r].status = "running"
        /\ pc \in {"list", "case", "finish"} \cup InCase => worker[w].loaded \in {Nil, run[r].count}
        /\ pc \in {"case", "finish"} \cup InCase =>
              /\ run[r].total <= worker[w].last
              /\ \A k \in CaseNumbers : result[r][k].status # "none" => k <= worker[w].last
        /\ pc \in {"case"} \cup InCase => \A k \in CaseNumbers : k < c => Settled(r, k)
        /\ pc = "mark" => result[r][c].status = worker[w].seen /\ ~Final(r, c)
        /\ pc \in {"converse", "answer", "collided"} => result[r][c].status = "running"
        /\ pc = "finish" => /\ worker[w].loaded = run[r].count
                            /\ Finished(r) /\ CountsOf(r, worker[w].count) /\ worker[w].old = rows[r]

(* The conversations of r belong to cases that are final, or being answered. *)
FreshInv(r) ==
    /\ \A w \in Workers : worker[w].run = r => worker[w].pc # "collided"
    /\ \A c \in CaseNumbers :
          /\ ~result[r][c].collided
          /\ c \in conversation[r] =>
                Final(r, c) \/ \E w \in Workers : /\ worker[w].run = r /\ worker[w].pc = "answer"
                                                  /\ worker[w].next = c

RunInv(r) ==
    /\ \A c \in CaseNumbers : result[r][c].status # "none" => c <= cases
    /\ r \notin overlapped =>
          /\ \A v, w \in Workers : worker[v].run = r /\ worker[w].run = r => v = w
          /\ \A w \in Workers : worker[w].run = r => ExecutionOK(r, w)
          /\ run[r].status = "succeeded" => Complete(r)
          /\ r \notin halfway => FreshInv(r)

LEMMA CountedBalances ==
    ASSUME NEW r \in Runs, \A c \in CaseNumbers : Final(r, c) \/ result[r][c].status = "none", TypeInv
    PROVE  /\ Counted(r).completed = Counted(r).passed + Counted(r).failed
           /\ Counted(r).completed = Cardinality(Having(r, Terminal))
<1>1. \A c \in CaseNumbers : result[r][c].status \in CaseStatus
    BY DEF TypeInv, ResultRows
<1>2. Having(r, CaseStatus \ {"none"}) = Having(r, Terminal)
    BY <1>1 DEF Having, Final, Terminal, CaseStatus
<1>3. Cardinality(Having(r, Terminal)) = Cardinality(Having(r, {"passed"})) + Cardinality(Having(r, {"failed", "error"}))
  <2> DEFINE S == Having(r, {"passed"})
             T == Having(r, {"failed", "error"})
  <2>1. S \in SUBSET CaseNumbers /\ T \in SUBSET CaseNumbers /\ S \cap T = {} /\ S \cup T = Having(r, Terminal)
      BY DEF Having, Terminal
  <2>2. IsFiniteSet(S) /\ IsFiniteSet(T) /\ Cardinality(S) \in 0 .. MaxCases /\ Cardinality(T) \in 0 .. MaxCases
      BY <2>1, CaseSets
  <2> HIDE DEF S, T
  <2>3. Cardinality(S \cup T) = Cardinality(S) + Cardinality(T) - Cardinality(S \cap T)
      BY <2>2, FS_Union
  <2>4. Cardinality(S \cap T) = 0
      BY <2>1, FS_EmptySet
  <2>5. Cardinality(S) \in Nat /\ Cardinality(T) \in Nat
      BY <2>2
  <2>6. Cardinality(S \cup T) = Cardinality(S) + Cardinality(T)
      BY <2>3, <2>4, <2>5
  <2> QED BY <2>1, <2>6 DEF S, T
<1> QED BY <1>2, <1>3 DEF Counted

(* The rows of a run and its executions stay what they are while nothing of *)
(* them changes.                                                            *)
LEMMA Untouched ==
    ASSUME TypeInv, PlaceInv, NEW r \in Runs, RunInv(r), cases <= cases', cases' \in Nat,
           r \in expired' <=> r \in expired,
           run'[r] = run[r], result'[r] = result[r], conversation'[r] = conversation[r], rows'[r] = rows[r],
           overlapped \subseteq overlapped', halfway \subseteq halfway',
           \A v \in Workers : worker[v].run = r \/ worker'[v].run = r => worker'[v] = worker[v]
    PROVE  RunInv(r)'
<1>1. cases \in Nat /\ \A c \in CaseNumbers : c \in Nat
    BY BoundsAreNaturals DEF TypeInv, CaseNumbers
<1>2. \A c \in CaseNumbers : result'[r][c].status # "none" => c <= cases'
    BY <1>1 DEF RunInv
<1>3. /\ Finished(r)' <=> Finished(r)
      /\ Counted(r)' = Counted(r)
      /\ Complete(r)' <=> Complete(r)
  <2>1. Counted(r)' = Counted(r)
      BY DEF Counted, Having
  <2>2. Finished(r)' <=> Finished(r)
      BY DEF Finished, Settled, Final
  <2> QED BY <2>1, <2>2 DEF Complete, CountsOf
<1>4. ASSUME NEW w \in Workers, worker'[w].run = r, ExecutionOK(r, w) PROVE ExecutionOK(r, w)'
  <2>1. worker'[w] = worker[w]
      BY <1>4
  <2> QED BY <1>3, <1>4, <2>1 DEF ExecutionOK, Settled, Final, CountsOf
<1>5. ASSUME FreshInv(r) PROVE FreshInv(r)'
    BY <1>5 DEF FreshInv, Final
<1> QED BY <1>2, <1>3, <1>4, <1>5 DEF RunInv

(* A run that has no worker any more, and has not SUCCEEDED. *)
LEMMA Unexecuted ==
    ASSUME TypeInv, PlaceInv, NEW r \in Runs, RunInv(r), cases <= cases', cases' \in Nat,
           \A c \in CaseNumbers : result'[r][c].status = "none" \/ result[r][c].status # "none",
           run'[r].status # "succeeded" \/ (r \notin overlapped' => Complete(r)'),
           r \in overlapped => r \in overlapped', r \in halfway => r \in halfway',
           r \notin overlapped' /\ r \notin halfway' =>
              \A c \in CaseNumbers : /\ ~result'[r][c].collided
                                     /\ c \in conversation'[r] => Final(r, c)',
           \A v \in Workers : worker'[v].run = r => r \in overlapped'
    PROVE  RunInv(r)'
<1>1. cases \in Nat /\ \A c \in CaseNumbers : c \in Nat
    BY BoundsAreNaturals DEF TypeInv, CaseNumbers
<1>2. \A c \in CaseNumbers : result'[r][c].status # "none" => c <= cases'
    BY <1>1 DEF RunInv
<1> QED BY <1>2 DEF RunInv, FreshInv

(* A worker's own run, while nobody else has executed it. *)
LEMMA Executed ==
    ASSUME TypeInv, PlaceInv, NEW w \in Workers, NEW r \in Runs, worker[w].run = r, RunInv(r),
           cases <= cases', cases' \in Nat, overlapped' = overlapped, r \in halfway => r \in halfway',
           \A v \in Workers : v # w => worker'[v] = worker[v],
           \A c \in CaseNumbers : result'[r][c].status = "none" \/ c <= cases',
           r \notin overlapped => ExecutionOK(r, w)',
           r \notin overlapped /\ r \notin halfway =>
              /\ worker'[w].pc # "collided"
              /\ \A c \in CaseNumbers :
                    /\ ~result'[r][c].collided
                    /\ c \in conversation'[r] =>
                          Final(r, c)' \/ (worker'[w].run = r /\ worker'[w].pc = "answer" /\ worker'[w].next = c)
    PROVE  RunInv(r)'
<1>1. ASSUME r \notin overlapped PROVE \A v \in Workers : worker'[v].run = r => v = w
    BY <1>1 DEF RunInv
<1>2. ASSUME r \notin overlapped PROVE run'[r].status # "succeeded"
    BY <1>2 DEF ExecutionOK
<1>3. ASSUME r \notin overlapped, r \notin halfway PROVE FreshInv(r)'
    BY <1>1, <1>3 DEF FreshInv
<1> QED BY <1>1, <1>2, <1>3 DEF RunInv

-----------------------------------------------------------------------------
AllRuns == TypeInv /\ PlaceInv /\ \A r \in Runs : RunInv(r)

LEMMA Bounds ==
    ASSUME AllRuns, [Next]_vars
    PROVE  /\ cases <= cases' /\ cases \in Nat /\ cases' \in Nat /\ \A c \in CaseNumbers : c \in Nat
           /\ \A w \in Workers : worker[w] # Idle => worker[w].run \in Runs /\ worker[w] \in WorkerRows
           /\ \A w \in Workers : worker[w].run \in Runs => worker[w] # Idle /\ worker[w].run \in Existing
           /\ \A w \in Workers : worker[w].last \in Nat /\ worker[w].next \in Nat
<1>1. cases <= cases' /\ cases \in Nat /\ cases' \in Nat
    BY TypeStep, RowsStay, BoundsAreNaturals DEF AllRuns, TypeInv
<1>2. \A w \in Workers : worker[w] # Idle => worker[w].run \in Runs /\ worker[w] \in WorkerRows
    BY DEF AllRuns, TypeInv, PlaceInv, Existing
<1>3. \A w \in Workers : worker[w].run \in Runs => worker[w] # Idle /\ worker[w].run \in Existing
    BY NilIsNoRun DEF AllRuns, PlaceInv, Idle
<1>4. \A w \in Workers : worker[w].last \in Nat /\ worker[w].next \in Nat
    BY BoundsAreNaturals DEF AllRuns, TypeInv, WorkerRows
<1> QED BY <1>1, <1>2, <1>3, <1>4, BoundsAreNaturals DEF CaseNumbers

(* A worker's step leaves the other runs alone. *)
LEMMA OtherRuns ==
    ASSUME AllRuns, [Next]_vars, NEW w \in Workers, NEW r \in Runs, NEW q \in Runs, q # r,
           worker[w].run \in {r, Nil}, worker'[w].run \in {r, Nil},
           \A v \in Workers : v # w => worker'[v] = worker[v],
           run'[q] = run[q], result'[q] = result[q], conversation'[q] = conversation[q], rows'[q] = rows[q],
           overlapped \subseteq overlapped', halfway \subseteq halfway', UNCHANGED expired
    PROVE  RunInv(q)'
<1>1. \A v \in Workers : worker[v].run = q \/ worker'[v].run = q => worker'[v] = worker[v]
    BY NilIsNoRun
<1> QED BY <1>1, Bounds, Untouched DEF AllRuns

LEMMA StartKeeps ==
    ASSUME AllRuns, [Next]_vars, NEW w \in Workers, NEW m \in Messages, Start(w, m)
    PROVE  \A q \in Runs : RunInv(q)'
<1> DEFINE r == m.run
<1>0. r \in Existing /\ r \in Runs
    BY MessageReceived DEF AllRuns, Start, PlaceInv, Existing
<1>1. /\ worker[w] = Idle /\ UNCHANGED <<cases, result, conversation, rows, halfway, expired>>
      /\ run' = [run EXCEPT ![r].status = "running"]
      /\ overlapped' = IF Executing(r) = {} THEN overlapped ELSE overlapped \cup {r}
      /\ worker' = [worker EXCEPT ![w] = [Idle EXCEPT !.pc = "list", !.run = r, !.retries = m.retries,
                                                      !.loaded = run[r].count]]
    BY DEF Start, dataset
<1>2. worker'[w].pc = "list" /\ worker'[w].run = r /\ worker'[w].loaded = run[r].count
      /\ \A v \in Workers : v # w => worker'[v] = worker[v]
    BY <1>1 DEF AllRuns, TypeInv, Idle
<1>3. run'[r].status = "running" /\ run'[r].count = run[r].count /\ run'[r].total = run[r].total
      /\ \A q \in Runs : q # r => run'[q] = run[q]
  <2>1. run[r] \in Rows /\ run \in [Runs -> Rows]
      BY <1>0 DEF AllRuns, TypeInv
  <2> QED BY <1>0, <1>1, <2>1 DEF Rows
<1>4. worker[w].run = Nil
    BY <1>1 DEF Idle
<1>5. ASSUME NEW q \in Runs, q # r PROVE RunInv(q)'
    BY <1>0, <1>1, <1>2, <1>3, <1>4, <1>5, OtherRuns
<1>6. RunInv(r)'
  <2>1. \A c \in CaseNumbers : result'[r][c].status # "none" => c <= cases'
      BY <1>0, <1>1 DEF AllRuns, RunInv
  <2>2. CASE Executing(r) # {}
      BY <1>0, <1>1, <2>1, <2>2 DEF RunInv
  <2>3. CASE Executing(r) = {}
    <3>1. \A v \in Workers : worker'[v].run = r => v = w
        BY <1>2, <2>3 DEF Executing
    <3>2. ExecutionOK(r, w)'
        BY <1>2, <1>3 DEF ExecutionOK, InCase
    <3>3. ASSUME r \notin overlapped, r \notin halfway PROVE FreshInv(r)'
      <4>1. FreshInv(r)
          BY <1>0, <3>3 DEF AllRuns, RunInv
      <4>2. \A c \in CaseNumbers : /\ ~result[r][c].collided
                                   /\ c \in conversation[r] => Final(r, c)
          BY <2>3, <4>1 DEF FreshInv, Executing
      <4> QED BY <1>1, <1>2, <3>1, <4>2 DEF FreshInv, Final
    <3> QED BY <1>1, <1>3, <2>1, <2>3, <3>1, <3>2, <3>3 DEF RunInv
  <2> QED BY <2>2, <2>3
<1> QED BY <1>5, <1>6

(* A worker passes to another step, and its run is what it was. *)
LEMMA StepKeeps ==
    ASSUME AllRuns, [Next]_vars, NEW w \in Workers, NEW X \in WorkerRows, Moves(w, X),
           worker[w] # Idle, X.run = worker[w].run, X.pc # "collided", worker[w].pc # "answer",
           UNCHANGED <<cases, run, result, conversation, rows, overlapped, halfway, expired>>,
           X.pc \in {"case", "finish"} \cup InCase => X.loaded \in {worker[w].loaded, Held(w)},
           X.pc # "list",
           X.pc \in {"case", "finish"} \cup InCase => worker[w].pc = "list" \/ X.last = worker[w].last,
           worker[w].pc = "list" => X.last = cases,
           X.pc \in {"case"} \cup InCase =>
              \/ X.next = 1
              \/ worker[w].pc = "case" /\ X.next = worker[w].next
              \/ /\ worker[w].pc = "case" /\ X.next = worker[w].next + 1
                 /\ Final(worker[w].run, worker[w].next),
           X.pc = "mark" => result[X.run][X.next].status = X.seen /\ ~Final(X.run, X.next),
           X.pc \notin {"converse", "answer"},
           X.pc \in InCase \cup {"case", "finish"} => worker[w].pc \in {"list", "case"},
           X.pc = "finish" => /\ worker[w].pc = "case" /\ worker[w].next > worker[w].last
                              /\ X.loaded = Held(w) /\ X.count = Counted(X.run) /\ X.old = rows[X.run]
    PROVE  \A q \in Runs : RunInv(q)'
<1> PICK r \in Runs : r = worker[w].run
    BY Bounds
<1>0. RunInv(r) /\ X.run = r
    BY DEF AllRuns
<1>1. worker'[w] = X /\ \A v \in Workers : v # w => worker'[v] = worker[v]
    BY Moved DEF AllRuns
<1>2. ASSUME NEW q \in Runs, q # r PROVE RunInv(q)'
    BY <1>0, <1>1, <1>2, OtherRuns
<1>3. ASSUME r \notin overlapped PROVE ExecutionOK(r, w)'
  <2>1. ExecutionOK(r, w)
      BY <1>0, <1>3 DEF RunInv
  <2>2. run'[r].status = "running"
      BY <1>1, <2>1 DEF ExecutionOK
  <2>7. ASSUME X.pc \in {"case", "finish"} \cup InCase
        PROVE Held(w) = run[r].count /\ X.loaded \in {Nil, run[r].count}
    <3>1. worker[w].loaded \in {Nil, run[r].count}
        BY <2>1, <2>7 DEF ExecutionOK
    <3> QED BY <2>7, <3>1 DEF Held
  <2>3. ASSUME X.pc \in {"case", "finish"} \cup InCase
        PROVE run[r].total <= X.last /\ \A k \in CaseNumbers : result[r][k].status # "none" => k <= X.last
    <3>1. CASE worker[w].pc = "list"
        BY <1>0, <3>1 DEF RunInv, AllRuns, PlaceInv
    <3>2. CASE worker[w].pc = "case" /\ X.last = worker[w].last
        BY <2>1, <3>2 DEF ExecutionOK
    <3> QED BY <2>3, <3>1, <3>2
  <2>4. ASSUME X.pc \in {"case"} \cup InCase PROVE \A k \in CaseNumbers : k < X.next => Settled(r, k)
    <3>1. CASE X.next = 1
        BY <3>1, Bounds DEF CaseNumbers
    <3>2. CASE worker[w].pc = "case" /\ X.next = worker[w].next
        BY <2>1, <3>2 DEF ExecutionOK
    <3>3. CASE worker[w].pc = "case" /\ X.next = worker[w].next + 1 /\ Final(r, worker[w].next)
      <4>1. \A k \in CaseNumbers : k < worker[w].next => Settled(r, k)
          BY <2>1, <3>3 DEF ExecutionOK
      <4>2. worker[w].next \in Nat
          BY Bounds
      <4>3. \A k \in CaseNumbers : k < X.next => k < worker[w].next \/ k = worker[w].next
          BY <3>3, <4>2, Bounds
      <4> QED BY <3>3, <4>1, <4>3 DEF Settled
    <3> QED BY <2>4, <3>1, <3>2, <3>3
  <2>5. ASSUME X.pc = "finish" PROVE Finished(r)
    <3>1. /\ run[r].total <= worker[w].last /\ \A k \in CaseNumbers : result[r][k].status # "none" => k <= worker[w].last
          /\ \A k \in CaseNumbers : k < worker[w].next => Settled(r, k)
        BY <2>1, <2>5 DEF ExecutionOK
    <3>2. worker[w].last \in Nat /\ worker[w].next \in Nat /\ \A k \in CaseNumbers : k \in Nat
        BY Bounds
    <3>3. \A k \in CaseNumbers : k <= worker[w].last => Settled(r, k)
        BY <2>5, <3>1, <3>2
    <3>4. 1 .. run[r].total \subseteq CaseNumbers /\ \A k \in 1 .. run[r].total : k <= worker[w].last
      <4>1. run[r].total \in 0 .. MaxCases
          BY <1>0 DEF AllRuns, TypeInv, Rows
      <4> QED BY <3>1, <3>2, <4>1, BoundsAreNaturals DEF CaseNumbers
    <3> QED BY <3>1, <3>3, <3>4 DEF Finished, Settled
  <2>6. /\ Counted(r)' = Counted(r)
        /\ Finished(r)' <=> Finished(r)
        /\ \A k : (Final(r, k)' <=> Final(r, k)) /\ (Settled(r, k)' <=> Settled(r, k))
      BY DEF Counted, Having, Finished, Final, Settled
  <2>8. ASSUME X.pc = "finish" PROVE CountsOf(r, X.count)'
    <3>1. X.count = Counted(r) /\ Balanced(Counted(r))
        BY <1>0, <2>5, <2>8, CountedBalances DEF Finished, Balanced, AllRuns
    <3> QED BY <2>6, <3>1 DEF CountsOf, Balanced
  <2> QED BY <1>1, <2>2, <2>3, <2>4, <2>5, <2>6, <2>7, <2>8 DEF ExecutionOK
<1>4. \A c \in CaseNumbers : result'[r][c].status = "none" \/ c <= cases'
    BY <1>0 DEF RunInv
<1>5. ASSUME r \notin overlapped, r \notin halfway, NEW c \in CaseNumbers
      PROVE ~result[r][c].collided /\ (c \in conversation[r] => Final(r, c))
  <2>1. FreshInv(r)
      BY <1>0, <1>5 DEF RunInv
  <2>2. \A v \in Workers : worker[v].run = r => v = w
      BY <1>0, <1>5 DEF RunInv
  <2> QED BY <2>1, <2>2 DEF FreshInv
<1>6. RunInv(r)'
    BY <1>0, <1>1, <1>3, <1>4, <1>5, Executed, Bounds DEF AllRuns, Final
<1> QED BY <1>2, <1>6

LEMMA FailKeeps ==
    ASSUME AllRuns, [Next]_vars, NEW w \in Workers, worker[w] # Idle, Fail(w), worker[w].pc # "answer",
           UNCHANGED <<cases, run, result, conversation, rows, overlapped, halfway, expired>>
    PROVE  \A q \in Runs : RunInv(q)'
<1> DEFINE X == Failing(w)
<1>1. X \in WorkerRows /\ Moves(w, X) /\ X.pc = "fail" /\ X.run = worker[w].run
    BY FailMoves DEF AllRuns
<1> HIDE DEF X
<1>2. PICK r \in Runs : r = worker[w].run
    BY Bounds
<1>3. worker'[w] = X /\ \A v \in Workers : v # w => worker'[v] = worker[v]
    BY <1>1, Moved DEF AllRuns
<1>4. ASSUME NEW q \in Runs, q # r PROVE RunInv(q)'
    BY <1>1, <1>2, <1>3, <1>4, OtherRuns
<1>5. ASSUME r \notin overlapped PROVE ExecutionOK(r, w)'
  <2>1. ExecutionOK(r, w)
      BY <1>2, <1>5 DEF AllRuns, RunInv
  <2> QED BY <1>1, <1>3, <2>1 DEF ExecutionOK, InCase
<1>6. ASSUME r \notin overlapped, r \notin halfway, NEW c \in CaseNumbers
      PROVE ~result[r][c].collided /\ (c \in conversation[r] => Final(r, c))
  <2>1. FreshInv(r) /\ \A v \in Workers : worker[v].run = r => v = w
      BY <1>2, <1>6 DEF AllRuns, RunInv
  <2> QED BY <2>1 DEF FreshInv
<1>7. \A c \in CaseNumbers : result'[r][c].status = "none" \/ c <= cases'
    BY <1>2 DEF AllRuns, RunInv
<1>8. RunInv(r)'
    BY <1>1, <1>2, <1>3, <1>5, <1>6, <1>7, Executed, Bounds DEF AllRuns, Final
<1> QED BY <1>4, <1>8

LEMMA ReadingKeeps ==
    ASSUME AllRuns, [Next]_vars, NEW w \in Workers, ListCases(w) \/ TakeCase(w) \/ ReadResults(w)
    PROVE  \A q \in Runs : RunInv(q)'
<1>1. /\ worker[w] # Idle /\ worker[w] \in WorkerRows /\ worker[w].pc \in {"list", "case"}
      /\ UNCHANGED <<cases, run, result, conversation, rows, overlapped, halfway, expired>>
    BY DEF ListCases, TakeCase, ReadResults, Idle, AllRuns, TypeInv, dataset, history
<1>2. worker[w].run \in Runs /\ worker[w].next \in Nat /\ worker[w].last \in Nat
    BY <1>1, Bounds
<1>3. {"list", "case", "finish", "fail", "mark"} \subseteq Steps /\ cases \in 0 .. MaxCases
    BY DEF Steps, AllRuns, TypeInv
<1>4. CASE Fail(w)
    BY <1>1, <1>4, FailKeeps
<1>5. CASE ListCases(w) /\ ~Fail(w)
  <2> DEFINE X == [worker[w] EXCEPT !.pc = "case", !.next = 1, !.last = cases]
  <2>1. X \in WorkerRows
    <3>1. 1 \in 0 .. MaxCases + 1
        BY BoundsAreNaturals
    <3> QED BY <1>1, <1>3, <3>1, RowUpdates
  <2>2. /\ X.pc = "case" /\ X.run = worker[w].run /\ X.loaded = worker[w].loaded /\ X.next = 1 /\ X.last = cases
      BY <1>1 DEF WorkerRows
  <2>3. Moves(w, X) /\ worker[w].pc = "list"
      BY <1>5 DEF ListCases, Moves
  <2> HIDE DEF X
  <2> QED BY <1>1, <2>1, <2>2, <2>3, StepKeeps DEF InCase
<1>6. CASE TakeCase(w)
  <2> DEFINE r == worker[w].run
             c == worker[w].next
  <2>1. worker[w].pc = "case" /\ c \in CaseNumbers
    <3>1. worker[w].pc = "case" /\ c <= worker[w].last
        BY <1>6 DEF TakeCase
    <3>2. c >= 1 /\ worker[w].last \in 0 .. MaxCases
        BY <1>1, <3>1 DEF AllRuns, PlaceInv, WorkerRows
    <3> QED BY <1>2, <3>1, <3>2, BoundsAreNaturals DEF CaseNumbers
  <2>2. CASE result[r][c].status \in Done
    <3> DEFINE X == [worker[w] EXCEPT !.loaded = Held(w), !.next = c + 1]
    <3>1. X \in WorkerRows
      <4>1. c + 1 \in 0 .. MaxCases + 1
          BY <2>1, BoundsAreNaturals DEF CaseNumbers
      <4>2. Held(w) \in Counts
          BY <1>2, HeldCounts DEF AllRuns
      <4> QED BY <1>1, <1>3, <4>1, <4>2, RowUpdates
    <3>2. /\ X.pc = "case" /\ X.run = r /\ X.loaded = Held(w) /\ X.next = c + 1
          /\ X.last = worker[w].last
        BY <1>1, <2>1 DEF WorkerRows
    <3>3. Moves(w, X) /\ Final(r, c)
        BY <1>6, <2>2 DEF TakeCase, Moves, Done, Final
    <3> HIDE DEF X
    <3> QED BY <1>1, <2>1, <3>1, <3>2, <3>3, StepKeeps DEF InCase
  <2>3. CASE result[r][c].status \notin Done
    <3> DEFINE X == [worker[w] EXCEPT !.loaded = Held(w), !.pc = "mark", !.seen = result[r][c].status]
    <3>1. X \in WorkerRows
      <4>1. result[r][c].status \in CaseStatus /\ 0 \in 0 .. MaxCases + 1 /\ Held(w) \in Counts
          BY <1>2, <2>1, HeldCounts, BoundsAreNaturals DEF AllRuns, TypeInv, ResultRows
      <4> QED BY <1>1, <1>3, <4>1, RowUpdates
    <3>2. /\ X.pc = "mark" /\ X.run = r /\ X.loaded = Held(w) /\ X.next = c
          /\ X.last = worker[w].last /\ X.seen = result[r][c].status
        BY <1>1 DEF WorkerRows
    <3>3. Moves(w, X) /\ ~Final(r, c)
        BY <1>6, <2>3 DEF TakeCase, Moves, Done, Final
    <3> HIDE DEF X
    <3> QED BY <1>1, <2>1, <3>1, <3>2, <3>3, StepKeeps DEF InCase
  <2> QED BY <2>2, <2>3
<1>7. CASE ReadResults(w) /\ ~Fail(w)
  <2> DEFINE X == [worker[w] EXCEPT !.pc = "finish", !.count = Counted(worker[w].run), !.loaded = Held(w),
                                    !.old = rows[worker[w].run]]
  <2>1. X \in WorkerRows
    <3>1. Counted(worker[w].run) \in Counts /\ rows[worker[w].run] \in SUBSET Nat /\ 0 \in 0 .. MaxCases + 1
          /\ Held(w) \in Counts
        BY <1>2, CountsOfStatuses, HeldCounts, BoundsAreNaturals DEF AllRuns, TypeInv
    <3> QED BY <1>1, <1>3, <3>1, RowUpdates
  <2>2. /\ X.pc = "finish" /\ X.run = worker[w].run /\ X.loaded = Held(w)
        /\ X.last = worker[w].last /\ X.count = Counted(worker[w].run) /\ X.old = rows[worker[w].run]
      BY <1>1 DEF WorkerRows
  <2>3. Moves(w, X) /\ worker[w].pc = "case" /\ worker[w].next > worker[w].last
      BY <1>7 DEF ReadResults, Moves
  <2> HIDE DEF X
  <2> QED BY <1>1, <2>1, <2>2, <2>3, StepKeeps DEF InCase
<1>8. TakeCase(w) \/ (ListCases(w) /\ ~Fail(w)) \/ (ReadResults(w) /\ ~Fail(w)) \/ Fail(w)
    OBVIOUS
<1> QED BY <1>4, <1>5, <1>6, <1>7, <1>8

(* A step within a case: the case's own result or conversation changes.    *)
LEMMA CaseKeeps ==
    ASSUME AllRuns, [Next]_vars, NEW w \in Workers, NEW r \in Runs, r = worker[w].run, worker[w].pc \in InCase,
           (MarkRunning(w) /\ ~Fail(w)) \/ Converse(w) \/ GradeCase(w) \/ FailCase(w)
    PROVE  /\ UNCHANGED <<cases, run, rows, overlapped, halfway, expired>>
           /\ worker'[w].run = r /\ worker'[w].loaded \in {worker[w].loaded, Nil} /\ worker'[w].last = worker[w].last
           /\ \A v \in Workers : v # w => worker'[v] = worker[v]
           /\ \A q \in Runs, c \in CaseNumbers :
                 (q # r \/ c # worker[w].next) => /\ result'[q][c] = result[q][c]
                                                  /\ c \in conversation'[q] <=> c \in conversation[q]
           /\ \A q \in Runs : q # r => result'[q] = result[q] /\ conversation'[q] = conversation[q]
<1>0. worker[w] \in WorkerRows /\ worker \in [Workers -> WorkerRows] /\ worker[w].next \in CaseNumbers
  <2>1. worker[w] # Idle /\ worker[w] \in WorkerRows /\ worker \in [Workers -> WorkerRows]
      BY DEF AllRuns, TypeInv, Idle, InCase
  <2>2. worker[w].next \in 1 .. worker[w].last /\ worker[w].last \in 0 .. MaxCases
      BY <2>1 DEF AllRuns, PlaceInv, WorkerRows
  <2> QED BY <2>1, <2>2, BoundsAreNaturals DEF CaseNumbers
<1>1. UNCHANGED <<cases, run, rows, overlapped, halfway, expired>>
    BY DEF MarkRunning, Converse, GradeCase, FailCase, EndCase, dataset, history
<1>2. \/ \E s : worker' = [worker EXCEPT ![w].pc = s]
      \/ worker' = [worker EXCEPT ![w] = [@ EXCEPT !.pc = "converse", !.seen = "none"]]
      \/ \E l \in {worker[w].loaded, Nil} :
            worker' = [worker EXCEPT ![w] = [@ EXCEPT !.pc = "case", !.next = worker[w].next + 1, !.loaded = l]]
    BY DEF MarkRunning, Converse, GradeCase, FailCase, EndCase, Go
<1>3. \/ \E s : worker'[w] = [worker[w] EXCEPT !.pc = s]
      \/ worker'[w] = [worker[w] EXCEPT !.pc = "converse", !.seen = "none"]
      \/ \E l \in {worker[w].loaded, Nil} :
            worker'[w] = [worker[w] EXCEPT !.pc = "case", !.next = worker[w].next + 1, !.loaded = l]
    BY <1>0, <1>2
<1>4. /\ worker'[w].run = r /\ worker'[w].loaded \in {worker[w].loaded, Nil} /\ worker'[w].last = worker[w].last
      /\ \A v \in Workers : v # w => worker'[v] = worker[v]
    BY <1>0, <1>2, <1>3 DEF WorkerRows
<1>5. /\ UNCHANGED result \/ \E x : result' = [result EXCEPT ![r][worker[w].next] = x]
      /\ UNCHANGED conversation \/ conversation' = [conversation EXCEPT ![r] = @ \cup {worker[w].next}]
  <2>1. CASE MarkRunning(w)
    <3> DEFINE x == IF result[r][worker[w].next].status = "none"
                    THEN [NoResult EXCEPT !.status = "running"]
                    ELSE [result[r][worker[w].next] EXCEPT !.status = "running"]
    <3>1. UNCHANGED result \/ result' = [result EXCEPT ![r][worker[w].next] = x]
        BY <2>1 DEF MarkRunning
    <3> HIDE DEF x
    <3> QED BY <2>1, <3>1 DEF MarkRunning
  <2>2. CASE Converse(w)
      BY <2>2 DEF Converse
  <2>3. CASE GradeCase(w) \/ FailCase(w)
      BY <2>3 DEF GradeCase, FailCase, EndCase
  <2> QED BY <2>1, <2>2, <2>3
<1>6. /\ result \in [Runs -> [CaseNumbers -> ResultRows]] /\ conversation \in [Runs -> SUBSET CaseNumbers]
    BY DEF AllRuns, TypeInv
<1>7. /\ \A q \in Runs, c \in CaseNumbers : (q # r \/ c # worker[w].next) => result'[q][c] = result[q][c]
      /\ \A q \in Runs : q # r => result'[q] = result[q]
  <2>1. ASSUME NEW x, result' = [result EXCEPT ![r][worker[w].next] = x]
        PROVE /\ \A q \in Runs : q # r => result'[q] = result[q]
              /\ \A c \in CaseNumbers : c # worker[w].next => result'[r][c] = result[r][c]
    <3>1. result' = [result EXCEPT ![r] = [result[r] EXCEPT ![worker[w].next] = x]]
        BY <2>1
    <3>2. result'[r] = [result[r] EXCEPT ![worker[w].next] = x]
        BY <1>6, <3>1
    <3>3. result[r] \in [CaseNumbers -> ResultRows]
        BY <1>6
    <3> QED BY <1>6, <3>1, <3>2, <3>3
  <2> QED BY <1>5, <2>1
<1>8. /\ \A q \in Runs, c \in CaseNumbers :
            (q # r \/ c # worker[w].next) => (c \in conversation'[q] <=> c \in conversation[q])
      /\ \A q \in Runs : q # r => conversation'[q] = conversation[q]
    BY <1>0, <1>5, <1>6
<1> QED BY <1>1, <1>4, <1>7, <1>8

LEMMA WorkKeeps ==
    ASSUME AllRuns, [Next]_vars, NEW w \in Workers,
           (MarkRunning(w) /\ ~Fail(w)) \/ Converse(w) \/ GradeCase(w) \/ FailCase(w)
    PROVE  \A q \in Runs : RunInv(q)'
<1>1. worker[w] # Idle /\ worker[w].pc \in InCase /\ worker[w] \in WorkerRows
    BY AtCase DEF AllRuns, TypeInv
<1> PICK r \in Runs : r = worker[w].run
    BY <1>1, Bounds
<1> PICK c \in CaseNumbers : c = worker[w].next
  <2>1. worker[w].next \in 1 .. worker[w].last /\ worker[w].last \in 0 .. MaxCases
      BY <1>1 DEF AllRuns, PlaceInv, WorkerRows
  <2> QED BY <2>1, BoundsAreNaturals DEF CaseNumbers
<1>2. /\ UNCHANGED <<cases, run, rows, overlapped, halfway, expired>>
      /\ worker'[w].run = r /\ worker'[w].loaded \in {worker[w].loaded, Nil} /\ worker'[w].last = worker[w].last
      /\ \A v \in Workers : v # w => worker'[v] = worker[v]
      /\ \A k \in CaseNumbers : k # c => /\ result'[r][k] = result[r][k]
                                         /\ k \in conversation'[r] <=> k \in conversation[r]
      /\ \A q \in Runs : q # r => result'[q] = result[q] /\ conversation'[q] = conversation[q]
    BY <1>1, CaseKeeps
<1>3. ASSUME NEW q \in Runs, q # r PROVE RunInv(q)'
    BY <1>2, <1>3, OtherRuns
<1>4. c <= worker[w].last /\ worker[w].last <= cases
    BY <1>1 DEF AllRuns, PlaceInv
<1>5. \A k \in CaseNumbers : result'[r][k].status = "none" \/ k <= cases'
  <2>1. c <= cases /\ RunInv(r)
      BY <1>4, Bounds DEF AllRuns
  <2> QED BY <1>2, <2>1 DEF RunInv
<1>6. ASSUME r \notin overlapped
      PROVE /\ ExecutionOK(r, w) /\ \A v \in Workers : worker[v].run = r => v = w
            /\ run[r].total <= worker[w].last
            /\ \A k \in CaseNumbers : result[r][k].status # "none" => k <= worker[w].last
            /\ \A k \in CaseNumbers : k < c => Settled(r, k)
            /\ r \notin halfway => FreshInv(r)
  <2>1. RunInv(r)
      BY DEF AllRuns
  <2>2. ExecutionOK(r, w) /\ \A v \in Workers : worker[v].run = r => v = w
      BY <1>6, <2>1 DEF RunInv
  <2>3. r \notin halfway => FreshInv(r)
      BY <1>6, <2>1 DEF RunInv
  <2> QED BY <1>1, <2>2, <2>3 DEF ExecutionOK
<1>7. result \in [Runs -> [CaseNumbers -> ResultRows]] /\ conversation \in [Runs -> SUBSET CaseNumbers]
      /\ worker \in [Workers -> WorkerRows] /\ \A x \in WorkerRows : x.last \in Nat
    BY BoundsAreNaturals DEF AllRuns, TypeInv, WorkerRows
<1>8. ASSUME \/ ~(r \notin overlapped) 
             \/ /\ worker'[w].pc \in InCase \cup {"case"}
                /\ worker'[w].next = c \/ (worker'[w].next = c + 1 /\ Final(r, c)')
                /\ worker'[w].pc # "mark"
                /\ worker'[w].pc \in {"converse", "answer", "collided"} => /\ worker'[w].next = c
                                                                          /\ result'[r][c].status = "running"
      PROVE r \notin overlapped => ExecutionOK(r, w)'
  <2> SUFFICES ASSUME r \notin overlapped PROVE ExecutionOK(r, w)'
      OBVIOUS
  <2>1. run'[r].status = "running" /\ worker'[w].loaded \in {Nil, run'[r].count}
      BY <1>1, <1>2, <1>6 DEF ExecutionOK
  <2>2. run'[r].total <= worker'[w].last /\ \A k \in CaseNumbers : result'[r][k].status # "none" => k <= worker'[w].last
      BY <1>2, <1>4, <1>6
  <2>3. ASSUME worker'[w].pc \in {"case"} \cup InCase PROVE \A k \in CaseNumbers : k < worker'[w].next => Settled(r, k)'
    <3>1. \A k \in CaseNumbers : k \in Nat
        BY Bounds
    <3>2. \A k \in CaseNumbers : k < c => Settled(r, k)'
        BY <1>2, <1>6, <3>1 DEF Settled, Final
    <3>3. \A k \in CaseNumbers : k < c + 1 => k < c \/ k = c
        BY <3>1
    <3> QED BY <1>8, <2>3, <3>2, <3>3 DEF Settled
  <2> QED BY <1>8, <2>1, <2>2, <2>3 DEF ExecutionOK, InCase
<1>9. CASE MarkRunning(w) /\ ~Fail(w)
  <2>1. /\ worker[w].pc = "mark" /\ UNCHANGED conversation
        /\ worker' = [worker EXCEPT ![w] = [@ EXCEPT !.pc = "converse", !.seen = "none"]]
        /\ \/ worker[w].seen = "running" /\ UNCHANGED result
           \/ result' = [result EXCEPT ![r][c] =
                            IF result[r][c].status = "none" THEN [NoResult EXCEPT !.status = "running"]
                                                            ELSE [@ EXCEPT !.status = "running"]]
      BY <1>9 DEF MarkRunning
  <2>2. worker'[w].pc = "converse" /\ worker'[w].next = c
    <3>1. worker'[w] = [worker[w] EXCEPT !.pc = "converse", !.seen = "none"]
        BY <1>7, <2>1
    <3> QED BY <1>1, <3>1 DEF WorkerRows
  <2>3. \/ result'[r][c] = result[r][c] /\ worker[w].seen = "running"
        \/ /\ result'[r][c].status = "running"
           /\ result'[r][c].collided => result[r][c].collided
    <3>2. CASE worker[w].seen = "running" /\ UNCHANGED result
        BY <3>2
    <3>3. CASE result' = [result EXCEPT ![r][c] =
                             IF result[r][c].status = "none" THEN [NoResult EXCEPT !.status = "running"]
                                                             ELSE [@ EXCEPT !.status = "running"]]
      <4>1. result'[r][c] = IF result[r][c].status = "none" THEN [NoResult EXCEPT !.status = "running"]
                                                            ELSE [result[r][c] EXCEPT !.status = "running"]
          BY <1>7, <3>3
      <4>2. result[r][c] \in ResultRows
          BY <1>7
      <4> QED BY <4>1, <4>2 DEF NoResult, ResultRows
    <3> QED BY <2>1, <3>2, <3>3
  <2>4. r \notin overlapped => result[r][c].status = worker[w].seen /\ ~Final(r, c)
      BY <1>6, <2>1 DEF ExecutionOK
  <2>5. r \notin overlapped /\ worker'[w].pc = "converse" => result'[r][c].status = "running"
      BY <2>3, <2>4
  <2>6. r \notin overlapped => ExecutionOK(r, w)'
      BY <1>8, <2>2, <2>5 DEF InCase
  <2>7. ASSUME r \notin overlapped, r \notin halfway, NEW k \in CaseNumbers
        PROVE ~result'[r][k].collided /\ (k \in conversation'[r] => Final(r, k)')
    <3>1. ~result[r][k].collided /\ (k \in conversation[r] => Final(r, k))
        BY <1>6, <2>1, <2>7 DEF FreshInv
    <3>2. CASE k = c
        BY <2>1, <2>3, <2>4, <2>7, <3>1, <3>2
    <3>3. CASE k # c
        BY <1>2, <2>1, <3>1, <3>3 DEF Final
    <3> QED BY <3>2, <3>3
  <2> QED BY <1>2, <1>3, <1>5, <2>2, <2>6, <2>7, Executed, Bounds DEF AllRuns
<1>10. CASE Converse(w)
  <2>1. /\ worker[w].pc = "converse" /\ UNCHANGED result
        /\ \/ /\ worker' = [worker EXCEPT ![w].pc = "collided"] /\ UNCHANGED conversation /\ c \in conversation[r]
           \/ /\ worker' = [worker EXCEPT ![w].pc = "answer"]
              /\ conversation' = [conversation EXCEPT ![r] = @ \cup {c}]
      BY <1>10 DEF Converse, Go
  <2>2. worker'[w].pc \in {"collided", "answer"} /\ worker'[w].next = c
        /\ (worker'[w].pc = "collided" => c \in conversation[r])
      BY <1>1, <1>7, <2>1 DEF WorkerRows
  <2>3. r \notin overlapped => result[r][c].status = "running"
      BY <1>6, <2>1 DEF ExecutionOK
  <2>4. r \notin overlapped => ExecutionOK(r, w)'
      BY <1>8, <2>1, <2>2, <2>3 DEF InCase
  <2>5. ASSUME r \notin overlapped, r \notin halfway, NEW k \in CaseNumbers
        PROVE /\ ~result[r][k].collided /\ (k \in conversation[r] => Final(r, k)) /\ c \notin conversation[r]
    <3>1. ~result[r][k].collided /\ (k \in conversation[r] => Final(r, k))
        BY <1>6, <2>1, <2>5 DEF FreshInv
    <3>2. c \in conversation[r] => Final(r, c)
        BY <1>6, <2>1, <2>5 DEF FreshInv
    <3> QED BY <2>3, <2>5, <3>1, <3>2 DEF Final, Terminal
  <2>6. ASSUME r \notin overlapped, r \notin halfway
        PROVE /\ worker'[w].pc = "answer"
              /\ \A k \in CaseNumbers : /\ ~result'[r][k].collided
                                        /\ k \in conversation'[r] => Final(r, k)' \/ k = c
    <3>1. worker'[w].pc = "answer"
        BY <2>2, <2>5, <2>6
    <3>2. \A k \in CaseNumbers : /\ ~result'[r][k].collided
                                 /\ k \in conversation'[r] => Final(r, k)' \/ k = c
        BY <1>2, <2>1, <2>5, <2>6 DEF Final
    <3> QED BY <3>1, <3>2
  <2> QED BY <1>2, <1>3, <1>5, <2>2, <2>4, <2>6, Executed, Bounds DEF AllRuns
<1>11. CASE GradeCase(w) \/ FailCase(w)
  <2>1. /\ worker[w].pc \in {"answer", "collided"} /\ UNCHANGED conversation
        /\ \E l : worker' = [worker EXCEPT ![w] = [@ EXCEPT !.pc = "case", !.next = c + 1, !.loaded = l]]
      BY <1>11 DEF GradeCase, FailCase, EndCase
  <2>2. worker'[w].pc = "case" /\ worker'[w].next = c + 1
    <3>1. \E l : worker'[w] = [worker[w] EXCEPT !.pc = "case", !.next = c + 1, !.loaded = l]
        BY <1>7, <2>1
    <3> QED BY <1>1, <3>1 DEF WorkerRows
  <2>3. result'[r][c].status \in Terminal /\ (result'[r][c].collided => worker[w].pc = "collided")
    <3>1. \E v : /\ result' = [result EXCEPT ![r][c] = v] /\ v.status \in Terminal
                 /\ v.collided => worker[w].pc = "collided"
      <4>1. CASE GradeCase(w)
        <5>1. PICK s \in {"passed", "failed"} : EndCase(w, [status |-> s, collided |-> FALSE], worker[w].loaded)
            BY <4>1 DEF GradeCase
        <5>2. result' = [result EXCEPT ![r][c] = [status |-> s, collided |-> FALSE]]
            BY <5>1 DEF EndCase
        <5>3. [status |-> s, collided |-> FALSE].status \in Terminal /\ ~[status |-> s, collided |-> FALSE].collided
            BY DEF Terminal
        <5> QED BY <5>2, <5>3
      <4>2. CASE FailCase(w)
        <5>1. PICK s \in {"failed", "error"} :
                 EndCase(w, [result[r][c] EXCEPT !.status = s, !.collided = worker[w].pc = "collided"], Nil)
            BY <4>2 DEF FailCase
        <5> DEFINE v == [result[r][c] EXCEPT !.status = s, !.collided = worker[w].pc = "collided"]
        <5>2. v.status = s /\ v.collided = (worker[w].pc = "collided")
          <6>1. result[r][c] \in ResultRows
              BY <1>7
          <6> QED BY <6>1 DEF ResultRows
        <5>3. result' = [result EXCEPT ![r][c] = v]
            BY <5>1 DEF EndCase
        <5> HIDE DEF v
        <5> QED BY <5>2, <5>3 DEF Terminal
      <4> QED BY <1>11, <4>1, <4>2
    <3> QED BY <1>7, <3>1
  <2>4. r \notin overlapped => ExecutionOK(r, w)'
      BY <1>8, <2>2, <2>3 DEF InCase, Final
  <2>5. ASSUME r \notin overlapped, r \notin halfway, NEW k \in CaseNumbers
        PROVE ~result'[r][k].collided /\ (k \in conversation'[r] => Final(r, k)')
    <3>1. ~result[r][k].collided /\ worker[w].pc # "collided"
          /\ (k # c => (k \in conversation[r] => Final(r, k)))
        BY <1>6, <2>5 DEF FreshInv
    <3>2. CASE k = c
        BY <2>3, <3>1, <3>2 DEF Final
    <3>3. CASE k # c
        BY <1>2, <2>1, <3>1, <3>3 DEF Final
    <3> QED BY <3>2, <3>3
  <2> QED BY <1>2, <1>3, <1>5, <2>2, <2>4, <2>5, Executed, Bounds DEF AllRuns
<1> QED BY <1>9, <1>10, <1>11

(* The end of an execution: the worker is idle, and its run has ended, or   *)
(* is left as it is for a retry.                                            *)
LEMMA EndKeeps ==
    ASSUME AllRuns, [Next]_vars, NEW w \in Workers,
           \/ RetryCase(w) \/ DatabaseFails(w) \/ Abandon(w) \/ FailRun(w) \/ Finish(w)
           \/ MissResult(w) /\ Retry(w)
    PROVE  \A q \in Runs : RunInv(q)'
<1>1. /\ worker[w] # Idle /\ UNCHANGED <<cases, overlapped, expired>> /\ worker' = [worker EXCEPT ![w] = Idle]
  <2>1. CASE RetryCase(w)
      BY <2>1, AtCase DEF RetryCase, Retry, dataset
  <2>2. CASE DatabaseFails(w)
      BY <2>2, NotIdle DEF DatabaseFails, Retry, dataset
  <2>3. CASE Abandon(w)
      BY <2>3 DEF Abandon, dataset
  <2>4. CASE FailRun(w)
      BY <2>4, NotIdle DEF FailRun, dataset, history
  <2>5. CASE Finish(w)
      BY <2>5, NotIdle DEF Finish, dataset, history
  <2>6. CASE MissResult(w) /\ Retry(w)
      BY <2>6, NotIdle DEF MissResult, Retry, dataset
  <2> QED BY <2>1, <2>2, <2>3, <2>4, <2>5, <2>6
<1> PICK r \in Runs : r = worker[w].run
    BY <1>1, Bounds
<1>2. worker'[w] = Idle /\ Idle.run = Nil /\ \A v \in Workers : v # w => worker'[v] = worker[v]
    BY <1>1 DEF AllRuns, TypeInv, Idle
<1>3. /\ run \in [Runs -> Rows] /\ result \in [Runs -> [CaseNumbers -> ResultRows]]
      /\ conversation \in [Runs -> SUBSET CaseNumbers] /\ rows \in [Runs -> SUBSET Nat]
    BY DEF AllRuns, TypeInv
<1>4. RunInv(r) /\ TypeInv /\ PlaceInv
    BY DEF AllRuns
<1>5. ASSUME r \notin overlapped
      PROVE ExecutionOK(r, w) /\ \A v \in Workers : worker'[v].run # r
    BY <1>2, <1>4, <1>5, NilIsNoRun DEF RunInv
<1>6. ASSUME r \notin overlapped, r \notin halfway PROVE FreshInv(r)
    BY <1>4, <1>6 DEF RunInv
<1>7. \A v \in Workers : worker'[v].run = r => r \in overlapped'
    BY <1>1, <1>5
<1>8. CASE RetryCase(w)
  <2> DEFINE c == worker[w].next
  <2>1. /\ UNCHANGED <<run, rows, halfway>> /\ worker[w].pc \in {"converse", "answer"}
        /\ conversation' = [conversation EXCEPT ![r] = conversation[r] \ {c}]
        /\ result' = [result EXCEPT ![r][c].status = "pending"]
      BY <1>8 DEF RetryCase, Kept
  <2>2. \A q \in Runs : q # r => result'[q] = result[q] /\ conversation'[q] = conversation[q]
      BY <1>3, <2>1
  <2>3. c \in CaseNumbers
    <3>1. c \in 1 .. worker[w].last /\ worker[w].last \in 0 .. MaxCases
        BY <1>1, <2>1, <1>4 DEF PlaceInv, InCase, TypeInv, WorkerRows
    <3> QED BY <3>1, BoundsAreNaturals DEF CaseNumbers
  <2>4. /\ \A k \in CaseNumbers : k # c => result'[r][k] = result[r][k]
        /\ result'[r][c].collided = result[r][c].collided /\ result'[r][c].status = "pending"
    <3> DEFINE x == [result[r][c] EXCEPT !.status = "pending"]
    <3>1. result[r][c] \in ResultRows /\ result[r] \in [CaseNumbers -> ResultRows]
        BY <1>3, <2>3
    <3>2. x.collided = result[r][c].collided /\ x.status = "pending"
        BY <3>1 DEF ResultRows
    <3>3. result' = [result EXCEPT ![r] = [result[r] EXCEPT ![c] = x]]
        BY <2>1
    <3> HIDE DEF x
    <3>4. result'[r] = [result[r] EXCEPT ![c] = x]
        BY <1>3, <3>3
    <3> QED BY <2>3, <3>1, <3>2, <3>4
  <2>5. ASSUME NEW q \in Runs, q # r PROVE RunInv(q)'
      BY <1>1, <1>2, <2>1, <2>2, <2>5, OtherRuns
  <2>6. \A k \in CaseNumbers : result'[r][k].status = "none" \/ result[r][k].status # "none" \/ r \in overlapped
    <3>1. ASSUME r \notin overlapped PROVE result[r][c].status = "running"
        BY <1>5, <2>1, <3>1 DEF ExecutionOK
    <3> QED BY <2>4, <3>1
  <2>7. ASSUME r \notin overlapped', r \notin halfway', NEW k \in CaseNumbers
        PROVE ~result'[r][k].collided /\ (k \in conversation'[r] => Final(r, k)')
    <3>1. FreshInv(r) /\ \A v \in Workers : worker[v].run = r => v = w
        BY <1>1, <1>4, <1>6, <2>1, <2>7 DEF RunInv
    <3>2. conversation'[r] = conversation[r] \ {c}
        BY <1>3, <2>1
    <3>3. CASE k = c
        BY <2>4, <3>1, <3>2, <3>3 DEF FreshInv
    <3>4. CASE k # c
        BY <2>4, <3>1, <3>2, <3>4 DEF FreshInv, Final
    <3> QED BY <3>3, <3>4
  <2>8. run'[r].status # "succeeded" \/ r \in overlapped
      BY <1>5, <2>1 DEF ExecutionOK
  <2>9. RunInv(r)'
    <3>1. \A k \in CaseNumbers : result'[r][k].status # "none" => k <= cases'
      <4>1. c <= cases
        <5>1. c \in 1 .. worker[w].last /\ worker[w].last <= cases
            BY <1>1, <1>4, <2>1 DEF PlaceInv, InCase
        <5>2. worker[w].last \in Nat /\ cases \in Nat
            BY Bounds
        <5> QED BY <5>1, <5>2
      <4> QED BY <1>1, <1>4, <2>4, <4>1 DEF RunInv
    <3> QED BY <1>1, <1>5, <2>7, <2>8, <3>1 DEF RunInv, FreshInv
  <2> QED BY <2>5, <2>9
<1>9. CASE DatabaseFails(w) \/ Abandon(w)
  <2>1. UNCHANGED <<run, result, conversation, rows>> /\ halfway' = halfway \cup {r}
      BY <1>9 DEF DatabaseFails, Abandon
  <2>2. ASSUME NEW q \in Runs, q # r PROVE RunInv(q)'
      BY <1>1, <1>2, <2>1, <2>2, OtherRuns
  <2>3. run'[r].status # "succeeded" \/ (r \notin overlapped' => Complete(r)')
      BY <1>1, <1>5, <2>1 DEF ExecutionOK
  <2>4. RunInv(r)'
      BY <1>1, <1>4, <1>7, <2>1, <2>3, Bounds, Unexecuted
  <2> QED BY <2>2, <2>4
<1>10. CASE FailRun(w) \/ Finish(w)
  <2>1. UNCHANGED <<result, conversation, halfway>> /\ worker[w].pc \in {"fail", "finish"}
      BY <1>10 DEF FailRun, Finish, history
  <2>2. \A q \in Runs : q # r => run'[q] = run[q] /\ rows'[q] = rows[q]
      BY <1>3, <1>10 DEF FailRun, Finish
  <2>3. ASSUME NEW q \in Runs, q # r PROVE RunInv(q)'
      BY <1>1, <1>2, <2>1, <2>2, <2>3, OtherRuns
  <2>4. ASSUME r \notin overlapped', r \notin halfway', NEW k \in CaseNumbers
        PROVE ~result'[r][k].collided /\ (k \in conversation'[r] => Final(r, k)')
    <3>1. FreshInv(r) /\ \A v \in Workers : worker[v].run = r => v = w
        BY <1>1, <1>4, <1>6, <2>1, <2>4 DEF RunInv
    <3> QED BY <2>1, <3>1 DEF FreshInv, Final
  <2>5. ASSUME FailRun(w) PROVE run'[r].status # "succeeded"
    <3>1. run'[r] = [run[r] EXCEPT !.status = "failed"]
        BY <1>3, <2>5 DEF FailRun
    <3>2. run[r] \in Rows
        BY <1>3
    <3> QED BY <3>1, <3>2 DEF Rows
  <2>6. ASSUME Finish(w), r \notin overlapped PROVE Complete(r)'
    <3>1. worker[w].pc = "finish" /\ ExecutionOK(r, w)
        BY <1>5, <2>6 DEF Finish
    <3>2. Finished(r) /\ CountsOf(r, worker[w].count) /\ worker[w].old = rows[r] /\ worker[w].loaded = run[r].count
        BY <3>1 DEF ExecutionOK
    <3>3. run'[r].count = worker[w].count /\ run'[r].total = run[r].total
      <4>1. run[r] \in Rows /\ run[r].count \in Counts /\ worker[w].count \in Counts
          BY <1>3, <1>4 DEF Rows, TypeInv, WorkerRows
      <4>2. Written(run[r].count, worker[w].loaded, worker[w].count) = worker[w].count
          BY <3>2, <4>1, WrittenCounts
      <4>3. run'[r] = [run[r] EXCEPT !.status = "succeeded", !.count = worker[w].count]
          BY <1>3, <2>6, <4>2 DEF Finish
      <4> QED BY <4>1, <4>3 DEF Rows
    <3>4. \E n : rows'[r] = {n}
      <4>1. PICK n \in Nat : ReplacedRows(w) = (rows[worker[w].run] \ worker[w].old) \cup {n}
          BY <1>1, <1>4, RowsOfAFinish
      <4>2. rows' = [rows EXCEPT ![r] = ReplacedRows(w)]
          BY <2>6 DEF Finish
      <4>3. rows'[r] = {n}
          BY <1>3, <3>2, <4>1, <4>2
      <4> QED BY <4>3
    <3>5. Finished(r)' /\ Counted(r)' = Counted(r)
        BY <1>1, <2>1, <3>2, <3>3 DEF Finished, Settled, Final, Counted, Having
    <3>6. CountsOf(r, run[r].count)'
        BY <1>1, <3>2, <3>3, <3>5 DEF CountsOf, Balanced
    <3> QED BY <3>4, <3>5, <3>6 DEF Complete
  <2>7. run'[r].status # "succeeded" \/ (r \notin overlapped' => Complete(r)')
      BY <1>1, <1>10, <2>5, <2>6
  <2>8. RunInv(r)'
      BY <1>1, <1>4, <1>7, <2>1, <2>4, <2>7, Bounds, Unexecuted
  <2> QED BY <2>3, <2>8
<1>11. CASE MissResult(w) /\ Retry(w)
  <2>1. UNCHANGED <<run, result, conversation, rows, halfway>> /\ worker[w].pc = "gone"
      BY <1>11 DEF MissResult
  <2>2. ASSUME NEW q \in Runs, q # r PROVE RunInv(q)'
      BY <1>1, <1>2, <2>1, <2>2, OtherRuns
  <2>3. run'[r].status # "succeeded" \/ (r \notin overlapped' => Complete(r)')
      BY <1>1, <1>5, <2>1 DEF ExecutionOK
  <2>4. ASSUME r \notin overlapped', r \notin halfway', NEW k \in CaseNumbers
        PROVE ~result'[r][k].collided /\ (k \in conversation'[r] => Final(r, k)')
    <3>1. FreshInv(r) /\ \A v \in Workers : worker[v].run = r => v = w
        BY <1>1, <1>4, <1>6, <2>1, <2>4 DEF RunInv
    <3> QED BY <2>1, <3>1 DEF FreshInv, Final
  <2>5. RunInv(r)'
      BY <1>1, <1>4, <1>7, <2>1, <2>3, <2>4, Bounds, Unexecuted
  <2> QED BY <2>2, <2>5
<1> QED BY <1>8, <1>9, <1>10, <1>11

(* A clean-up empties a run and stops its worker, unless that can go on.    *)
LEMMA CleanUpKeeps ==
    ASSUME AllRuns, [Next]_vars, NEW r \in Runs, CleanUp(r)
    PROVE  \A q \in Runs : RunInv(q)'
<1>1. /\ UNCHANGED <<cases, run, rows, overlapped, halfway>> /\ expired' = expired \cup {r}
      /\ result' = [result EXCEPT ![r] = [c \in CaseNumbers |-> NoResult]]
      /\ conversation' = [conversation EXCEPT ![r] = {}]
    BY DEF CleanUp, dataset
<1>2. TypeInv /\ PlaceInv /\ RunInv(r)
    BY DEF AllRuns
<1>3. \A c \in CaseNumbers : result'[r][c].status = "none" /\ ~result'[r][c].collided
  <2>1. result'[r] = [c \in CaseNumbers |-> NoResult]
      BY <1>1, <1>2 DEF TypeInv
  <2>2. NoResult.status = "none" /\ ~NoResult.collided
      BY DEF NoResult
  <2> QED BY <2>1, <2>2
<1>4. conversation'[r] = {} /\ r \in expired'
    BY <1>1, <1>2 DEF TypeInv
<1>5. \A w \in Workers : worker'[w].run = worker[w].run
    BY <1>2, Bereaved
<1>6. ASSUME NEW q \in Runs, q # r PROVE RunInv(q)'
  <2>1. \A w \in Workers : worker[w].run = q \/ worker'[w].run = q => worker'[w] = worker[w]
      BY <1>2, <1>5, <1>6, Bereaved
  <2>2. result'[q] = result[q] /\ conversation'[q] = conversation[q] /\ (q \in expired' <=> q \in expired)
      BY <1>1, <1>2, <1>6 DEF TypeInv
  <2>3. RunInv(q) /\ cases <= cases' /\ cases' \in Nat
      BY Bounds DEF AllRuns
  <2> QED BY <1>1, <1>2, <2>1, <2>2, <2>3, Untouched
<1>7. Finished(r)' /\ \A c \in CaseNumbers : ~Final(r, c)'
  <2>1. \A c \in 1 .. run[r].total : c \in CaseNumbers
    <3>1. run[r].total \in 0 .. MaxCases
        BY <1>2 DEF TypeInv, Rows
    <3> QED BY <3>1, BoundsAreNaturals DEF CaseNumbers
  <2> QED BY <1>1, <1>3, <1>4, <2>1 DEF Finished, Settled, Final, Terminal
<1>8. ASSUME r \notin overlapped, NEW w \in Workers, worker[w].run = r PROVE ExecutionOK(r, w)'
  <2>1. ExecutionOK(r, w)
      BY <1>2, <1>8 DEF RunInv
  <2>2. CASE worker'[w].pc \in {"gone", "fail"}
      BY <1>1, <2>1, <2>2 DEF ExecutionOK, InCase
  <2>3. CASE /\ worker'[w] = worker[w] /\ worker[w].pc \notin {"converse", "answer", "collided"}
             /\ worker[w].pc = "mark" => worker[w].seen = "none"
    <3>1. worker[w].pc = "mark" => worker[w].next \in CaseNumbers
      <4>1. worker[w].pc = "mark" => worker[w].next \in 1 .. worker[w].last
          BY <1>2 DEF PlaceInv, InCase, Idle
      <4>2. worker[w].last \in 0 .. MaxCases
          BY <1>2 DEF TypeInv, WorkerRows
      <4> QED BY <4>1, <4>2, BoundsAreNaturals DEF CaseNumbers
    <3>2. \A k \in CaseNumbers : Settled(r, k)'
        BY <1>3, <1>4 DEF Settled
    <3>3. \A k : CountsOf(r, k) => CountsOf(r, k)'
        BY <1>4 DEF CountsOf, Balanced
    <3> QED BY <1>1, <1>3, <1>7, <2>1, <2>3, <3>1, <3>2, <3>3 DEF ExecutionOK
  <2> QED BY <1>2, <1>8, <2>2, <2>3, Bereaved
<1>9. ASSUME r \notin overlapped, run[r].status = "succeeded" PROVE Complete(r)'
  <2>1. Complete(r)
      BY <1>2, <1>9 DEF RunInv
  <2> QED BY <1>1, <1>4, <1>7, <2>1 DEF Complete, CountsOf, Balanced
<1>10. ASSUME r \notin overlapped, r \notin halfway PROVE FreshInv(r)'
  <2>1. \A w \in Workers : worker[w].run = r => worker'[w].pc # "collided"
      BY <1>2, Bereaved
  <2> QED BY <1>3, <1>4, <1>5, <2>1 DEF FreshInv
<1>11. RunInv(r)'
    BY <1>1, <1>2, <1>3, <1>5, <1>8, <1>9, <1>10 DEF RunInv
<1> QED BY <1>6, <1>11

(* What no worker does leaves the executions of every run alone. *)
LEMMA IdleKeeps ==
    ASSUME AllRuns, [Next]_vars, UNCHANGED <<result, conversation, rows, worker, overlapped, halfway, expired>>,
           UNCHANGED run \/ \E q \in Runs : CreateRun(q)
    PROVE  \A r \in Runs : RunInv(r)'
<1> SUFFICES ASSUME NEW r \in Runs PROVE RunInv(r)'
    OBVIOUS
<1>1. TypeInv /\ PlaceInv /\ RunInv(r) /\ run \in [Runs -> Rows]
    BY DEF AllRuns, TypeInv
<1>2. CASE run'[r] = run[r]
    BY <1>1, <1>2, Bounds, Untouched
<1>3. CASE CreateRun(r)
  <2>1. run[r].status = "none" /\ run'[r] = creation[r] /\ creation[r].status = "pending"
      BY <1>1, <1>3 DEF CreateRun, PlaceInv
  <2>2. \A v \in Workers : worker[v].run # r
      BY <2>1, Bounds DEF Existing
  <2>3. r \notin overlapped' /\ r \notin halfway' =>
           \A c \in CaseNumbers : ~result'[r][c].collided /\ (c \in conversation'[r] => Final(r, c)')
      BY <1>1, <2>2 DEF RunInv, FreshInv, Final
  <2>4. run'[r].status # "succeeded"
      BY <2>1
  <2> QED BY <1>1, <2>2, <2>3, <2>4, Bounds, Unexecuted
<1>4. ASSUME NEW q \in Runs, CreateRun(q), q # r PROVE run'[r] = run[r]
    BY <1>1, <1>4 DEF CreateRun
<1> QED BY <1>2, <1>3, <1>4

LEMMA RunStep == AllRuns /\ [Next]_vars => \A r \in Runs : RunInv(r)'
<1> SUFFICES ASSUME AllRuns, [Next]_vars PROVE \A r \in Runs : RunInv(r)'
    OBVIOUS
<1>1. CASE UNCHANGED vars
    BY <1>1, IdleKeeps DEF vars, history
<1>2. CASE Api
    BY <1>2, IdleKeeps DEF Api, CheckImport, Import, ImportConflicts, PrepareRun, CreateRun, history
<1>3. ASSUME NEW r \in Runs, Send(r) PROVE \A q \in Runs : RunInv(q)'
    BY <1>3, IdleKeeps DEF Send, history
<1>4. ASSUME NEW m \in Messages, StartFails(m) PROVE \A q \in Runs : RunInv(q)'
    BY <1>4, IdleKeeps DEF StartFails
<1>5. ASSUME NEW w \in Workers, NEW m \in Messages, Skip(w, m) PROVE \A q \in Runs : RunInv(q)'
    BY <1>5, IdleKeeps DEF Skip, history
<1>6. ASSUME NEW w \in Workers, MarkRunning(w), Fail(w) PROVE \A q \in Runs : RunInv(q)'
  <2>1. /\ worker[w].pc = "mark" /\ worker'[w].pc = "fail"
        /\ UNCHANGED <<cases, run, conversation, rows, overlapped, halfway, expired>>
      BY <1>6, FailMoves, Moved, NotIdle DEF MarkRunning, AllRuns, dataset, history
  <2>2. UNCHANGED result
    <3>1. \/ UNCHANGED result
          \/ worker' = [worker EXCEPT ![w] = [@ EXCEPT !.pc = "converse", !.seen = "none"]]
        BY <1>6 DEF MarkRunning
    <3>2. [worker[w] EXCEPT !.pc = "converse", !.seen = "none"].pc = "converse" /\ worker \in [Workers -> WorkerRows]
        BY DEF AllRuns, TypeInv, WorkerRows
    <3>3. worker' = [worker EXCEPT ![w] = [@ EXCEPT !.pc = "converse", !.seen = "none"]] => worker'[w].pc = "converse"
        BY <3>2
    <3> QED BY <2>1, <3>1, <3>3
  <2> QED BY <1>6, <2>1, <2>2, FailKeeps, NotIdle
<1>7. ASSUME NEW w \in Workers, MissResult(w) PROVE \A q \in Runs : RunInv(q)'
  <2>1. /\ worker[w].pc = "gone"
        /\ Fail(w) \/ Retry(w)
        /\ UNCHANGED <<cases, run, result, conversation, rows, overlapped, halfway, expired>>
      BY <1>7 DEF MissResult, dataset
  <2> QED BY <1>7, <2>1, FailKeeps, NotIdle, EndKeeps
<1> QED BY <1>1, <1>2, <1>3, <1>4, <1>5, <1>6, <1>7, StartKeeps, ReadingKeeps, WorkKeeps, EndKeeps, CleanUpKeeps
    DEF Next, Execute

-----------------------------------------------------------------------------
IInv == AllRuns /\ BaselineInv

LEMMA Initially == Init => IInv
<1> SUFFICES ASSUME Init PROVE IInv
    OBVIOUS
<1>0. Zero \in Counts /\ 0 \in 0 .. MaxCases
    BY BoundsAreNaturals DEF Zero, Counts
<1>1. Absent \in Rows /\ Absent.status = "none" /\ Absent.total = 0 /\ Absent.baseline = Nil
      /\ NoResult \in ResultRows /\ NoResult.status = "none" /\ ~NoResult.collided /\ Idle \in WorkerRows
      /\ Idle.run = Nil
    BY <1>0, IdleRow DEF Absent, Rows, NoResult, ResultRows, CaseStatus, Idle
<1>2. TypeInv
    BY <1>0, <1>1, BoundsAreNaturals, RunnerIsConfiguredOrNot DEF Init, TypeInv
<1>3. PlaceInv
    BY <1>1, FS_EmptySet DEF Init, PlaceInv, Existing
<1>4. \A r \in Runs : RunInv(r)
    BY <1>1, NilIsNoRun DEF Init, RunInv, FreshInv
<1>5. BaselineInv
    BY <1>1, NilIsNoRun DEF Init, BaselineInv
<1> QED BY <1>2, <1>3, <1>4, <1>5 DEF IInv, AllRuns

LEMMA Inductive == IInv /\ [Next]_vars => IInv'
    BY TypeStep, PlaceStep, RunStep, BaselineStep DEF IInv, AllRuns

(* The rows of every run fit the step of its execution in every reachable   *)
(* state (service.py execute_run, _finish_run, runner.py _run_case).        *)
THEOREM InductiveInvariant == Spec => []IInv
    BY Initially, Inductive, PTL DEF Spec

(* What the services store, the broker holds and each worker has read is    *)
(* always of its type (evaluations/service.py, worker tasks/evaluations.py). *)
THEOREM TypeSafety == Spec => []TypeOK
<1>1. IInv => TypeOK
  <2> SUFFICES ASSUME TypeInv, PlaceInv PROVE TypeOK
      BY DEF IInv, AllRuns
  <2>1. ASSUME NEW w \in Workers, worker[w] # Idle
        PROVE /\ worker[w].run \in Existing /\ worker[w].retries \in 0 .. MaxRetries
              /\ worker[w].next \in 0 .. MaxCases + 1 /\ worker[w].last \in 0 .. MaxCases
              /\ worker[w].pc \in {"mark", "converse", "answer", "collided"} => worker[w].next \in CaseNumbers
    <3>1. worker[w] \in WorkerRows /\ worker[w].run \in Existing
          /\ (worker[w].pc \in InCase => worker[w].next \in 1 .. worker[w].last)
        BY <2>1 DEF TypeInv, PlaceInv
    <3>2. worker[w].last \in 0 .. MaxCases
        BY <3>1 DEF WorkerRows
    <3> QED BY <3>1, <3>2, BoundsAreNaturals DEF WorkerRows, InCase, CaseNumbers
  <2> QED BY <2>1 DEF TypeInv, TypeOK, ResultRows
<1> QED BY <1>1, InductiveInvariant, PTL

(* What a run is compared with keeps its aggregate metrics, whatever is     *)
(* executed again (service.py _resolve_baseline_run, _compare_with_baseline). *)
THEOREM BaselinesComparable == Spec => []BaselinesStayComparable
<1>1. IInv => BaselinesStayComparable
  <2> SUFFICES ASSUME TypeInv, BaselineInv, NEW r \in Existing, run[r].baseline # Nil
               PROVE rows[run[r].baseline] # {}
      BY DEF IInv, AllRuns, BaselinesStayComparable
  <2>1. run[r].baseline \in Runs /\ r \in Runs
      BY DEF TypeInv, Rows, Existing
  <2> QED BY <2>1 DEF BaselineInv
<1> QED BY <1>1, InductiveInvariant, PTL

(* A retried case never meets its own conversation, unless an execution     *)
(* ended without its clean-up or beside another (runner.py                  *)
(* _prepare_case_retry, _create_isolated_conversation).                     *)
THEOREM RetriesAreFresh == Spec => []RetriesStartAfresh
<1>1. IInv => RetriesStartAfresh
    BY DEF IInv, AllRuns, RunInv, FreshInv, RetriesStartAfresh
<1> QED BY <1>1, InductiveInvariant, PTL

(* A run that one worker at a time has executed and that has SUCCEEDED has  *)
(* one finish's aggregates and counts that add up; until its results are    *)
(* cleaned up, they are final and the counts are theirs (service.py         *)
(* _finish_run, _persist_aggregate_metrics, retention/service.py            *)
(* cleanup_expired_evaluation_details).                                     *)
THEOREM SuccessIsComplete == Spec => []SucceededRunsAreComplete
<1>1. IInv => SucceededRunsAreComplete
  <2> SUFFICES ASSUME IInv, NEW r \in Existing \ overlapped, run[r].status = "succeeded"
               PROVE /\ Cardinality(rows[r]) = 1
                     /\ run[r].count.completed = run[r].count.passed + run[r].count.failed
                     /\ r \notin expired =>
                           /\ Having(r, {"pending", "running"}) = {}
                           /\ 1 .. run[r].total \subseteq Having(r, Terminal)
                           /\ run[r].count.completed = Cardinality(Having(r, Terminal))
      BY DEF SucceededRunsAreComplete
  <2>1. r \in Runs /\ Finished(r) /\ CountsOf(r, run[r].count) /\ \E n : rows[r] = {n}
      BY DEF IInv, AllRuns, RunInv, Complete, Existing
  <2>2. Having(r, {"pending", "running"}) = {}
      BY <2>1 DEF Having, Finished, Final, Terminal
  <2>3. r \notin expired => 1 .. run[r].total \subseteq Having(r, Terminal)
    <3>1. run[r].total \in 0 .. MaxCases
        BY <2>1 DEF IInv, AllRuns, TypeInv, Rows
    <3>2. 1 .. run[r].total \subseteq CaseNumbers
        BY <3>1, BoundsAreNaturals DEF CaseNumbers
    <3> QED BY <2>1, <3>2 DEF Having, Finished, Settled, Final
  <2>4. Counted(r).completed = Cardinality(Having(r, Terminal))
      BY <2>1, CountedBalances DEF Finished, IInv, AllRuns
  <2>5. Cardinality(rows[r]) = 1
      BY <2>1, FS_Singleton
  <2> QED BY <2>1, <2>2, <2>3, <2>4, <2>5 DEF CountsOf, Balanced
<1> QED BY <1>1, InductiveInvariant, PTL

-----------------------------------------------------------------------------
(* The worker of a step that changes a result is at that case; only a       *)
(* clean-up changes others.                                                 *)
LEMMA ResultsChange ==
    ASSUME AllRuns, [Next]_vars
    PROVE  \/ UNCHANGED result
           \/ \E r \in Runs : CleanUp(r)
           \/ \E w \in Workers :
                 /\ worker[w] # Idle /\ worker[w].pc \in InCase
                 /\ \E x : result' = [result EXCEPT ![worker[w].run][worker[w].next] = x]
<1>1. ASSUME NEW w \in Workers, MarkRunning(w) \/ GradeCase(w) \/ FailCase(w) \/ RetryCase(w)
      PROVE \/ UNCHANGED result
            \/ /\ worker[w] # Idle /\ worker[w].pc \in InCase
               /\ \E x : result' = [result EXCEPT ![worker[w].run][worker[w].next] = x]
  <2>1. worker[w] # Idle /\ worker[w].pc \in InCase
      BY <1>1, AtCase
  <2>2. CASE MarkRunning(w)
    <3> DEFINE x == IF result[worker[w].run][worker[w].next].status = "none"
                    THEN [NoResult EXCEPT !.status = "running"]
                    ELSE [result[worker[w].run][worker[w].next] EXCEPT !.status = "running"]
    <3>1. UNCHANGED result \/ result' = [result EXCEPT ![worker[w].run][worker[w].next] = x]
        BY <2>2 DEF MarkRunning
    <3> HIDE DEF x
    <3> QED BY <2>1, <3>1
  <2>3. CASE GradeCase(w) \/ FailCase(w)
    <3>1. \E x : result' = [result EXCEPT ![worker[w].run][worker[w].next] = x]
        BY <2>3 DEF GradeCase, FailCase, EndCase
    <3> QED BY <2>1, <3>1
  <2>4. CASE RetryCase(w)
    <3> DEFINE x == [result[worker[w].run][worker[w].next] EXCEPT !.status = "pending"]
    <3>1. result' = [result EXCEPT ![worker[w].run][worker[w].next] = x]
        BY <2>4 DEF RetryCase
    <3> HIDE DEF x
    <3> QED BY <2>1, <3>1
  <2> QED BY <1>1, <2>2, <2>3, <2>4
<1>2. UNCHANGED result \/ (\E r \in Runs : CleanUp(r))
      \/ \E w \in Workers : MarkRunning(w) \/ GradeCase(w) \/ FailCase(w) \/ RetryCase(w)
    BY ZenonT(60) DEF Next, Api, Execute, CheckImport, Import, ImportConflicts, PrepareRun, CreateRun, Send, Skip, Start,
           StartFails, MissResult, ListCases, TakeCase, Converse, DatabaseFails, Abandon, ReadResults, Finish, FailRun, vars
<1> QED BY <1>1, <1>2

(* While one worker at a time executes a run, its success is never undone,  *)
(* and a final result is replaced by nothing but the clean-up of all its    *)
(* results (service.py execute_run, runner.py _run_case, retention/         *)
(* service.py cleanup_expired_evaluation_details).                          *)
THEOREM OutcomesAreKept == Spec => OutcomesStay
<1>1. ASSUME IInv, [Next]_vars, NEW r \in Existing \ overlapped'
      PROVE /\ run[r].status = "succeeded" => run'[r] = run[r] /\ rows'[r] = rows[r]
            /\ \/ \A c \in Having(r, Terminal) : result'[r][c] = result[r][c]
               \/ r \in expired' /\ \A c \in CaseNumbers : result'[r][c] = NoResult
  <2>0. AllRuns /\ TypeInv /\ PlaceInv /\ r \in Runs /\ RunInv(r)
      BY <1>1 DEF IInv, AllRuns, Existing
  <2>1. r \notin overlapped
    <3>1. overlapped \subseteq overlapped'
        BY ZenonT(60), <1>1 DEF Next, Api, Execute, CheckImport, Import, ImportConflicts, PrepareRun, CreateRun, Send, Skip, Start,
               StartFails, CleanUp, MissResult, ListCases, TakeCase, MarkRunning, Converse, GradeCase, FailCase, EndCase, RetryCase,
               DatabaseFails, Abandon, ReadResults, Finish, FailRun, vars, history
    <3> QED BY <1>1, <3>1
  <2>2. \A w \in Workers : worker[w].run = r => ExecutionOK(r, w)
      BY <2>0, <2>1 DEF RunInv
  <2>3. ASSUME run[r].status = "succeeded" PROVE rows'[r] = rows[r]
    <3>1. \A w \in Workers : worker[w].run # r
        BY <2>2, <2>3 DEF ExecutionOK
    <3> QED BY <1>1, <2>0, <3>1, RowsChange DEF TypeInv
  <2>4. ASSUME run[r].status = "succeeded" PROVE run'[r] = run[r]
    <3>1. \A w \in Workers : worker[w].run # r
        BY <2>2, <2>4 DEF ExecutionOK
    <3>2. ASSUME NEW q \in Runs, CreateRun(q) PROVE run'[r] = run[r]
        BY <2>0, <2>4, <3>2 DEF CreateRun, PlaceInv, TypeInv
    <3>3. ASSUME NEW w \in Workers, NEW m \in Messages, Start(w, m) PROVE run'[r] = run[r]
        BY <2>0, <2>4, <3>3 DEF Start, Startable, TypeInv
    <3>4. ASSUME NEW w \in Workers, Finish(w) \/ FailRun(w) PROVE run'[r] = run[r]
        BY <2>0, <3>1, <3>4 DEF Finish, FailRun, TypeInv
    <3>5. \/ UNCHANGED run \/ (\E q \in Runs : CreateRun(q))
          \/ (\E w \in Workers, m \in Messages : Start(w, m)) \/ (\E w \in Workers : Finish(w) \/ FailRun(w))
        BY ZenonT(60), <1>1 DEF Next, Api, Execute, CheckImport, Import, ImportConflicts, PrepareRun, Send, Skip, StartFails, CleanUp, MissResult,
               ListCases, TakeCase, MarkRunning, Converse, GradeCase, FailCase, EndCase, RetryCase, DatabaseFails,
               Abandon, ReadResults, vars
    <3> QED BY <3>2, <3>3, <3>4, <3>5
  <2>6. ASSUME NEW q \in Runs, CleanUp(q)
        PROVE \/ result'[r] = result[r]
              \/ r \in expired' /\ \A c \in CaseNumbers : result'[r][c] = NoResult
      BY <2>0, <2>6 DEF CleanUp, TypeInv
  <2>5. ASSUME NEW c \in Having(r, Terminal), \A q \in Runs : ~CleanUp(q) PROVE result'[r][c] = result[r][c]
    <3>1. c \in CaseNumbers /\ Final(r, c)
        BY <2>5 DEF Having, Final
    <3>2. CASE UNCHANGED result
        BY <3>2
    <3>3. ASSUME NEW w \in Workers, NEW x, worker[w] # Idle, worker[w].pc \in InCase,
                 result' = [result EXCEPT ![worker[w].run][worker[w].next] = x]
          PROVE result'[r][c] = result[r][c]
      <4>1. CASE worker[w].run = r
        <5>1. ~Final(r, worker[w].next)
            BY <2>2, <3>3, <4>1 DEF ExecutionOK, InCase, Final, Terminal
        <5>2. c # worker[w].next
            BY <3>1, <5>1
        <5>3. result \in [Runs -> [CaseNumbers -> ResultRows]]
            BY <2>0 DEF TypeInv
        <5> QED BY <2>0, <3>1, <3>3, <4>1, <5>2, <5>3
      <4>2. CASE worker[w].run # r
          BY <2>0, <3>3, <4>2 DEF TypeInv
      <4> QED BY <4>1, <4>2
    <3> QED BY <1>1, <2>0, <2>5, <3>2, <3>3, ResultsChange
  <2> QED BY <2>3, <2>4, <2>5, <2>6
<1>2. IInv /\ [Next]_vars =>
         [\A r \in Existing \ overlapped' :
            /\ run[r].status = "succeeded" => run'[r] = run[r] /\ rows'[r] = rows[r]
            /\ \/ \A c \in Having(r, Terminal) : result'[r][c] = result[r][c]
               \/ r \in expired' /\ \A c \in CaseNumbers : result'[r][c] = NoResult]_vars
    BY <1>1
<1> QED BY <1>2, InductiveInvariant, PTL DEF Spec, OutcomesStay
=============================================================================

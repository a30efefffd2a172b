-------------------------- MODULE Answering_proofs --------------------------
(***************************************************************************)
(* Proofs about Answering, for any finite sets of questions and documents  *)
(* and any retention periods.                                              *)
(***************************************************************************)
EXTENDS Answering, FiniteSetTheorems, TLAPS

USE DEF vars, library, requests, metrics, Days, Go, End, Active

Steps == {"idle", "vector", "keyword", "trace", "abstain", "select", "generate", "ended"}

RetrievalRows == [exists : BOOLEAN, day : Days, records : SUBSET AllChunks,
                  selected : SUBSET AllChunks, count : Nat]
AnswerRows == [status : {"none", "completed", "failed"}, day : Days,
               answerability : Answerabilities \cup {"null"}, cited : SUBSET AllChunks]

(* The types of rows and requests; a document is ingested again at most as *)
(* often as something changes.                                             *)
TypeInv ==
    /\ day \in Days /\ changes \in 0 .. MaxChanges
    /\ generation \in [Documents -> Nat] /\ \A d \in Documents : generation[d] <= changes
    /\ readable \subseteq Documents
    /\ step \in [Questions -> Steps] /\ started \in [Questions -> Days]
    /\ found \in [Questions -> SUBSET AllChunks]
    /\ visible \in [Questions -> SUBSET Documents] /\ sent \in [Questions -> SUBSET AllChunks]
    /\ retrieval \in [Questions -> RetrievalRows] /\ answer \in [Questions -> AnswerRows]
    /\ message \subseteq Questions

LEMMA ZeroIsADay == 0 \in Days /\ \A t \in Days : t \in Nat
BY RetentionIsPositive

LEMMA AllChunksAreFinite == IsFiniteSet(AllChunks)
<1>1. IsFiniteSet(0 .. MaxChanges)
    BY FS_Interval, RetentionIsPositive
<1> QED BY <1>1, FS_Product, RequestsAreFinite DEF AllChunks

LEMMA ChunksAreTyped ==
    ASSUME TypeInv PROVE Chunks \subseteq AllChunks /\ Retrievable \subseteq AllChunks
BY RetentionIsPositive DEF TypeInv, Chunks, AllChunks, Retrievable

LEMMA TypeStep == TypeInv /\ [Next]_vars => TypeInv'
<1> SUFFICES ASSUME TypeInv, [Next]_vars PROVE TypeInv'
    OBVIOUS
<1> USE RetentionIsPositive, ZeroIsADay
<1> /\ Chunks \subseteq AllChunks /\ Retrievable \subseteq AllChunks
    BY ChunksAreTyped
<1>1. ASSUME NEW q \in Questions, Ask(q) PROVE TypeInv'
    BY <1>1 DEF Ask, TypeInv, Steps
<1>2. ASSUME NEW q \in Questions, VectorSearch(q) PROVE TypeInv'
    BY <1>2 DEF VectorSearch, TypeInv, Steps
<1>3. ASSUME NEW q \in Questions, KeywordSearch(q) PROVE TypeInv'
    BY <1>3 DEF KeywordSearch, TypeInv, Steps
<1>4. ASSUME NEW q \in Questions, Trace(q) PROVE TypeInv'
    BY <1>4 DEF Trace, TypeInv, Steps, RetrievalRows
<1>5. ASSUME NEW q \in Questions, Select(q) PROVE TypeInv'
  <2> PICK S \in (SUBSET found[q]) \ {{}} :
          /\ found' = [found EXCEPT ![q] = S] /\ sent' = [sent EXCEPT ![q] = S]
          /\ retrieval' = [retrieval EXCEPT ![q] =
                 [@ EXCEPT !.selected = Marked(q, S), !.count = Cardinality(S)]]
      BY <1>5 DEF Select
  <2>1. S \in SUBSET AllChunks /\ Cardinality(S) \in Nat
      BY AllChunksAreFinite, FS_Subset, FS_CardinalityType DEF TypeInv
  <2>2. [retrieval[q] EXCEPT !.selected = Marked(q, S), !.count = Cardinality(S)] \in RetrievalRows
      BY ZenonT(60), <2>1 DEF TypeInv, RetrievalRows, Marked
  <2>3. retrieval' \in [Questions -> RetrievalRows]
      BY <2>2 DEF TypeInv
  <2> QED BY <1>5, <2>1, <2>3 DEF Select, TypeInv, Steps
<1>6. ASSUME NEW q \in Questions, NEW a \in Answerabilities, NEW cited \in SUBSET AllChunks,
             Save(q, a, cited)
      PROVE TypeInv'
    BY <1>6 DEF Save, TypeInv, Steps, AnswerRows
<1>7. ASSUME NEW q \in Questions, RecordFailure(q) PROVE TypeInv'
    BY <1>7 DEF RecordFailure, TypeInv, Steps, AnswerRows, NoAnswer
<1>8. ASSUME NEW q \in Questions, Interrupt(q) PROVE TypeInv'
    BY <1>8 DEF Interrupt, TypeInv, Steps
<1>9. ASSUME NEW d \in Documents, Ingest(d) PROVE TypeInv'
  <2>1. retrieval' \in [Questions -> RetrievalRows]
      BY ZenonT(60), <1>9 DEF Ingest, TypeInv, RetrievalRows
  <2>2. answer' \in [Questions -> AnswerRows]
      BY ZenonT(60), <1>9 DEF Ingest, TypeInv, AnswerRows
  <2>3. /\ changes' \in 0 .. MaxChanges /\ generation' \in [Documents -> Nat]
        /\ \A e \in Documents : generation'[e] <= changes'
    <3>1. /\ changes < MaxChanges /\ changes' = changes + 1
          /\ generation' = [generation EXCEPT ![d] = @ + 1]
        BY <1>9 DEF Ingest
    <3>2. /\ changes \in 0 .. MaxChanges /\ generation \in [Documents -> Nat]
          /\ \A e \in Documents : generation[e] <= changes
        BY DEF TypeInv
    <3> QED BY <3>1, <3>2
  <2>4. UNCHANGED <<day, readable, step, started, found, visible, sent, message>>
      BY <1>9 DEF Ingest
  <2> QED BY <2>1, <2>2, <2>3, <2>4 DEF TypeInv
<1>10. ASSUME NEW d \in Documents, ChangePermission(d) PROVE TypeInv'
    BY <1>10 DEF ChangePermission, TypeInv
<1>11. CASE Tick
    BY <1>11 DEF Tick, TypeInv
<1>12. CASE CleanRetrievals
  <2> PICK E \in SUBSET Questions : retrieval' = [q \in Questions |->
             IF q \notin E THEN retrieval[q] ELSE IF Unreferenced(q) THEN NoRetrieval
             ELSE [retrieval[q] EXCEPT !.records = {}, !.selected = {}]]
      BY <1>12 DEF CleanRetrievals
  <2>1. NoRetrieval \in RetrievalRows
      BY DEF NoRetrieval, RetrievalRows
  <2>2. \A q \in Questions : [retrieval[q] EXCEPT !.records = {}, !.selected = {}] \in RetrievalRows
      BY ZenonT(60) DEF TypeInv, RetrievalRows
  <2>3. retrieval' \in [Questions -> RetrievalRows]
      BY <2>1, <2>2 DEF TypeInv
  <2> QED BY <1>12, <2>3 DEF CleanRetrievals, TypeInv
<1>13. CASE CleanAnswers
    BY <1>13 DEF CleanAnswers, TypeInv, AnswerRows, NoAnswer
<1>14. ASSUME NEW t \in Days, ReadDate(t) PROVE TypeInv'
    BY <1>14 DEF ReadDate, TypeInv
<1>15. CASE WriteDate
    BY <1>15 DEF WriteDate, TypeInv
<1>16. CASE UNCHANGED vars
    BY <1>16 DEF TypeInv
<1>17. ASSUME NEW q \in Questions, Abstain(q) PROVE TypeInv'
    BY <1>6, <1>17 DEF Abstain, Answerabilities
<1>18. ASSUME NEW q \in Questions, Generate(q) PROVE TypeInv'
  <2>1. Named \subseteq AllChunks
      BY DEF Named, TypeInv
  <2> QED BY <1>6, <1>18, <2>1 DEF Generate
<1> QED
    BY <1>1, <1>2, <1>3, <1>4, <1>5, <1>7, <1>8, <1>9, <1>10, <1>11, <1>12, <1>13, <1>14, <1>15,
       <1>16, <1>17, <1>18 DEF Next, Request

-----------------------------------------------------------------------------
(* What a request holds was readable while it ran, and what it saved cites *)
(* only that.                                                              *)
PassageInv ==
    \A q \in Questions :
        /\ Active(q) => readable \subseteq visible[q]
        /\ step[q] \in {"keyword", "trace", "select", "generate"} =>
              DocumentsOf(found[q]) \subseteq visible[q]
        /\ step[q] = "generate" => found[q] = sent[q]
        /\ step[q] = "idle" => sent[q] = {}
        /\ DocumentsOf(sent[q]) \subseteq visible[q]
        /\ step[q] # "ended" => answer[q] = NoAnswer
        /\ answer[q].cited \subseteq sent[q] \cap Chunks

LEMMA PassageStep == TypeInv /\ PassageInv /\ [Next]_vars => PassageInv'
<1> SUFFICES ASSUME TypeInv, PassageInv, [Next]_vars PROVE PassageInv'
    OBVIOUS
<1>0. DocumentsOf(Retrievable) \subseteq readable
    BY DEF DocumentsOf, Doc, Retrievable
<1>1. ASSUME NEW q \in Questions, Ask(q) PROVE PassageInv'
    BY <1>1 DEF Ask, TypeInv, PassageInv, Steps, Chunks, DocumentsOf
<1>2. ASSUME NEW q \in Questions, VectorSearch(q) PROVE PassageInv'
    BY <1>0, <1>2 DEF VectorSearch, TypeInv, PassageInv, Steps, Chunks, DocumentsOf
<1>3. ASSUME NEW q \in Questions, KeywordSearch(q) PROVE PassageInv'
    BY <1>0, <1>3 DEF KeywordSearch, TypeInv, PassageInv, Steps, Chunks, DocumentsOf
<1>4. ASSUME NEW q \in Questions, Trace(q) PROVE PassageInv'
    BY <1>4 DEF Trace, TypeInv, PassageInv, Steps, Chunks
<1>5. ASSUME NEW q \in Questions, Select(q) PROVE PassageInv'
    BY <1>5 DEF Select, TypeInv, PassageInv, Steps, Chunks, DocumentsOf, NoAnswer
<1>6. ASSUME NEW q \in Questions, NEW a, NEW cited, Save(q, a, cited), cited \subseteq sent[q],
             step[q] # "ended"
      PROVE PassageInv'
    BY <1>6 DEF Save, TypeInv, PassageInv, Steps, Chunks
<1>7. ASSUME NEW q \in Questions, RecordFailure(q) PROVE PassageInv'
    BY <1>7 DEF RecordFailure, TypeInv, PassageInv, Steps, NoAnswer, Chunks
<1>8. ASSUME NEW q \in Questions, Interrupt(q) PROVE PassageInv'
    BY <1>8 DEF Interrupt, TypeInv, PassageInv, Steps, Chunks
<1>9. ASSUME NEW d \in Documents, Ingest(d) PROVE PassageInv'
  <2>1. UNCHANGED <<readable, step, found, visible, sent>>
      BY <1>9 DEF Ingest
  <2>2. ASSUME NEW q \in Questions, step[q] # "ended" PROVE answer'[q] = NoAnswer
    <3>1. answer[q] = NoAnswer
        BY <2>1, <2>2 DEF PassageInv
    <3>2. answer'[q] = [NoAnswer EXCEPT !.cited = @ \ {<<d, generation[d]>>}]
        BY <1>9, <3>1 DEF Ingest
    <3> QED BY <3>2 DEF NoAnswer
  <2>3. ASSUME NEW q \in Questions PROVE answer'[q].cited \subseteq sent[q] \cap Chunks'
    <3>1. answer'[q].cited = answer[q].cited \ {<<d, generation[d]>>}
        BY ZenonT(60), <1>9 DEF Ingest, TypeInv, AnswerRows
    <3>2. Chunks \ {<<d, generation[d]>>} \subseteq Chunks'
        BY <1>9 DEF Ingest, Chunks, TypeInv
    <3> QED BY <3>1, <3>2 DEF PassageInv
  <2> QED BY <2>1, <2>2, <2>3 DEF PassageInv
<1>10. ASSUME NEW d \in Documents, ChangePermission(d) PROVE PassageInv'
    BY <1>10 DEF ChangePermission, TypeInv, PassageInv, Chunks
<1>11. CASE Tick
    BY <1>11 DEF Tick, PassageInv, Chunks
<1>12. CASE CleanRetrievals
  <2>1. UNCHANGED <<library, requests, answer>>
      BY <1>12 DEF CleanRetrievals
  <2> QED BY <2>1 DEF PassageInv, Chunks
<1>13. CASE CleanAnswers
    BY <1>13 DEF CleanAnswers, PassageInv, NoAnswer, Chunks
<1>14. ASSUME NEW t \in Days, ReadDate(t) PROVE PassageInv'
    BY <1>14 DEF ReadDate, PassageInv, Chunks
<1>15. CASE WriteDate
    BY <1>15 DEF WriteDate, PassageInv, Chunks
<1>16. CASE UNCHANGED vars
    BY <1>16 DEF PassageInv, Chunks
<1>17. ASSUME NEW q \in Questions, Abstain(q) PROVE PassageInv'
    BY <1>6, <1>17 DEF Abstain
<1>18. ASSUME NEW q \in Questions, Generate(q) PROVE PassageInv'
    BY <1>6, <1>18 DEF Generate, Valid, PassageInv
<1> QED
    BY <1>1, <1>2, <1>3, <1>4, <1>5, <1>7, <1>8, <1>9, <1>10, <1>11, <1>12, <1>13, <1>14, <1>15,
       <1>16, <1>17, <1>18 DEF Next, Request

-----------------------------------------------------------------------------
(* A request lasts less than two dates, so that its retrieval run has not  *)
(* expired when its answer refers to it.                                   *)
TraceInv ==
    \A q \in Questions :
        /\ Active(q) => started[q] <= day /\ day <= started[q] + 1
        /\ step[q] \in {"abstain", "select", "generate"} =>
              retrieval[q].exists /\ started[q] <= retrieval[q].day
        /\ answer[q].status # "none" => retrieval[q].exists
        /\ answer[q].status = "completed" => q \in message

LEMMA TraceStep == TypeInv /\ PassageInv /\ TraceInv /\ [Next]_vars => TraceInv'
<1> SUFFICES ASSUME TypeInv, PassageInv, TraceInv, [Next]_vars PROVE TraceInv'
    OBVIOUS
<1> USE RetentionIsPositive
<1>1. ASSUME NEW q \in Questions, Ask(q) PROVE TraceInv'
    BY <1>1 DEF Ask, TypeInv, TraceInv, Steps
<1>2. ASSUME NEW q \in Questions, VectorSearch(q) PROVE TraceInv'
    BY <1>2 DEF VectorSearch, TypeInv, TraceInv, Steps
<1>3. ASSUME NEW q \in Questions, KeywordSearch(q) PROVE TraceInv'
    BY <1>3 DEF KeywordSearch, TypeInv, TraceInv, Steps
<1>4. ASSUME NEW q \in Questions, Trace(q) PROVE TraceInv'
    BY <1>4 DEF Trace, TypeInv, TraceInv, Steps
<1>5. ASSUME NEW q \in Questions, Select(q) PROVE TraceInv'
  <2>1. PICK S : retrieval' = [retrieval EXCEPT ![q] =
                     [@ EXCEPT !.selected = Marked(q, S), !.count = Cardinality(S)]]
      BY <1>5 DEF Select
  <2>2. \A p \in Questions : retrieval'[p].exists = retrieval[p].exists
                              /\ retrieval'[p].day = retrieval[p].day
      BY <2>1 DEF TypeInv, RetrievalRows
  <2>3. /\ step[q] = "select" /\ step' = [step EXCEPT ![q] = "generate"]
        /\ UNCHANGED <<day, started, answer, message>>
      BY <1>5 DEF Select
  <2> QED BY <2>2, <2>3 DEF TypeInv, TraceInv, Steps
<1>6. ASSUME NEW q \in Questions, NEW a, NEW cited, Save(q, a, cited),
             step[q] \in {"abstain", "generate"}
      PROVE TraceInv'
    BY <1>6 DEF Save, TypeInv, TraceInv, Steps
<1>7. ASSUME NEW q \in Questions, RecordFailure(q) PROVE TraceInv'
    BY <1>7 DEF RecordFailure, TypeInv, TraceInv, Steps, NoAnswer
<1>8. ASSUME NEW q \in Questions, Interrupt(q) PROVE TraceInv'
    BY <1>8 DEF Interrupt, TypeInv, TraceInv, Steps
<1>9. ASSUME NEW d \in Documents, Ingest(d) PROVE TraceInv'
  <2>1. \A q \in Questions : retrieval'[q].exists = retrieval[q].exists
            /\ retrieval'[q].day = retrieval[q].day /\ answer'[q].status = answer[q].status
      BY ZenonT(60), <1>9 DEF Ingest, TypeInv, RetrievalRows, AnswerRows
  <2>2. UNCHANGED <<day, step, started, message>>
      BY <1>9 DEF Ingest
  <2> QED BY <2>1, <2>2 DEF TraceInv
<1>10. ASSUME NEW d \in Documents, ChangePermission(d) PROVE TraceInv'
    BY <1>10 DEF ChangePermission, TraceInv
<1>11. CASE Tick
    BY <1>11 DEF Tick, TypeInv, TraceInv
<1>12. CASE CleanRetrievals
  <2>1. UNCHANGED <<day, requests, answer, message>>
      BY <1>12 DEF CleanRetrievals
  <2>2. ASSUME NEW q \in Questions, retrieval[q].exists,
               \/ answer[q].status # "none"
               \/ Active(q) /\ ~Expired(retrieval[q].day, RetrievalDays)
        PROVE retrieval'[q].exists /\ retrieval'[q].day = retrieval[q].day
    <3> PICK E \in SUBSET Questions :
            /\ \A p \in E : retrieval[p].exists /\ (Active(p) => Expired(retrieval[p].day, RetrievalDays))
            /\ retrieval' = [p \in Questions |->
                   IF p \notin E THEN retrieval[p] ELSE IF Unreferenced(p) THEN NoRetrieval
                   ELSE [retrieval[p] EXCEPT !.records = {}, !.selected = {}]]
        BY <1>12 DEF CleanRetrievals
    <3>1. retrieval'[q] = retrieval[q]
          \/ retrieval'[q] = [retrieval[q] EXCEPT !.records = {}, !.selected = {}]
        BY <2>2 DEF Unreferenced
    <3>2. retrieval[q] \in RetrievalRows
        BY DEF TypeInv
    <3>3. \A r \in RetrievalRows : LET s == [r EXCEPT !.records = {}, !.selected = {}]
                                   IN  s.exists = r.exists /\ s.day = r.day
        BY DEF RetrievalRows
    <3> QED BY <2>2, <3>1, <3>2, <3>3
  <2>3. ASSUME NEW q \in Questions, step[q] \in {"abstain", "select", "generate"}
        PROVE ~Expired(retrieval[q].day, RetrievalDays)
      BY <2>3 DEF TraceInv, TypeInv, RetrievalRows, Expired
  <2> QED BY <2>1, <2>2, <2>3 DEF TraceInv
<1>13. CASE CleanAnswers
    BY <1>13 DEF CleanAnswers, TraceInv, NoAnswer
<1>14. ASSUME NEW t \in Days, ReadDate(t) PROVE TraceInv'
    BY <1>14 DEF ReadDate, TraceInv
<1>15. CASE WriteDate
    BY <1>15 DEF WriteDate, TraceInv
<1>16. CASE UNCHANGED vars
    BY <1>16 DEF TraceInv
<1>17. ASSUME NEW q \in Questions, Abstain(q) PROVE TraceInv'
    BY <1>6, <1>17 DEF Abstain
<1>18. ASSUME NEW q \in Questions, Generate(q) PROVE TraceInv'
    BY <1>6, <1>18 DEF Generate
<1> QED
    BY <1>1, <1>2, <1>3, <1>4, <1>5, <1>7, <1>8, <1>9, <1>10, <1>11, <1>12, <1>13, <1>14, <1>15,
       <1>16, <1>17, <1>18 DEF Next, Request

-----------------------------------------------------------------------------
(* The counts of a date depend on the outcomes of its runs alone.          *)
Unanswered == <<"none", "null">>
Outcome(t) == [q \in Questions |->
    IF answer[q].status # "none" /\ answer[q].day = t
    THEN <<answer[q].status, answer[q].answerability>> ELSE Unanswered]

Having(o, s, A) == {q \in Questions : o[q][1] = s /\ o[q][2] \in A}
RunsOf(o)   == {q \in Questions : o[q] # Unanswered}
CountsOf(o) ==
    [queries |-> Cardinality(Having(o, "completed", Answerabilities) \cup Having(o, "failed", {"null"})),
     answers |-> Cardinality(Having(o, "completed", Answered)),
     abstentions |-> Cardinality(Having(o, "completed", {"not_found"})),
     failures |-> Cardinality(Having(o, "failed", {"null"}))]

Outcomes == [Questions -> {Unanswered, <<"failed", "null">>} \cup {<<"completed", a>> : a \in Answerabilities}]

(* Every recorded run has an outcome. *)
OutcomeInv ==
    \A q \in Questions :
        /\ answer[q].status = "completed" => answer[q].answerability \in Answerabilities
        /\ answer[q].status = "failed" => answer[q].answerability = "null"

LEMMA SubsetsOfQuestions ==
    ASSUME NEW S, S \subseteq Questions
    PROVE  IsFiniteSet(S) /\ Cardinality(S) \in Nat /\ Cardinality(S) <= Cardinality(Questions)
<1>1. IsFiniteSet(S) /\ Cardinality(S) <= Cardinality(Questions)
    BY FS_Subset, RequestsAreFinite
<1> QED BY <1>1, FS_CardinalityType

LEMMA DisjointUnion ==
    ASSUME NEW S, NEW T, S \subseteq Questions, T \subseteq Questions, S \cap T = {}
    PROVE  Cardinality(S \cup T) = Cardinality(S) + Cardinality(T)
<1>1. IsFiniteSet(S) /\ IsFiniteSet(T)
    BY SubsetsOfQuestions
<1>2. Cardinality(S \cup T) = Cardinality(S) + Cardinality(T) - Cardinality(S \cap T)
    BY <1>1, FS_Union
<1>3. Cardinality({}) = 0
    BY FS_EmptySet
<1>4. Cardinality(S) \in Nat /\ Cardinality(T) \in Nat
    BY SubsetsOfQuestions
<1>5. Cardinality(S \cap T) = 0
    BY <1>3
<1> QED BY <1>2, <1>4, <1>5

LEMMA CountsAddUp ==
    ASSUME NEW o \in Outcomes
    PROVE  /\ CountsOf(o) \in Metrics
           /\ CountsOf(o).queries = Cardinality(RunsOf(o))
           /\ CountsOf(o).queries =
                 CountsOf(o).answers + CountsOf(o).abstentions + CountsOf(o).failures
<1> DEFINE C == Having(o, "completed", Answerabilities)
           F == Having(o, "failed", {"null"})
           Y == Having(o, "completed", Answered)
           N == Having(o, "completed", {"not_found"})
<1>1. C \subseteq Questions /\ F \subseteq Questions /\ Y \subseteq Questions /\ N \subseteq Questions
    BY DEF Having
<1>2. C = Y \cup N /\ Y \cap N = {}
    BY DEF Having, Answered, Answerabilities
<1>3. C \cap F = {}
    BY DEF Having
<1>4. C \cup F = RunsOf(o)
  <2>1. ASSUME NEW q \in Questions PROVE q \in C \cup F <=> q \in RunsOf(o)
    <3>1. \/ o[q] = Unanswered \/ o[q] = <<"failed", "null">>
          \/ \E a \in Answerabilities : o[q] = <<"completed", a>>
        BY DEF Outcomes
    <3> QED BY <3>1 DEF Having, RunsOf, Unanswered
  <2> QED BY <2>1, <1>1 DEF RunsOf
<1>5. Cardinality(C) = Cardinality(Y) + Cardinality(N)
    BY <1>1, <1>2, DisjointUnion
<1>6. Cardinality(C \cup F) = Cardinality(C) + Cardinality(F)
    BY <1>1, <1>3, DisjointUnion
<1>7. /\ CountsOf(o).queries = Cardinality(C \cup F) /\ CountsOf(o).answers = Cardinality(Y)
      /\ CountsOf(o).abstentions = Cardinality(N) /\ CountsOf(o).failures = Cardinality(F)
    BY DEF CountsOf
<1>8. CountsOf(o) \in Metrics
  <2>1. /\ Cardinality(C \cup F) \in 0 .. Cardinality(Questions)
        /\ Cardinality(Y) \in Nat /\ Cardinality(N) \in Nat /\ Cardinality(F) \in Nat
      BY <1>1, SubsetsOfQuestions, RequestsAreFinite, FS_CardinalityType
  <2> HIDE DEF C, F, Y, N
  <2> QED BY <2>1 DEF CountsOf, Metrics, C, F, Y, N
<1> HIDE DEF C, F, Y, N
<1> QED BY <1>4, <1>5, <1>6, <1>7, <1>8

LEMMA CountsAreOutcomes ==
    ASSUME TypeInv, TraceInv, OutcomeInv, NEW t \in Days
    PROVE  /\ Outcome(t) \in Outcomes
           /\ Counted(t) = CountsOf(Outcome(t))
           /\ Overview(t) = CountsOf(Outcome(t))
<1>1. Outcome(t) \in Outcomes
    BY DEF Outcome, Outcomes, OutcomeInv, TypeInv, AnswerRows
<1>2. ASSUME NEW s \in {"completed", "failed"}, NEW A
      PROVE Of(t, s, A) = Having(Outcome(t), s, A)
    BY <1>2 DEF Of, Having, Outcome, Unanswered, TraceInv
<1>3. Counted(t) = CountsOf(Outcome(t))
    BY <1>2 DEF Counted, CountsOf
<1> DEFINE runs == {q \in Questions : answer[q].status # "none" /\ answer[q].day = t /\ retrieval[q].exists}
<1>4. runs = Having(Outcome(t), "completed", Answerabilities) \cup Having(Outcome(t), "failed", {"null"})
    BY DEF Having, Outcome, Unanswered, TraceInv, OutcomeInv, TypeInv, AnswerRows
<1>5. {q \in runs : answer[q].status = "completed" /\ answer[q].answerability \in Answered}
         = Having(Outcome(t), "completed", Answered)
    BY DEF Having, Outcome, Unanswered, TraceInv
<1>6. {q \in runs : answer[q].status = "completed" /\ answer[q].answerability = "not_found"}
         = Having(Outcome(t), "completed", {"not_found"})
    BY DEF Having, Outcome, Unanswered, TraceInv
<1>7. {q \in runs : answer[q].status = "failed"} = Having(Outcome(t), "failed", {"null"})
    BY DEF Having, Outcome, Unanswered, TraceInv, OutcomeInv
<1>8. Overview(t) = [queries |-> Cardinality(runs),
          answers |-> Cardinality({q \in runs : answer[q].status = "completed" /\ answer[q].answerability \in Answered}),
          abstentions |-> Cardinality({q \in runs : answer[q].status = "completed" /\ answer[q].answerability = "not_found"}),
          failures |-> Cardinality({q \in runs : answer[q].status = "failed"})]
    BY DEF Overview
<1>9. Overview(t) = CountsOf(Outcome(t))
  <2> HIDE DEF runs
  <2> QED BY <1>4, <1>5, <1>6, <1>7, <1>8 DEF CountsOf
<1> QED BY <1>1, <1>3, <1>9

-----------------------------------------------------------------------------
(* The runs of a date that have not expired are all there; what has been   *)
(* counted after the date is what the runs still say.                      *)
Ended == {q \in Questions : step[q] = "ended"}
RunsOn(t) == {q \in Questions : answer[q].status # "none" /\ answer[q].day = t}

Complete(n, t) ==
    /\ n.queries = total[t]
    /\ n.queries = n.answers + n.abstentions + n.failures
    /\ day < t + AnswerDays => n = CountsOf(Outcome(t))

Counts == [on : BOOLEAN, date : Days, counts : Metrics, at : Days]

CountInv ==
    /\ OutcomeInv
    /\ total \in [Days -> Nat] /\ \A t \in Days : total[t] <= Cardinality(Ended)
    /\ \A t \in Days : day < t + AnswerDays => total[t] = Cardinality(RunsOn(t))
    /\ daily \in [Days -> Metrics] /\ readOn \in [Days -> Days]
    /\ rebuild \in Counts
    /\ \A t \in Days : readOn[t] <= day
    /\ \A t \in Days : readOn[t] > t /\ readOn[t] < t + AnswerDays => Complete(daily[t], t)
    /\ rebuild.on => /\ rebuild.at <= day
                     /\ rebuild.at > rebuild.date /\ rebuild.at < rebuild.date + AnswerDays =>
                           Complete(rebuild.counts, rebuild.date)

(* A step leaves the outcomes of a date and its total alone, or it records *)
(* a run on the current date and ends its request.                         *)
Records(q) ==
    /\ q \in Questions /\ step[q] # "ended" /\ step' = [step EXCEPT ![q] = "ended"]
    /\ day' = day /\ total' = [total EXCEPT ![day] = @ + 1]
    /\ answer' = [answer EXCEPT ![q] = answer'[q]]
    /\ answer'[q].status # "none" /\ answer'[q].day = day
    /\ UNCHANGED metrics

LEMMA EachStepRecords ==
    ASSUME TypeInv, PassageInv, [Next]_vars
    PROVE  \/ \E q \in Questions : Records(q)
           \/ /\ total' = total /\ day <= day' /\ Ended \subseteq Ended'
              /\ \A t \in Days : day' < t + AnswerDays => Outcome(t)' = Outcome(t) /\ RunsOn(t)' = RunsOn(t)
<1> USE RetentionIsPositive
<1> DEFINE Quiet == /\ total' = total /\ day <= day' /\ Ended \subseteq Ended'
                    /\ \A t \in Days : day' < t + AnswerDays =>
                           Outcome(t)' = Outcome(t) /\ RunsOn(t)' = RunsOn(t)
<1>0. ASSUME UNCHANGED <<day, answer, total>>, Ended \subseteq Ended' PROVE Quiet
    BY <1>0 DEF Outcome, RunsOn, TypeInv
<1>1. ASSUME NEW q \in Questions, step[q] # "ended", NEW s, step' = [step EXCEPT ![q] = s]
      PROVE Ended \subseteq Ended'
    BY <1>1 DEF Ended, TypeInv
<1>2. ASSUME NEW q \in Questions, NEW a, NEW cited, step[q] # "ended", Save(q, a, cited)
      PROVE Records(q)
    BY <1>2 DEF Save, Records, TypeInv
<1>3. ASSUME NEW q \in Questions, RecordFailure(q) PROVE Records(q)
    BY <1>3 DEF RecordFailure, Records, TypeInv, NoAnswer
<1>4. ASSUME NEW q \in Questions,
             Ask(q) \/ VectorSearch(q) \/ KeywordSearch(q) \/ Trace(q) \/ Select(q) \/ Interrupt(q)
      PROVE Quiet
  <2>1. UNCHANGED <<day, answer, total>> /\ step[q] # "ended" /\ \E s : step' = [step EXCEPT ![q] = s]
      BY <1>4 DEF Ask, VectorSearch, KeywordSearch, Trace, Select, Interrupt
  <2> QED BY <2>1, <1>0, <1>1
<1>5. ASSUME NEW d \in Documents, Ingest(d) PROVE Quiet
  <2>1. UNCHANGED <<day, step, total>>
      BY <1>5 DEF Ingest
  <2>2. \A q \in Questions : /\ answer'[q].status = answer[q].status
                             /\ answer'[q].day = answer[q].day
                             /\ answer'[q].answerability = answer[q].answerability
      BY <1>5 DEF Ingest, TypeInv, AnswerRows
  <2>3. \A t : Outcome(t)' = Outcome(t) /\ RunsOn(t)' = RunsOn(t)
      BY <2>2 DEF Outcome, RunsOn
  <2> QED BY <2>1, <2>3 DEF Ended, TypeInv
<1>6. CASE Tick
  <2>1. UNCHANGED <<step, answer, total>> /\ day' = day + 1
      BY <1>6 DEF Tick
  <2> QED BY <2>1 DEF Ended, Outcome, RunsOn, TypeInv
<1>7. CASE CleanAnswers
  <2>1. UNCHANGED <<step, day, total>>
      BY <1>7 DEF CleanAnswers
  <2>2. \A q \in Questions : \/ answer'[q] = answer[q]
                             \/ answer'[q] = NoAnswer /\ answer[q].day + AnswerDays <= day
    <3> PICK E \in SUBSET Questions :
            /\ \A q \in E : Expired(answer[q].day, AnswerDays) \/ Expiring(answer[q].day, AnswerDays)
            /\ answer' = [q \in Questions |-> IF q \in E THEN NoAnswer ELSE answer[q]]
        BY <1>7 DEF CleanAnswers
    <3> QED BY DEF Expired, Expiring, TypeInv, AnswerRows
  <2>3. ASSUME NEW t \in Days, day < t + AnswerDays
        PROVE Outcome(t)' = Outcome(t) /\ RunsOn(t)' = RunsOn(t)
    <3>1. \A q \in Questions : answer[q].day = t => answer'[q] = answer[q]
        BY <2>2, <2>3 DEF TypeInv, AnswerRows
    <3>2. \A q \in Questions : answer'[q].status # "none" => answer'[q] = answer[q]
        BY <2>2 DEF NoAnswer
    <3> QED BY <3>1, <3>2 DEF Outcome, RunsOn
  <2> QED BY <2>1, <2>3 DEF Ended, TypeInv
<1>8. ASSUME \/ \E d \in Documents : ChangePermission(d)
             \/ CleanRetrievals \/ \E t \in Days : ReadDate(t)
             \/ WriteDate \/ UNCHANGED vars
      PROVE Quiet
  <2>1. UNCHANGED <<day, answer, total, step>>
      BY <1>8 DEF ChangePermission, CleanRetrievals, ReadDate, WriteDate
  <2> QED BY <2>1, <1>0 DEF Ended
<1>9. ASSUME NEW q \in Questions, Abstain(q) \/ Generate(q) PROVE Records(q)
    BY <1>2, <1>9 DEF Abstain, Generate
<1> QED BY <1>3, <1>4, <1>5, <1>6, <1>7, <1>8, <1>9 DEF Next, Request

LEMMA EndedIsFinite == Ended \subseteq Questions /\ Ended' \subseteq Questions
BY DEF Ended

(* The outcome of a recorded run is one of those the metrics count.        *)
LEMMA OutcomeStep == TypeInv /\ PassageInv /\ OutcomeInv /\ [Next]_vars => OutcomeInv'
<1> SUFFICES ASSUME TypeInv, PassageInv, OutcomeInv, [Next]_vars PROVE OutcomeInv'
    OBVIOUS
<1>1. ASSUME UNCHANGED answer PROVE OutcomeInv'
    BY <1>1 DEF OutcomeInv
<1>2. ASSUME NEW q \in Questions, NEW a \in Answerabilities, NEW cited, Save(q, a, cited)
      PROVE OutcomeInv'
    BY <1>2 DEF Save, OutcomeInv, TypeInv
<1>3. ASSUME NEW q \in Questions, RecordFailure(q) PROVE OutcomeInv'
    BY <1>3 DEF RecordFailure, OutcomeInv, TypeInv, NoAnswer
<1>4. ASSUME NEW d \in Documents, Ingest(d) PROVE OutcomeInv'
  <2>1. \A q \in Questions : /\ answer'[q].status = answer[q].status
                             /\ answer'[q].answerability = answer[q].answerability
      BY <1>4 DEF Ingest, TypeInv, AnswerRows
  <2> QED BY <2>1 DEF OutcomeInv
<1>5. CASE CleanAnswers
    BY <1>5 DEF CleanAnswers, OutcomeInv, NoAnswer
<1>6. ASSUME NEW q \in Questions, Abstain(q) \/ Generate(q) PROVE OutcomeInv'
    BY <1>2, <1>6 DEF Abstain, Generate, Answerabilities
<1>7. ASSUME NEW q \in Questions,
             Ask(q) \/ VectorSearch(q) \/ KeywordSearch(q) \/ Trace(q) \/ Select(q) \/ Interrupt(q)
      PROVE UNCHANGED answer
    BY <1>7 DEF Ask, VectorSearch, KeywordSearch, Trace, Select, Interrupt
<1>8. ASSUME \/ \E d \in Documents : ChangePermission(d)
             \/ Tick \/ CleanRetrievals \/ \E t \in Days : ReadDate(t)
             \/ WriteDate \/ UNCHANGED vars
      PROVE UNCHANGED answer
    BY <1>8 DEF ChangePermission, CleanRetrievals, ReadDate, WriteDate, Tick
<1> QED BY <1>1, <1>3, <1>4, <1>5, <1>6, <1>7, <1>8 DEF Next, Request

(* A recorded run is counted in the total of its date and in no other.     *)
LEMMA TotalStep ==
    ASSUME TypeInv, PassageInv, CountInv, [Next]_vars
    PROVE  /\ total' \in [Days -> Nat] /\ \A t \in Days : total'[t] <= Cardinality(Ended')
           /\ \A t \in Days : day' < t + AnswerDays => total'[t] = Cardinality(RunsOn(t)')
<1> USE RetentionIsPositive
<1>0. /\ IsFiniteSet(Ended) /\ IsFiniteSet(Ended') /\ Cardinality(Ended) \in Nat /\ Cardinality(Ended') \in Nat
    BY EndedIsFinite, SubsetsOfQuestions
<1>1. ASSUME NEW q \in Questions, Records(q)
      PROVE  /\ total' \in [Days -> Nat] /\ \A t \in Days : total'[t] <= Cardinality(Ended')
             /\ \A t \in Days : day' < t + AnswerDays => total'[t] = Cardinality(RunsOn(t)')
  <2>1. Ended' = Ended \cup {q} /\ q \notin Ended
      BY <1>1 DEF Ended, Records, TypeInv
  <2>2. Cardinality(Ended') = Cardinality(Ended) + 1
      BY <2>1, <1>0, FS_AddElement
  <2>3. answer[q].status = "none"
      BY <1>1 DEF Records, PassageInv, NoAnswer
  <2>4. RunsOn(day)' = RunsOn(day) \cup {q} /\ q \notin RunsOn(day)
      BY <1>1, <2>3 DEF RunsOn, Records, TypeInv
  <2>5. \A t \in Days : t # day => RunsOn(t)' = RunsOn(t)
      BY <1>1, <2>3 DEF RunsOn, Records, TypeInv
  <2>6. \A t \in Days : IsFiniteSet(RunsOn(t))
      BY SubsetsOfQuestions DEF RunsOn
  <2>7. Cardinality(RunsOn(day)') = Cardinality(RunsOn(day)) + 1
      BY <2>4, <2>6, FS_AddElement DEF TypeInv
  <2>8. total' = [total EXCEPT ![day] = @ + 1] /\ day' = day
      BY <1>1 DEF Records
  <2>9. day < day + AnswerDays /\ day \in Days
      BY DEF TypeInv
  <2>10. total' \in [Days -> Nat] /\ \A t \in Days : total'[t] <= Cardinality(Ended')
    <3>1. total \in [Days -> Nat] /\ \A t \in Days : total[t] <= Cardinality(Ended)
        BY DEF CountInv
    <3> HIDE DEF Days
    <3> QED BY <3>1, <2>2, <2>8, <2>9, <1>0
  <2>11. ASSUME NEW t \in Days, day' < t + AnswerDays PROVE total'[t] = Cardinality(RunsOn(t)')
    <3>1. CASE t = day
        BY <3>1, <2>7, <2>8, <2>9 DEF CountInv
    <3>2. CASE t # day
        BY <3>2, <2>5, <2>8, <2>11 DEF CountInv
    <3> QED BY <3>1, <3>2
  <2> QED BY <2>10, <2>11
<1>2. ASSUME total' = total, day <= day', Ended \subseteq Ended',
             \A t \in Days : day' < t + AnswerDays => RunsOn(t)' = RunsOn(t)
      PROVE  /\ total' \in [Days -> Nat] /\ \A t \in Days : total'[t] <= Cardinality(Ended')
             /\ \A t \in Days : day' < t + AnswerDays => total'[t] = Cardinality(RunsOn(t)')
  <2>1. Cardinality(Ended) <= Cardinality(Ended')
      BY <1>2, <1>0, FS_Subset
  <2>2. \A t \in Days : day' < t + AnswerDays => day < t + AnswerDays
      BY <1>2, TypeStep DEF TypeInv
  <2>3. total' \in [Days -> Nat] /\ \A t \in Days : total'[t] <= Cardinality(Ended')
    <3>1. total \in [Days -> Nat] /\ \A t \in Days : total[t] <= Cardinality(Ended)
        BY DEF CountInv
    <3> HIDE DEF Days
    <3> QED BY <3>1, <2>1, <1>0, <1>2
  <2>4. \A t \in Days : day' < t + AnswerDays => total'[t] = Cardinality(RunsOn(t)')
    <3>1. \A t \in Days : day < t + AnswerDays => total[t] = Cardinality(RunsOn(t))
        BY DEF CountInv
    <3> HIDE DEF Days
    <3> QED BY <3>1, <2>2, <1>2
  <2> QED BY <2>3, <2>4
<1> QED BY <1>1, <1>2, EachStepRecords

(* What has been counted after its date stays what the runs say.           *)
LEMMA CompleteStays ==
    ASSUME TypeInv, PassageInv, CountInv, [Next]_vars, NEW n, NEW t \in Days, t < day, Complete(n, t)
    PROVE  /\ n.queries = total'[t] /\ n.queries = n.answers + n.abstentions + n.failures
           /\ day' < t + AnswerDays => n = CountsOf(Outcome(t)')
<1> USE RetentionIsPositive
<1>2. day' \in Days /\ day \in Days
    BY TypeStep DEF TypeInv
<1>1. ASSUME NEW q \in Questions, Records(q)
      PROVE total'[t] = total[t] /\ Outcome(t)' = Outcome(t) /\ day' = day
  <2>1. answer[q].status = "none"
      BY <1>1 DEF Records, PassageInv, NoAnswer
  <2>2. \A p \in Questions : answer'[p] = IF p = q THEN answer'[q] ELSE answer[p]
      BY <1>1 DEF Records, TypeInv
  <2>3. answer'[q].day = day /\ day' = day /\ total' = [total EXCEPT ![day] = @ + 1]
      BY <1>1 DEF Records
  <2>4. Outcome(t)' = Outcome(t)
      BY <2>1, <2>2, <2>3, <1>2 DEF Outcome
  <2>5. total'[t] = total[t]
      BY <2>3, <1>2 DEF CountInv
  <2> QED BY <2>3, <2>4, <2>5
<1>3. \/ total'[t] = total[t] /\ Outcome(t)' = Outcome(t) /\ day' = day
      \/ /\ total'[t] = total[t] /\ day <= day'
         /\ day' < t + AnswerDays => Outcome(t)' = Outcome(t)
    BY <1>1, EachStepRecords
<1> QED BY <1>2, <1>3 DEF Complete

LEMMA RunsHaveOutcomes == TypeInv => \A t : RunsOf(Outcome(t)) = RunsOn(t)
BY DEF TypeInv, AnswerRows, RunsOf, RunsOn, Outcome, Unanswered

LEMMA MetricsChange ==
    ASSUME [Next]_vars
    PROVE  UNCHANGED metrics \/ (\E t \in Days : ReadDate(t)) \/ WriteDate
BY ZenonT(60) DEF Next, Request, Ask, VectorSearch, KeywordSearch, Trace, Select, Abstain, Generate, Save,
       RecordFailure, Interrupt, Ingest, ChangePermission, Tick, CleanRetrievals, CleanAnswers

LEMMA MetricsStep ==
    ASSUME TypeInv, PassageInv, TraceInv, CountInv, [Next]_vars
    PROVE  /\ daily' \in [Days -> Metrics] /\ readOn' \in [Days -> Days] /\ rebuild' \in Counts
           /\ \A t \in Days : readOn'[t] <= day'
           /\ \A t \in Days : readOn'[t] > t /\ readOn'[t] < t + AnswerDays => Complete(daily[t], t)'
           /\ rebuild'.on => /\ rebuild'.at <= day'
                             /\ rebuild'.at > rebuild'.date /\ rebuild'.at < rebuild'.date + AnswerDays =>
                                   Complete(rebuild.counts, rebuild.date)'
<1> USE RetentionIsPositive
<1>0. day \in Days /\ day' \in Days /\ day <= day'
  <2>1. day \in Days /\ day' \in Days
      BY TypeStep DEF TypeInv
  <2> QED BY <2>1, EachStepRecords DEF Records
<1>1. ASSUME NEW n, NEW t \in Days, t < day, Complete(n, t)
      PROVE  /\ n.queries = total'[t] /\ n.queries = n.answers + n.abstentions + n.failures
             /\ day' < t + AnswerDays => n = CountsOf(Outcome(t)')
    BY <1>1, CompleteStays
<1>2. ASSUME NEW t \in Days, readOn[t] > t, readOn[t] < t + AnswerDays
      PROVE  /\ daily[t].queries = total'[t]
             /\ daily[t].queries = daily[t].answers + daily[t].abstentions + daily[t].failures
             /\ day' < t + AnswerDays => daily[t] = CountsOf(Outcome(t)')
  <2>1. readOn[t] <= day /\ Complete(daily[t], t) /\ readOn[t] \in Days
      BY <1>2 DEF CountInv
  <2>2. t < day
      BY <2>1, <1>2, <1>0
  <2> QED BY <2>1, <2>2, <1>1
<1>3. ASSUME NEW t, t = rebuild.date, rebuild.on, rebuild.at > t, rebuild.at < t + AnswerDays
      PROVE  /\ rebuild.counts.queries = total'[t]
             /\ rebuild.counts.queries = rebuild.counts.answers + rebuild.counts.abstentions
                                            + rebuild.counts.failures
             /\ day' < t + AnswerDays => rebuild.counts = CountsOf(Outcome(t)')
  <2>1. rebuild.at <= day /\ Complete(rebuild.counts, t) /\ rebuild \in Counts
      BY <1>3 DEF CountInv
  <2>2. t \in Days /\ rebuild.at \in Days
      BY <2>1, <1>3 DEF Counts
  <2>3. t < day
      BY <2>1, <2>2, <1>3, <1>0
  <2> QED BY <2>1, <2>2, <2>3, <1>1
<1>4. ASSUME UNCHANGED <<daily, readOn>>
      PROVE  /\ daily' \in [Days -> Metrics] /\ readOn' \in [Days -> Days]
             /\ \A t \in Days : readOn'[t] <= day'
             /\ \A t \in Days : readOn'[t] > t /\ readOn'[t] < t + AnswerDays => Complete(daily[t], t)'
  <2>1. daily \in [Days -> Metrics] /\ readOn \in [Days -> Days] /\ \A t \in Days : readOn[t] <= day
      BY DEF CountInv
  <2>2. \A t \in Days : readOn'[t] <= day'
      BY <2>1, <1>4, <1>0
  <2>3. ASSUME NEW t \in Days, readOn'[t] > t, readOn'[t] < t + AnswerDays
        PROVE Complete(daily[t], t)'
      BY <1>4, <2>3, <1>2 DEF Complete
  <2> QED BY <1>4, <2>1, <2>2, <2>3
<1>5. ASSUME UNCHANGED rebuild
      PROVE  /\ rebuild' \in Counts
             /\ rebuild'.on => /\ rebuild'.at <= day'
                               /\ rebuild'.at > rebuild'.date /\ rebuild'.at < rebuild'.date + AnswerDays =>
                                     Complete(rebuild.counts, rebuild.date)'
  <2>1. rebuild \in Counts /\ rebuild.at \in Days
      BY DEF CountInv, Counts
  <2>2. ASSUME rebuild'.on, rebuild'.at > rebuild'.date, rebuild'.at < rebuild'.date + AnswerDays
        PROVE Complete(rebuild.counts, rebuild.date)'
    <3> PICK t : t = rebuild.date
        OBVIOUS
    <3>1. rebuild'.date = t /\ rebuild'.counts = rebuild.counts
        BY <1>5
    <3>2. /\ rebuild.counts.queries = total'[t]
          /\ rebuild.counts.queries = rebuild.counts.answers + rebuild.counts.abstentions
                                         + rebuild.counts.failures
          /\ day' < t + AnswerDays => rebuild.counts = CountsOf(Outcome(t)')
        BY <1>5, <2>2, <1>3
    <3>3. Complete(rebuild.counts, t)'
        BY <3>1, <3>2 DEF Complete
    <3> QED BY <3>1, <3>3 DEF Complete
  <2>3. ASSUME rebuild'.on PROVE rebuild'.at <= day'
    <3>1. rebuild.at <= day
        BY <1>5, <2>3 DEF CountInv
    <3> QED BY <3>1, <2>1, <1>5, <1>0
  <2> QED BY <1>5, <2>1, <2>2, <2>3
<1>6. ASSUME NEW t \in Days, ReadDate(t)
      PROVE  /\ rebuild' \in Counts /\ rebuild'.at <= day'
             /\ rebuild'.at > rebuild'.date /\ rebuild'.at < rebuild'.date + AnswerDays =>
                   Complete(rebuild.counts, rebuild.date)'
  <2>1. /\ rebuild' = [on |-> TRUE, date |-> t, counts |-> Counted(t), at |-> day]
        /\ UNCHANGED <<day, answer, retrieval, total>>
      BY <1>6 DEF ReadDate
  <2>2. Outcome(t)' = Outcome(t)
      BY <2>1 DEF Outcome
  <2>3. /\ Counted(t) = CountsOf(Outcome(t)) /\ Counted(t) \in Metrics
        /\ Counted(t).queries = Cardinality(RunsOn(t))
        /\ Counted(t).queries = Counted(t).answers + Counted(t).abstentions + Counted(t).failures
      BY CountsAreOutcomes, CountsAddUp, RunsHaveOutcomes DEF CountInv
  <2>4. rebuild' \in Counts /\ rebuild'.at <= day'
      BY <2>1, <2>3, <1>0 DEF Counts
  <2>5. ASSUME day < t + AnswerDays PROVE Counted(t).queries = total[t]
      BY <2>3, <2>5 DEF CountInv
  <2>6. /\ rebuild'.counts = Counted(t) /\ rebuild'.date = t /\ rebuild'.at = day
      BY <2>1
  <2>7. ASSUME day < t + AnswerDays PROVE Complete(rebuild.counts, rebuild.date)'
      BY <2>1, <2>2, <2>3, <2>5, <2>6, <2>7 DEF Complete
  <2> QED BY <2>4, <2>6, <2>7
<1>7. ASSUME NEW t \in Days, ReadDate(t) PROVE UNCHANGED <<daily, readOn>>
    BY <1>7 DEF ReadDate
<1>8. CASE WriteDate
  <2>1. rebuild.on /\ rebuild' = Resting /\ UNCHANGED <<day, answer, total>>
      BY <1>8 DEF WriteDate
  <2>2. rebuild' \in Counts /\ ~rebuild'.on
    <3>1. NoMetrics \in Metrics
        BY RequestsAreFinite, FS_CardinalityType DEF NoMetrics, Metrics
    <3> QED BY <2>1, <3>1 DEF Resting, Counts
  <2>3. CASE UNCHANGED <<daily, readOn>>
      BY <2>2, <2>3, <1>4
  <2>4. CASE /\ daily' = [daily EXCEPT ![rebuild.date] = rebuild.counts]
             /\ readOn' = [readOn EXCEPT ![rebuild.date] = rebuild.at]
    <3>1. /\ daily \in [Days -> Metrics] /\ readOn \in [Days -> Days] /\ \A t \in Days : readOn[t] <= day
          /\ rebuild.counts \in Metrics /\ rebuild.date \in Days /\ rebuild.at \in Days /\ rebuild.at <= day
        BY <2>1 DEF CountInv, Counts
    <3>2. /\ daily' \in [Days -> Metrics] /\ readOn' \in [Days -> Days]
          /\ \A t \in Days : readOn'[t] <= day'
        BY <3>1, <2>1, <2>4, <1>0
    <3>3. ASSUME NEW t \in Days, readOn'[t] > t, readOn'[t] < t + AnswerDays
          PROVE Complete(daily[t], t)'
      <4>1. CASE t = rebuild.date
        <5>1. daily'[t] = rebuild.counts /\ readOn'[t] = rebuild.at
            BY <3>1, <2>4, <4>1
        <5> QED BY <5>1, <4>1, <3>3, <2>1, <1>3 DEF Complete
      <4>2. CASE t # rebuild.date
        <5>1. daily'[t] = daily[t] /\ readOn'[t] = readOn[t]
            BY <3>1, <2>4, <4>2
        <5> QED BY <5>1, <3>3, <1>2 DEF Complete
      <4> QED BY <4>1, <4>2
    <3> QED BY <2>2, <3>2, <3>3
  <2> QED BY <1>8, <2>3, <2>4 DEF WriteDate
<1> QED BY <1>4, <1>5, <1>6, <1>7, <1>8, MetricsChange

LEMMA CountStep == TypeInv /\ PassageInv /\ TraceInv /\ CountInv /\ [Next]_vars => CountInv'
<1> SUFFICES ASSUME TypeInv, PassageInv, TraceInv, CountInv, [Next]_vars PROVE CountInv'
    OBVIOUS
<1>1. OutcomeInv'
    BY OutcomeStep DEF CountInv
<1> QED BY <1>1, TotalStep, MetricsStep DEF CountInv

-----------------------------------------------------------------------------
(* The records of a run that are marked as selected are left of those that *)
(* were counted.                                                           *)
MarkInv ==
    \A q \in Questions : /\ retrieval[q].selected \subseteq retrieval[q].records
                         /\ Cardinality(retrieval[q].selected) <= retrieval[q].count

LEMMA FewerChunks ==
    ASSUME NEW S \in SUBSET AllChunks, NEW T \in SUBSET S
    PROVE  Cardinality(T) <= Cardinality(S) /\ Cardinality(S) \in Nat /\ Cardinality(T) \in Nat
<1>1. IsFiniteSet(S) /\ IsFiniteSet(T)
    BY AllChunksAreFinite, FS_Subset
<1> QED BY <1>1, FS_Subset, FS_CardinalityType

LEMMA MarkStep == TypeInv /\ MarkInv /\ [Next]_vars => MarkInv'
<1> SUFFICES ASSUME TypeInv, MarkInv, [Next]_vars PROVE MarkInv'
    OBVIOUS
<1>0. Cardinality({}) = 0
    BY FS_EmptySet
<1>1. CASE UNCHANGED retrieval
    BY <1>1 DEF MarkInv
<1>2. ASSUME NEW q \in Questions, Trace(q) PROVE MarkInv'
    BY <1>0, <1>2 DEF Trace, MarkInv, TypeInv
<1>3. ASSUME NEW q \in Questions, Select(q) PROVE MarkInv'
  <2> PICK S \in SUBSET found[q] :
          retrieval' = [retrieval EXCEPT ![q] =
                 [@ EXCEPT !.selected = Marked(q, S), !.count = Cardinality(S)]]
      BY <1>3 DEF Select
  <2>1. Cardinality(Marked(q, S)) <= Cardinality(S) /\ Marked(q, S) \subseteq retrieval[q].records
      BY FewerChunks DEF Marked, TypeInv
  <2>2. \A p \in Questions : p # q => retrieval'[p] = retrieval[p]
      BY DEF TypeInv
  <2>3. /\ retrieval'[q].selected = Marked(q, S) /\ retrieval'[q].count = Cardinality(S)
        /\ retrieval'[q].records = retrieval[q].records
      BY DEF TypeInv, RetrievalRows
  <2> QED BY <2>1, <2>2, <2>3 DEF MarkInv
<1>4. ASSUME NEW d \in Documents, Ingest(d) PROVE MarkInv'
  <2> SUFFICES ASSUME NEW q \in Questions
               PROVE /\ retrieval'[q].selected \subseteq retrieval'[q].records
                     /\ Cardinality(retrieval'[q].selected) <= retrieval'[q].count
      BY DEF MarkInv
  <2>1. /\ retrieval'[q].selected = retrieval[q].selected \ {<<d, generation[d]>>}
        /\ retrieval'[q].records = retrieval[q].records \ {<<d, generation[d]>>}
        /\ retrieval'[q].count = retrieval[q].count
      BY ZenonT(60), <1>4 DEF Ingest, TypeInv, RetrievalRows
  <2>2. retrieval[q].selected \in SUBSET AllChunks /\ retrieval[q].count \in Nat
      BY DEF TypeInv, RetrievalRows
  <2>3. Cardinality(retrieval[q].selected \ {<<d, generation[d]>>}) <= Cardinality(retrieval[q].selected)
        /\ Cardinality(retrieval[q].selected \ {<<d, generation[d]>>}) \in Nat
        /\ Cardinality(retrieval[q].selected) \in Nat
      BY <2>2, FewerChunks
  <2> QED BY <2>1, <2>2, <2>3 DEF MarkInv
<1>5. CASE CleanRetrievals
  <2> SUFFICES ASSUME NEW q \in Questions
               PROVE /\ retrieval'[q].selected \subseteq retrieval'[q].records
                     /\ Cardinality(retrieval'[q].selected) <= retrieval'[q].count
      BY DEF MarkInv
  <2>1. \/ retrieval'[q] = retrieval[q] \/ retrieval'[q] = NoRetrieval
        \/ retrieval'[q] = [retrieval[q] EXCEPT !.records = {}, !.selected = {}]
      BY <1>5 DEF CleanRetrievals
  <2>2. retrieval[q].count \in Nat /\ retrieval[q] \in RetrievalRows
      BY DEF TypeInv, RetrievalRows
  <2>3. CASE retrieval'[q] = retrieval[q]
      BY <2>3 DEF MarkInv
  <2>4. CASE retrieval'[q] = NoRetrieval
      BY <2>4, <1>0 DEF NoRetrieval
  <2>5. CASE retrieval'[q] = [retrieval[q] EXCEPT !.records = {}, !.selected = {}]
    <3>1. retrieval'[q].records = {} /\ retrieval'[q].selected = {} /\ retrieval'[q].count = retrieval[q].count
        BY <2>2, <2>5 DEF RetrievalRows
    <3> QED BY <2>2, <3>1, <1>0
  <2> QED BY <2>1, <2>3, <2>4, <2>5
<1> QED BY <1>1, <1>2, <1>3, <1>4, <1>5
    DEF Next, Request, Ask, VectorSearch, KeywordSearch, Abstain, Generate, Save, RecordFailure,
        Interrupt, ChangePermission, Tick, CleanAnswers, ReadDate, WriteDate

-----------------------------------------------------------------------------
IInv == TypeInv /\ PassageInv /\ TraceInv /\ CountInv /\ MarkInv

LEMMA Initially == Init => IInv
<1> SUFFICES ASSUME Init PROVE IInv
    OBVIOUS
<1> USE RetentionIsPositive
<1>0. Cardinality({}) = 0
    BY FS_EmptySet
<1>1. TypeInv
    BY DEF Init, TypeInv, Steps, RetrievalRows, AnswerRows, NoRetrieval, NoAnswer
<1>2. PassageInv
    BY DEF Init, PassageInv, NoAnswer, DocumentsOf
<1>3. TraceInv
    BY DEF Init, TraceInv, NoAnswer
<1>4. CountInv
  <2>1. NoMetrics \in Metrics
      BY RequestsAreFinite, FS_CardinalityType DEF NoMetrics, Metrics
  <2>2. Ended = {} /\ \A t : RunsOn(t) = {}
      BY DEF Init, Ended, RunsOn, NoAnswer
  <2>3. OutcomeInv
      BY DEF Init, OutcomeInv, NoAnswer
  <2>4. rebuild \in Counts /\ ~rebuild.on
      BY <2>1 DEF Init, Resting, Counts
  <2>5. \A t \in Days : ~(readOn[t] > t)
      BY DEF Init
  <2>6. /\ total = [t \in Days |-> 0] /\ readOn = [t \in Days |-> 0]
        /\ daily = [t \in Days |-> NoMetrics] /\ day = 0
      BY DEF Init
  <2>7. 0 \in Days /\ 0 \in Nat
      OBVIOUS
  <2>8. /\ total \in [Days -> Nat] /\ readOn \in [Days -> Days] /\ daily \in [Days -> Metrics]
        /\ \A t \in Days : total[t] = 0 /\ readOn[t] = 0
    <3> HIDE DEF Days
    <3> QED BY <2>1, <2>6, <2>7
  <2>9. /\ \A t \in Days : total[t] <= Cardinality(Ended) /\ total[t] = Cardinality(RunsOn(t))
        /\ \A t \in Days : readOn[t] <= day
    <3> HIDE DEF Days
    <3> QED BY <1>0, <2>2, <2>6, <2>8
  <2> QED BY <2>3, <2>4, <2>5, <2>8, <2>9 DEF CountInv
<1>5. MarkInv
  <2>1. \A q \in Questions : retrieval[q] = NoRetrieval
      BY DEF Init
  <2>2. NoRetrieval.selected = {} /\ NoRetrieval.records = {} /\ NoRetrieval.count = 0
      BY DEF NoRetrieval
  <2> QED BY <2>1, <2>2, <1>0 DEF MarkInv
<1> QED BY <1>1, <1>2, <1>3, <1>4, <1>5 DEF IInv

(* What each state of the pipeline may rely on holds in every reachable    *)
(* state: answers/service.py, retention/service.py, metrics/daily.py.      *)
THEOREM InductiveInvariant == Spec => []IInv
<1>1. IInv /\ [Next]_vars => IInv'
    BY TypeStep, PassageStep, TraceStep, CountStep, MarkStep DEF IInv
<1> QED BY Initially, <1>1, PTL DEF Spec

(* Every reachable state is well-typed: TypeOK.                            *)
THEOREM TypeSafety == Spec => []TypeOK
<1>1. IInv => TypeOK
  <2> SUFFICES ASSUME IInv PROVE TypeOK
      OBVIOUS
  <2>1. generation \in [Documents -> 0 .. MaxChanges]
      BY RetentionIsPositive DEF IInv, TypeInv
  <2>2. total \in [Days -> 0 .. Cardinality(Questions)]
    <3>1. Cardinality(Ended) <= Cardinality(Questions) /\ Cardinality(Ended) \in Nat
        BY EndedIsFinite, SubsetsOfQuestions
    <3>2. Cardinality(Questions) \in Nat
        BY RequestsAreFinite, FS_CardinalityType
    <3>3. total \in [Days -> Nat] /\ \A t \in Days : total[t] <= Cardinality(Ended)
        BY DEF IInv, CountInv
    <3> HIDE DEF Days
    <3> QED BY <3>1, <3>2, <3>3
  <2>3. \A q \in Questions :
          /\ retrieval[q].records \in SUBSET AllChunks /\ retrieval[q].day \in Days
          /\ answer[q].status \in {"none", "completed", "failed"} /\ answer[q].day \in Days
          /\ answer[q].cited \in SUBSET AllChunks
      BY DEF IInv, TypeInv, RetrievalRows, AnswerRows
  <2>4. daily \in [Days -> Metrics]
      BY DEF IInv, CountInv
  <2> QED BY <2>1, <2>2, <2>3, <2>4 DEF TypeOK, IInv, TypeInv, MarkInv, Steps
<1> QED BY InductiveInvariant, <1>1, PTL

(* What is sent was readable during the request, and what is cited was     *)
(* sent: PassagesWereReadable.                                             *)
THEOREM PassagesAreReadable == Spec => []PassagesWereReadable
<1>1. IInv => PassagesWereReadable
    BY DEF IInv, PassageInv, PassagesWereReadable
<1> QED BY InductiveInvariant, <1>1, PTL

(* No cleanup takes a part of a trace that an answer run still refers to:  *)
(* TracesStayComplete.                                                     *)
THEOREM TracesAreComplete == Spec => []TracesStayComplete
<1>1. IInv => TracesStayComplete
    BY DEF IInv, TraceInv, TracesStayComplete
<1> QED BY InductiveInvariant, <1>1, PTL

(* Metrics counted after their date and before its answers expire are the  *)
(* totals of the date: DailyMetricsAreComplete.                            *)
THEOREM MetricsAreComplete == Spec => []DailyMetricsAreComplete
<1>1. IInv => DailyMetricsAreComplete
  <2> SUFFICES ASSUME IInv, NEW t \in Days, readOn[t] > t, readOn[t] < t + AnswerDays
               PROVE /\ daily[t].queries = total[t]
                     /\ daily[t].queries = daily[t].answers + daily[t].abstentions + daily[t].failures
                     /\ day < t + AnswerDays => Overview(t) = daily[t]
      BY DEF DailyMetricsAreComplete
  <2>1. Complete(daily[t], t)
      BY DEF IInv, CountInv
  <2>2. Overview(t) = CountsOf(Outcome(t))
      BY CountsAreOutcomes DEF IInv, CountInv
  <2> QED BY <2>1, <2>2 DEF Complete
<1> QED BY InductiveInvariant, <1>1, PTL
=============================================================================

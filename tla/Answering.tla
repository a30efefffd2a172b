----------------------------- MODULE Answering -----------------------------
(***************************************************************************)
(* Answering a question: the question is saved, the passages its user may  *)
(* read are retrieved and traced, some are selected and sent to the        *)
(* provider, and the answer with its citations is saved, each in a         *)
(* transaction of its own.  Meanwhile permissions change, documents are    *)
(* ingested again, days pass, daily metrics are rebuilt and the retention  *)
(* jobs remove expired traces.                                             *)
(*                                                                         *)
(* A document has one chunk per ingestion, <<document, generation>>.       *)
(* `readable' and `visible' are by document.                               *)
(***************************************************************************)
EXTENDS Naturals, FiniteSets

CONSTANTS
    Questions,      \* requests of one user
    Documents,
    RetrievalDays,  \* retrieval_trace_retention_days
    AnswerDays,     \* answer_trace_retention_days
    MaxDay,         \* bound: days
    MaxChanges      \* bound: changes of permissions and ingestions

ASSUME RequestsAreFinite == IsFiniteSet(Questions) /\ IsFiniteSet(Documents)
ASSUME RetentionIsPositive ==
    /\ RetrievalDays \in Nat \ {0} /\ AnswerDays \in Nat \ {0}
    /\ MaxDay \in Nat /\ MaxChanges \in Nat

VARIABLES
    day,        \* the date
    generation, \* ingestions of each document: only the last one's chunk exists
    readable,   \* documents the user may read
    changes,    \* changes so far, bounded by MaxChanges
    step,       \* the step of each request
    started,    \* the date a request began
    found,      \* chunks a request holds: retrieved, then selected
    retrieval,  \* retrieval_runs and their retrieval_result_records
    answer,     \* answer_runs and their answer_citations
    message,    \* assistant messages
    visible,    \* history: documents readable at some time during the request
    sent,       \* history: chunks sent to the provider
    daily,      \* daily_organization_metrics by date
    rebuild,    \* the running aggregation: its date and what it has counted
    total,      \* history: answer runs created, by date
    readOn      \* history: the date on which the stored metrics of a date were counted

library == <<generation, readable, changes>>
requests == <<step, started, found, visible, sent>>
metrics == <<daily, rebuild, readOn>>
vars == <<day, library, requests, retrieval, answer, message, metrics, total>>

-----------------------------------------------------------------------------
Days   == 0 .. MaxDay
Chunks == {<<d, generation[d]>> : d \in Documents}
Doc(c) == c[1]
DocumentsOf(S) == {Doc(c) : c \in S}

NoRetrieval == [exists |-> FALSE, day |-> 0, records |-> {}, selected |-> {}, count |-> 0]
NoAnswer    == [status |-> "none", day |-> 0, answerability |-> "null", cited |-> {}]
NoMetrics   == [queries |-> 0, answers |-> 0, abstentions |-> 0, failures |-> 0]
Resting     == [on |-> FALSE, date |-> 0, counts |-> NoMetrics, at |-> 0]

Answerabilities == {"answerable", "partially", "ambiguous", "not_found"}

Init ==
    /\ day = 0 /\ generation = [d \in Documents |-> 0] /\ readable = Documents /\ changes = 0
    /\ step = [q \in Questions |-> "idle"] /\ started = [q \in Questions |-> 0]
    /\ found = [q \in Questions |-> {}]
    /\ visible = [q \in Questions |-> {}] /\ sent = [q \in Questions |-> {}]
    /\ retrieval = [q \in Questions |-> NoRetrieval] /\ answer = [q \in Questions |-> NoAnswer]
    /\ message = {}
    /\ daily = [t \in Days |-> NoMetrics] /\ rebuild = Resting
    /\ total = [t \in Days |-> 0] /\ readOn = [t \in Days |-> 0]

Active(q) == step[q] \notin {"idle", "ended"}
Go(q, s) == step' = [step EXCEPT ![q] = s]

(* The request ends; what it held in memory is gone. *)
End(q) ==
    /\ Go(q, "ended")
    /\ started' = [started EXCEPT ![q] = 0] /\ found' = [found EXCEPT ![q] = {}]

-----------------------------------------------------------------------------
(* answer: membership, the conversation and the question, committed.       *)
Ask(q) ==
    /\ step[q] = "idle"
    /\ Go(q, "vector") /\ started' = [started EXCEPT ![q] = day]
    /\ visible' = [visible EXCEPT ![q] = readable]
    /\ UNCHANGED <<day, library, found, sent, retrieval, answer, message, metrics, total>>

(* build_retrievable_chunk_condition: the current chunks of readable documents. *)
Retrievable == {c \in Chunks : Doc(c) \in readable}

(* vector_search and keyword_search are two statements. *)
VectorSearch(q) ==
    /\ step[q] = "vector"
    /\ \E S \in SUBSET Retrievable : found' = [found EXCEPT ![q] = S]
    /\ Go(q, "keyword")
    /\ UNCHANGED <<day, library, started, visible, sent, retrieval, answer, message, metrics, total>>

KeywordSearch(q) ==
    /\ step[q] = "keyword"
    /\ \E S \in SUBSET Retrievable : found' = [found EXCEPT ![q] = @ \cup S]
    /\ Go(q, "trace")
    /\ UNCHANGED <<day, library, started, visible, sent, retrieval, answer, message, metrics, total>>

(* The trace is committed if every result's chunk still exists. *)
Trace(q) ==
    /\ step[q] = "trace" /\ found[q] \subseteq Chunks
    /\ retrieval' = [retrieval EXCEPT ![q] =
           [exists |-> TRUE, day |-> day, records |-> found[q], selected |-> {}, count |-> 0]]
    /\ Go(q, IF found[q] = {} THEN "abstain" ELSE "select")
    /\ UNCHANGED <<day, library, started, found, visible, sent, answer, message, metrics, total>>

(* mark_selected_context: the records that are left of the selected chunks. *)
MutantMarked(q, S) == S
Marked(q, S) == S \cap retrieval[q].records

(* Passages within the budget are selected and marked. *)
Select(q) ==
    /\ step[q] = "select"
    /\ \E S \in (SUBSET found[q]) \ {{}} :
          /\ found' = [found EXCEPT ![q] = S] /\ sent' = [sent EXCEPT ![q] = S]
          /\ retrieval' = [retrieval EXCEPT ![q] =
                 [@ EXCEPT !.selected = Marked(q, S), !.count = Cardinality(S)]]
    /\ Go(q, "generate")
    /\ UNCHANGED <<day, library, started, visible, answer, message, metrics, total>>

(* validate_generated_answer: what a provider's answer may cite. *)
MutantValid(a, cited, allowed) == a = "not_found" <=> cited = {}
Valid(a, cited, allowed) ==
    /\ cited \subseteq allowed
    /\ a \in {"answerable", "partially"} => cited # {}
    /\ a = "not_found" => cited = {}

(* The chunks a provider may name: known ones, whatever it was sent. *)
Named == Chunks \cup UNION {found[q] : q \in Questions}

(* The answer run of q, the assistant message and the citations are         *)
(* committed together; a citation refers to a chunk that exists.            *)
Save(q, a, cited) ==
    /\ cited \subseteq Chunks
    /\ answer' = [answer EXCEPT ![q] =
           [status |-> "completed", day |-> day, answerability |-> a, cited |-> cited]]
    /\ message' = message \cup {q}
    /\ total' = [total EXCEPT ![day] = @ + 1]
    /\ End(q)
    /\ UNCHANGED <<day, library, visible, sent, retrieval, metrics>>

Abstain(q) == step[q] = "abstain" /\ Save(q, "not_found", {})

Generate(q) ==
    /\ step[q] = "generate"
    /\ \E a \in Answerabilities, cited \in SUBSET Named :
          Valid(a, cited, found[q]) /\ Save(q, a, cited)

(* The provider fails or its citations are not valid: a failed run is recorded. *)
RecordFailure(q) ==
    /\ step[q] = "generate"
    /\ answer' = [answer EXCEPT ![q] = [NoAnswer EXCEPT !.status = "failed", !.day = day]]
    /\ total' = [total EXCEPT ![day] = @ + 1]
    /\ End(q)
    /\ UNCHANGED <<day, library, visible, sent, retrieval, message, metrics>>

(* The request ends without an answer run: retrieval is unavailable, a chunk *)
(* it found or cited is gone, no passage fits the budget, the failed run     *)
(* cannot be recorded, or the process dies.                                  *)
Interrupt(q) ==
    /\ Active(q)
    /\ End(q)
    /\ UNCHANGED <<day, library, visible, sent, retrieval, answer, message, metrics, total>>

-----------------------------------------------------------------------------
(* The rest of the system.                                                 *)

(* A document is ingested again: its chunk goes, and by ON DELETE CASCADE  *)
(* the retrieval records and the citations of that chunk.                  *)
Ingest(d) ==
    LET old == {<<d, generation[d]>>}
    IN  /\ changes < MaxChanges
        /\ generation' = [generation EXCEPT ![d] = @ + 1] /\ changes' = changes + 1
        /\ retrieval' = [q \in Questions |->
               [retrieval[q] EXCEPT !.records = @ \ old, !.selected = @ \ old]]
        /\ answer' = [q \in Questions |-> [answer[q] EXCEPT !.cited = @ \ old]]
        /\ UNCHANGED <<day, readable, requests, message, metrics, total>>

ChangePermission(d) ==
    /\ changes < MaxChanges /\ changes' = changes + 1
    /\ readable' = (readable \ {d}) \cup ({d} \ readable)
    /\ visible' = [q \in Questions |-> IF Active(q) THEN visible[q] \cup readable' ELSE visible[q]]
    /\ UNCHANGED <<day, generation, step, started, found, sent, retrieval, answer, message, metrics, total>>

(* A day passes; no request lasts for a whole day. *)
Tick ==
    /\ day < MaxDay /\ \A q \in Questions : Active(q) => started[q] = day
    /\ day' = day + 1
    /\ UNCHANGED <<library, requests, retrieval, answer, message, metrics, total>>

(* The cutoff of a cleanup is n times 24 hours ago: of the rows of date t   *)
(* all are older than that, or, when it lies within t, some.                *)
Expired(t, n)  == t + n < day
Expiring(t, n) == t + n = day

(* cleanup_expired_retrieval_traces: expired records, then expired runs that *)
(* no answer run refers to.  A request under way has begun within a day.     *)
MutantUnreferenced(q) == TRUE
Unreferenced(q) == answer[q].status = "none"

CleanRetrievals ==
    LET runs == {q \in Questions : retrieval[q].exists}
    IN  /\ \E part \in SUBSET {q \in runs : ~Active(q) /\ Expiring(retrieval[q].day, RetrievalDays)} :
              LET expired == part \cup {q \in runs : Expired(retrieval[q].day, RetrievalDays)}
              IN  /\ expired # {}
                  /\ retrieval' = [q \in Questions |->
                         IF q \notin expired THEN retrieval[q]
                         ELSE IF Unreferenced(q) THEN NoRetrieval
                         ELSE [retrieval[q] EXCEPT !.records = {}, !.selected = {}]]
        /\ UNCHANGED <<day, library, requests, answer, message, metrics, total>>

(* cleanup_expired_answer_traces: runs and, by cascade, their citations; *)
(* messages stay.                                                        *)
CleanAnswers ==
    LET runs == {q \in Questions : answer[q].status # "none"}
    IN  /\ \E part \in SUBSET {q \in runs : Expiring(answer[q].day, AnswerDays)} :
              LET expired == part \cup {q \in runs : Expired(answer[q].day, AnswerDays)}
              IN  /\ expired # {}
                  /\ answer' = [q \in Questions |-> IF q \in expired THEN NoAnswer ELSE answer[q]]
        /\ UNCHANGED <<day, library, requests, retrieval, message, metrics, total>>

-----------------------------------------------------------------------------
(* rebuild_date counts the production answer runs of a date by outcome, and *)
(* replaces the date's row in a later statement.  Beat asks for yesterday,  *)
(* an operator for any date.                                                *)
Of(t, status, A) ==
    {q \in Questions : /\ answer[q].status = status /\ answer[q].day = t /\ retrieval[q].exists
                       /\ answer[q].answerability \in A}

MutantAnswered == {"answerable", "partially"}
Answered == {"answerable", "partially", "ambiguous"}

Counted(t) ==
    LET runs == Of(t, "completed", Answerabilities) \cup Of(t, "failed", {"null"})
    IN  [queries |-> Cardinality(runs),
         answers |-> Cardinality(Of(t, "completed", Answered)),
         abstentions |-> Cardinality(Of(t, "completed", {"not_found"})),
         failures |-> Cardinality(Of(t, "failed", {"null"}))]

(* overview of one date: the rates of the dashboard come from the answer runs. *)
Overview(t) ==
    LET runs == {q \in Questions : answer[q].status # "none" /\ answer[q].day = t /\ retrieval[q].exists}
        count(P(_)) == Cardinality({q \in runs : P(answer[q])})
    IN  [queries     |-> Cardinality(runs),
         answers     |-> count(LAMBDA a : a.status = "completed" /\ a.answerability \in Answered),
         abstentions |-> count(LAMBDA a : a.status = "completed" /\ a.answerability = "not_found"),
         failures    |-> count(LAMBDA a : a.status = "failed")]

ReadDate(t) ==
    /\ ~rebuild.on /\ t <= day
    /\ rebuild' = [on |-> TRUE, date |-> t, counts |-> Counted(t), at |-> day]
    /\ UNCHANGED <<day, library, requests, retrieval, answer, message, daily, readOn, total>>

(* The date's row is replaced, or the transaction fails. *)
WriteDate ==
    /\ rebuild.on /\ rebuild' = Resting
    /\ \/ /\ daily' = [daily EXCEPT ![rebuild.date] = rebuild.counts]
          /\ readOn' = [readOn EXCEPT ![rebuild.date] = rebuild.at]
       \/ UNCHANGED <<daily, readOn>>
    /\ UNCHANGED <<day, library, requests, retrieval, answer, message, total>>

-----------------------------------------------------------------------------
Request(q) ==
    \/ Ask(q) \/ VectorSearch(q) \/ KeywordSearch(q) \/ Trace(q) \/ Select(q)
    \/ Abstain(q) \/ Generate(q) \/ RecordFailure(q) \/ Interrupt(q)

Next ==
    \/ \E q \in Questions : Request(q)
    \/ \E d \in Documents : Ingest(d) \/ ChangePermission(d)
    \/ Tick \/ CleanRetrievals \/ CleanAnswers
    \/ \E t \in Days : ReadDate(t)
    \/ WriteDate

Spec == Init /\ [][Next]_vars

-----------------------------------------------------------------------------
(* Every variable has its type. *)
AllChunks == Documents \X (0 .. MaxChanges)
Metrics == [queries : 0 .. Cardinality(Questions), answers : Nat, abstentions : Nat, failures : Nat]

TypeOK ==
    /\ day \in Days /\ generation \in [Documents -> 0 .. MaxChanges]
    /\ readable \subseteq Documents /\ changes \in 0 .. MaxChanges
    /\ step \in [Questions -> {"idle", "vector", "keyword", "trace", "abstain", "select",
                               "generate", "ended"}]
    /\ started \in [Questions -> Days] /\ found \in [Questions -> SUBSET AllChunks]
    /\ visible \in [Questions -> SUBSET Documents] /\ sent \in [Questions -> SUBSET AllChunks]
    /\ message \subseteq Questions
    /\ \A q \in Questions :
          /\ retrieval[q].records \in SUBSET AllChunks /\ retrieval[q].day \in Days
          /\ retrieval[q].selected \subseteq retrieval[q].records
          /\ Cardinality(retrieval[q].selected) <= retrieval[q].count
          /\ answer[q].status \in {"none", "completed", "failed"} /\ answer[q].day \in Days
          /\ answer[q].cited \in SUBSET AllChunks
    /\ daily \in [Days -> Metrics] /\ total \in [Days -> 0 .. Cardinality(Questions)]

(* What is sent to the provider was readable to the user at some moment of  *)
(* the request, in whatever order searches and changes of permissions come; *)
(* what is cited was sent, and exists, whatever is ingested again           *)
(* (retrieval/repository.py, answers/service.py, answers/validation.py).    *)
PassagesWereReadable ==
    /\ \A q \in Questions : DocumentsOf(sent[q]) \subseteq visible[q]
    /\ \A q \in Questions : answer[q].cited \subseteq sent[q] \cap Chunks

(* An answer run of any age has its retrieval summary and, when completed,  *)
(* its message, whichever cleanup comes first                               *)
(* (retention/service.py; docs/retention-policy.md:13).                     *)
TracesStayComplete ==
    \A q \in Questions : answer[q].status # "none" =>
        retrieval[q].exists /\ (answer[q].status = "completed" => q \in message)

(* The metrics of a date that were counted after the date and before the    *)
(* first of its answers may expire count every answer run of that date      *)
(* once, as answered, abstained or failed, and until then the dashboard's   *)
(* overview of the date gives the same counts.  Beat counts yesterday,      *)
(* which is in time if answers are kept for two days or more; kept for one, *)
(* the earlier ones of yesterday may be gone, and nothing is claimed        *)
(* (metrics/daily.py, admin/metrics.py, celery_app.py schedule).            *)
DailyMetricsAreComplete ==
    \A t \in Days : readOn[t] > t /\ readOn[t] < t + AnswerDays =>
        /\ daily[t].queries = total[t]
        /\ daily[t].queries = daily[t].answers + daily[t].abstentions + daily[t].failures
        /\ day < t + AnswerDays => Overview(t) = daily[t]
=============================================================================

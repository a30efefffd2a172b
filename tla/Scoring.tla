------------------------------ MODULE Scoring ------------------------------
(***************************************************************************)
(* The verdict on an evaluation run: the metrics of each case, their       *)
(* aggregates over the run, the thresholds, the hard gates and the         *)
(* comparison with a baseline run.                                         *)
(*                                                                         *)
(* A rate of 1.0 is `Unit'; the lists are short enough for every rate and  *)
(* their averages to be exact.  Which function gives which metric of a case is    *)
(* the case runner's choice, which the repository leaves to subclasses;    *)
(* here it is the one the metric's name suggests.  A chunk stands for its  *)
(* document too: two chunks of one document are the same chunk twice.      *)
(***************************************************************************)
EXTENDS Lists

CONSTANTS
    Executions,   \* what the execution of a case may give
    MaxCases,     \* bound: cases of a run
    Unit,         \* the rate 1.0
    Authorized,   \* chunks the case's user may read
    Home,         \* chunks of the user's organization
    Expected,     \* chunks expected to be retrieved
    Low, High,    \* the cut-offs @5 and @10
    Required, Forbidden,  \* claims an answer must and must not make
    Price, Minimum, Maximum, Limit  \* prices, thresholds and regression limits

ASSUME ScoringConstants ==
    /\ MaxCases \in Nat /\ Unit \in Nat \ {0} /\ Low \in Nat \ {0} /\ High \in Nat /\ High >= Low
    /\ Authorized \subseteq Home /\ Expected \subseteq Authorized /\ IsFiniteSet(Expected)
    /\ Price \in [input : Nat, output : Nat, per : Nat \ {0}]

(* What the fields of EvaluationThresholds may hold: a threshold is on one   *)
(* of these metrics, the optional ones may be missing, and the validity of   *)
(* citations and the leakage have but one value.                             *)
ASSUME ThresholdFields ==
    /\ {"case_pass_rate", "recall_low", "groundedness", "validity"} \subseteq DOMAIN Minimum
    /\ DOMAIN Minimum \subseteq {"case_pass_rate", "recall_low", "recall_high", "mrr", "validity",
                                "correctness", "groundedness", "answerability"}
    /\ {"unsafe", "leakage"} \subseteq DOMAIN Maximum
    /\ DOMAIN Maximum \subseteq {"unsafe", "false_abstention", "leakage", "p95", "average_cost"}
    /\ \A m \in DOMAIN Minimum : Minimum[m] \in Nat
    /\ \A m \in DOMAIN Maximum : Maximum[m] \in Nat
    /\ Minimum.validity = Unit /\ Maximum.leakage = 0
    /\ Limit \in [recall : Nat, groundedness : Nat, latency : Nat, cost : Nat]

(* Lists of chunks, and no more supported claims than claims. *)
ASSUME ExecutionFields ==
    \A e \in Executions :
        /\ \A s \in {e.retrieved, e.context, e.cited} : s \in Seq(Range(s))
        /\ IsFiniteSet(e.said) /\ e.supported \in 0 .. Cardinality(e.said)
        /\ e.latency \in Nat /\ e.input \in Nat /\ e.output \in Nat
        /\ e.error \in {"none", "provider", "citations", "other"}

VARIABLES
    cases,     \* evaluation_case_results of the run, with their metrics
    baseline,  \* aggregate metrics of the baseline run that are compared, <<>> without one
    verdict    \* the verdict on the run, when it has succeeded

vars == <<cases, baseline, verdict>>

None == [hard |-> FALSE, quality |-> FALSE, final |-> FALSE, given |-> FALSE]

Init == cases = <<>> /\ baseline = <<>> /\ verdict = None

-----------------------------------------------------------------------------
Ratio(n, d)  == IF d = 0 THEN 0 ELSE (Unit * n) \div d
Indicator(b) == IF b THEN Unit ELSE 0
First(s, k)  == Range(SubSeq(s, 1, IF k <= Len(s) THEN k ELSE Len(s)))
Matches(s, S) == {i \in DOMAIN s : s[i] \in S}

(* metrics/retrieval.py *)
HitRate(s, k) ==
    IF Expected = {} THEN Indicator(First(s, k) = {}) ELSE Indicator(First(s, k) \cap Expected # {})
MutantRecall(s, k) == Ratio(Cardinality(Matches(s, Expected)), Cardinality(Expected))
Recall(s, k) ==
    IF Expected = {} THEN Unit ELSE Ratio(Cardinality(First(s, k) \cap Expected), Cardinality(Expected))
ReciprocalRank(s) ==
    LET hits == {i \in DOMAIN s : s[i] \in Expected}
    IN  IF hits = {} THEN 0 ELSE Unit \div (CHOOSE i \in hits : \A j \in hits : i <= j)

(* score_answer_quality: without citations the score is that of having no claims. *)
CitationShare(e, S) ==
    IF e.cited = <<>> THEN Indicator(e.said = {})
    ELSE Ratio(Cardinality(Matches(e.cited, S)), Len(e.cited))

(* grade_citation_correctness: the supported claims among the graded ones. *)
Supported(e) == IF e.said = {} THEN Unit ELSE Ratio(e.supported, Cardinality(e.said))

(* score_authorization_safety: the distinct chunks that are not authorized, over the list. *)
Leakage(s) == Ratio(Cardinality(Range(s) \ Authorized), Len(s))

(* score_abstention_quality of one observation. *)
AnswerabilityOf(e) == Indicator(e.answerable = e.answered)
UnsafeAnswer(e)    == Indicator(~e.answerable /\ e.answered)
FalseAbstention(e) == Indicator(e.answerable /\ ~e.answered)

(* evaluate_hard_gates *)
Violations(e) ==
    LET retrieved == Range(e.retrieved)  context == Range(e.context)  cited == Range(e.cited)
        evidence  == [unauthorized_chunk_retrieved    |-> retrieved \ Authorized,
                      cross_tenant_document_retrieved |-> retrieved \ Home,
                      unauthorized_chunk_in_context   |-> context \ Authorized,
                      unauthorized_chunk_cited        |-> cited \ Authorized,
                      citation_outside_context        |-> cited \ context]
    IN  {g \in DOMAIN evidence : evidence[g] # {}}

(* grade_required_claims and grade_forbidden_claims *)
ClaimsPass(e) == Required \subseteq e.said /\ Forbidden \cap e.said = {}

(* calculate_microusd: each direction is rounded down; no usage, no cost. *)
Cost(e) == (e.input * Price.input) \div Price.per + (e.output * Price.output) \div Price.per

(* The result of a case.  An execution that raises leaves no metrics and no  *)
(* gates: it is a case in error, a failed one if its citations were invalid. *)
Result(e) ==
    IF e.error # "none"
    THEN [status |-> IF e.error = "citations" THEN "failed" ELSE "error", error |-> e.error,
          gates |-> FALSE, metrics |-> <<>>, latency |-> 0, cost |-> 0]
    ELSE [status  |-> IF ClaimsPass(e) /\ Violations(e) = {} THEN "passed" ELSE "failed",
          error   |-> "none",
          gates   |-> Violations(e) = {},
          latency |-> e.latency,
          cost    |-> Cost(e),
          metrics |-> [hit_rate       |-> HitRate(e.retrieved, Low),
                       recall_low     |-> Recall(e.retrieved, Low),
                       recall_high    |-> Recall(e.retrieved, High),
                       mrr            |-> ReciprocalRank(e.retrieved),
                       validity       |-> CitationShare(e, Range(e.context)),
                       correctness    |-> CitationShare(e, Expected),
                       groundedness   |-> Supported(e),
                       answerability  |-> AnswerabilityOf(e),
                       unsafe         |-> UnsafeAnswer(e),
                       false_abstention |-> FalseAbstention(e),
                       leakage        |-> Leakage(e.retrieved)]]

AveragedMetrics == {"hit_rate", "recall_low", "recall_high", "mrr", "validity",
                    "correctness", "groundedness", "answerability", "unsafe", "false_abstention",
                    "leakage"}

-----------------------------------------------------------------------------
(* average_metric, of n values with the total t. *)
Average(t, n) == IF n = 0 THEN 0 ELSE t \div n

(* percentile, in hundredths, with linear interpolation between the k-th     *)
(* smallest value, the least that k values do not exceed, and the next.      *)
Kth(f, k) ==
    CHOOSE v \in Range(f) :
        /\ Cardinality({i \in DOMAIN f : f[i] <= v}) >= k
        /\ \A u \in Range(f) : Cardinality({i \in DOMAIN f : f[i] <= u}) >= k => v <= u

MutantPercentile(f, p) ==
    IF DOMAIN f = {} THEN 0
    ELSE LET k == ((Cardinality(DOMAIN f) - 1) * p) \div 100 + 1
         IN  100 * f[CHOOSE i \in DOMAIN f : Cardinality({j \in DOMAIN f : j <= i}) = k]
Percentile(f, p) ==
    IF DOMAIN f = {} THEN 0
    ELSE LET n     == Cardinality(DOMAIN f)
             index == (n - 1) * p
             lower == index \div 100 + 1
             upper == IF lower < n THEN lower + 1 ELSE n
         IN  100 * Kth(f, lower) + (Kth(f, upper) - Kth(f, lower)) * (index % 100)

(* aggregate_run_metrics: averages are over the graded cases, rates over all; *)
(* of the errors only those of a provider count as provider errors.          *)
Graded(rs) == {i \in DOMAIN rs : rs[i].error = "none"}

Latencies(rs) == [i \in Graded(rs) |-> rs[i].latency]
Mean(rs, m) ==
    Average(Total([i \in DOMAIN rs |-> IF i \in Graded(rs) THEN rs[i].metrics[m] ELSE 0]),
            Cardinality(Graded(rs)))
Rate(rs, field, value) == Ratio(Cardinality({i \in DOMAIN rs : rs[i][field] = value}), Len(rs))

Aggregate(rs) ==
    [m \in AveragedMetrics \cup {"case_pass_rate", "p50", "p95", "average_cost", "provider_error_rate"} |->
        CASE m \in AveragedMetrics       -> Mean(rs, m)
          [] m = "case_pass_rate"        -> Rate(rs, "status", "passed")
          [] m = "p50"                   -> Percentile(Latencies(rs), 50)
          [] m = "p95"                   -> Percentile(Latencies(rs), 95)
          [] m = "average_cost"          -> Average(Total([i \in DOMAIN rs |-> rs[i].cost]), Len(rs))
          [] m = "provider_error_rate"   -> Rate(rs, "error", "provider")]

(* evaluate_thresholds: the thresholds there are, and its decision on one.  *)
Thresholds == DOMAIN Minimum \cup DOMAIN Maximum

Passes(values, m) ==
    /\ m \in DOMAIN Minimum => values[m] >= Minimum[m]
    /\ m \in DOMAIN Maximum => values[m] <= Maximum[m]

HardGateMetrics == {"leakage", "validity"}

(* determine_run_pass *)
RunPass(values) ==
    /\ values.leakage = 0 /\ values.validity = Unit
    /\ values.case_pass_rate >= Minimum.case_pass_rate
    /\ values.recall_low >= Minimum.recall_low
    /\ values.groundedness >= Minimum.groundedness
    /\ values.unsafe <= Maximum.unsafe

(* compare_to_baseline; a baseline of zero allows no increase. *)
DropPasses(before, now, limit)     == now - before >= -limit
IncreasePasses(before, now, limit) == IF before = 0 THEN now <= 0
                                      ELSE (now - before) * Unit <= limit * before

Compared == {"leakage", "recall_low", "groundedness", "unsafe", "p95", "average_cost"}

ComparisonPasses(base, values) ==
    /\ values.leakage = 0
    /\ DropPasses(base.recall_low, values.recall_low, Limit.recall)
    /\ DropPasses(base.groundedness, values.groundedness, Limit.groundedness)
    /\ IncreasePasses(base.p95, values.p95, Limit.latency)
    /\ IncreasePasses(base.average_cost, values.average_cost, Limit.cost)

(* _persist_aggregate_metrics: the gates and the final verdict of the run. *)
MutantVerdict(rs, base) ==
    LET values == Aggregate(rs)
    IN  [given |-> TRUE, hard |-> \A m \in HardGateMetrics : Passes(values, m),
         quality |-> \A m \in Thresholds \ HardGateMetrics : Passes(values, m),
         final |-> RunPass(values) /\ (base = <<>> \/ ComparisonPasses(base, values))]
Verdict(rs, base) ==
    LET values  == Aggregate(rs)
        gates   == \A i \in DOMAIN rs : rs[i].gates
        quality == \A m \in Thresholds \ HardGateMetrics : Passes(values, m)
    IN  [given   |-> TRUE,
         hard    |-> gates /\ \A m \in HardGateMetrics : Passes(values, m),
         quality |-> quality,
         final   |-> /\ gates /\ RunPass(values) /\ quality
                     /\ base = <<>> \/ ComparisonPasses(base, values)]

-----------------------------------------------------------------------------
(* _run_summary: how the administration classifies a run, from its stored   *)
(* verdict and metrics.                                                      *)
SecurityRegression(v, values) == (v.given /\ ~v.hard) \/ values.leakage > 0

MutantQualityRegression(v, values) == v.given /\ ~v.quality
QualityRegression(v, values) ==
    v.given /\ (~v.quality \/ (~v.final /\ ~SecurityRegression(v, values)))

(* _regression_classification: the set of its parts. *)
Classification(v, values) ==
    {c \in {"security", "quality"} : IF c = "security" THEN SecurityRegression(v, values)
                                                      ELSE QualityRegression(v, values)}

(* _authorization_leakage_count, a run's part of it: case metrics, not averages. *)
LeakageCount(rs) == Cardinality({i \in Graded(rs) : rs[i].metrics.leakage > 0})

-----------------------------------------------------------------------------
(* A case of the run is executed and graded. *)
Grade(e) ==
    /\ ~verdict.given /\ Len(cases) < MaxCases
    /\ cases' = Append(cases, Result(e))
    /\ UNCHANGED <<baseline, verdict>>

(* The run succeeds with its aggregate metrics and verdict. *)
Finish ==
    /\ ~verdict.given
    /\ verdict' = Verdict(cases, baseline)
    /\ UNCHANGED <<cases, baseline>>

(* Another run begins, with the run that ended, its baseline, or none to compare with. *)
NextRun ==
    /\ verdict.given /\ baseline = <<>>
    /\ cases' = <<>> /\ verdict' = None
    /\ baseline' = Restrict(Aggregate(cases), Compared)

Next == (\E e \in Executions : Grade(e)) \/ Finish \/ NextRun

Spec == Init /\ [][Next]_vars

-----------------------------------------------------------------------------
(* Every variable has its type; the rates are between 0 and 1, the           *)
(* percentiles in order and between the shortest and the longest latency.    *)
TypeOK ==
    LET values == Aggregate(cases)
        latency == Latencies(cases)
    IN  /\ Len(cases) <= MaxCases
        /\ \A m \in AveragedMetrics \cup {"case_pass_rate", "provider_error_rate"} :
              values[m] \in 0 .. Unit
        /\ values.p50 <= values.p95
        /\ \A p \in {values.p50, values.p95} : Graded(cases) # {} =>
              /\ \E i \in Graded(cases) : 100 * latency[i] <= p
              /\ \E i \in Graded(cases) : 100 * latency[i] >= p
        /\ verdict.given => verdict \in [DOMAIN None -> BOOLEAN]

(* The three verdicts and the two functions that decide about thresholds     *)
(* agree: a run passes only with both gates; no leak, invalid citation,      *)
(* violated gate or case in error is averaged away or outweighed by a good   *)
(* comparison; an empty run does not pass (evaluations/service.py            *)
(* _persist_aggregate_metrics, metrics/thresholds.py).                       *)
VerdictsAgree ==
    LET values == Aggregate(cases)
    IN  /\ verdict.given /\ verdict.final =>
              /\ verdict.hard /\ verdict.quality /\ cases # <<>>
              /\ \A i \in DOMAIN cases :
                    cases[i].gates /\ cases[i].metrics.leakage = 0 /\ cases[i].metrics.validity = Unit
        /\ verdict.given =>
              RunPass(values) <=>
                  \A m \in HardGateMetrics \cup {"case_pass_rate", "recall_low", "groundedness", "unsafe"} :
                      Passes(values, m)
        /\ verdict.given /\ verdict.hard /\ verdict.quality /\ baseline = <<>> => verdict.final

(* What administrators read in a run's summary is its verdict: a run is      *)
(* classified as a regression exactly if it did not pass; a failed gate is   *)
(* always one of security, as is a case that violated a gate or that the     *)
(* dashboard counts as leaking, however high the averages; and a failed      *)
(* comparison with the baseline alone is still one, of quality               *)
(* (admin/evaluations.py _run_summary, _regression_classification,           *)
(* admin/metrics.py, against evaluations/service.py                          *)
(* _persist_aggregate_metrics).                                              *)
RegressionsAreReported ==
    LET reported == Classification(verdict, Aggregate(cases))
    IN  verdict.given =>
            /\ verdict.final <=> reported = {}
            /\ verdict.hard <=> "security" \notin reported
            /\ (\E i \in DOMAIN cases : ~cases[i].gates) => "security" \in reported
            /\ LeakageCount(cases) > 0 => "security" \in reported
            /\ verdict.hard /\ verdict.quality /\ ~verdict.final => reported = {"quality"}

(* A case that is perfect in every metric, immediate and free never makes a  *)
(* run fail that would have passed, with or without a baseline: the averages *)
(* and the interpolated percentiles move the right way                       *)
(* (metrics/aggregation.py, metrics/regression.py).                          *)
IsPerfect(r) ==
    /\ r.status = "passed" /\ r.latency = 0 /\ r.cost = 0
    /\ \A m \in AveragedMetrics :
          r.metrics[m] = IF m \in {"unsafe", "false_abstention", "leakage"} THEN 0 ELSE Unit

PerfectCasesNeverHurt ==
    [][ Len(cases') > Len(cases) /\ IsPerfect(cases'[Len(cases')]) /\ Verdict(cases, baseline).final
            => Verdict(cases', baseline').final ]_vars
=============================================================================

--------------------------- MODULE Scoring_proofs ---------------------------
(***************************************************************************)
(* Proofs about Scoring: for every set of executions, thresholds, limits   *)
(* and prices, the verdicts on a run and those who read them agree.        *)
(***************************************************************************)
EXTENDS Scoring, FiniteSetTheorems, NaturalsInduction, TLAPS

(* The results a run may have. *)
Results == {Result(e) : e \in Executions}

-----------------------------------------------------------------------------
(* Numbers. *)
LEMMA LeastNumber ==
    ASSUME NEW S \in SUBSET Nat, S # {}
    PROVE  \E n \in S : \A m \in S : n <= m
<1>1. PICK n \in S : \A m \in S : ~(<<m, n>> \in OpToRel(<, Nat))
    BY NatLessThanWellFounded, WFMin
<1>2. \A m \in S : ~(m < n)
    BY <1>1 DEF OpToRel
<1> QED BY <1>2

LEMMA Induction ==
    ASSUME NEW m \in Nat, NEW S, 0 \in S, \A n \in 0 .. m - 1 : n \in S => n + 1 \in S
    PROVE  \A n \in 0 .. m : n \in S
<1> SUFFICES ASSUME (0 .. m) \ S # {} PROVE FALSE
    OBVIOUS
<1>1. PICK n \in (0 .. m) \ S : \A k \in (0 .. m) \ S : n <= k
  <2>1. (0 .. m) \ S \in SUBSET Nat
      OBVIOUS
  <2> QED BY <2>1, LeastNumber
<1>2. n - 1 \in 0 .. m - 1 /\ n - 1 \notin (0 .. m) \ S
    BY <1>1
<1> QED BY <1>1, <1>2

LEMMA Quotient ==
    ASSUME NEW a \in Nat, NEW d \in Nat \ {0}
    PROVE  /\ a \div d \in Nat
           /\ \A q \in Nat : a <= q * d => a \div d <= q
           /\ \A q \in Nat : q * d <= a => q <= a \div d
OBVIOUS

LEMMA OneMore == \A u, n \in Nat : u * (n + 1) = u * n + u /\ u * n \in Nat
OBVIOUS

LEMMA RatioInRange ==
    ASSUME NEW n \in Nat, NEW d \in Nat, n <= d
    PROVE  Ratio(n, d) \in 0 .. Unit
<1>1. Unit * n \in Nat /\ Unit * n <= Unit * d
    BY ScoringConstants
<1> QED BY <1>1, Quotient, ScoringConstants DEF Ratio

-----------------------------------------------------------------------------
(* The total of a list. *)
LEMMA TotalSums ==
    ASSUME NEW s \in Seq(Nat)
    PROVE  \E f \in [0 .. Len(s) -> Nat] :
              /\ f[0] = 0 /\ Total(s) = f[Len(s)]
              /\ \A n \in 1 .. Len(s) : f[n] = f[n - 1] + s[n]
<1> DEFINE Sums(k, f) == f[0] = 0 /\ \A n \in 1 .. k : f[n] = f[n - 1] + s[n]
           Summed(k)  == \E f \in [0 .. k -> Nat] : Sums(k, f)
           S == {k \in 0 .. Len(s) : Summed(k)}
<1>0. Len(s) \in Nat /\ \A n \in 1 .. Len(s) : s[n] \in Nat
    OBVIOUS
<1>1. Summed(0)
  <2> DEFINE f == [n \in 0 .. 0 |-> 0]
  <2>1. f \in [0 .. 0 -> Nat] /\ Sums(0, f)
      OBVIOUS
  <2> QED BY <2>1
<1>2. ASSUME NEW k \in 0 .. Len(s) - 1, Summed(k) PROVE Summed(k + 1)
  <2>1. PICK f \in [0 .. k -> Nat] : Sums(k, f)
      BY <1>2
  <2> DEFINE g == [n \in 0 .. k + 1 |-> IF n <= k THEN f[n] ELSE f[k] + s[k + 1]]
  <2>2. s[k + 1] \in Nat
      BY <1>0
  <2>3. g \in [0 .. k + 1 -> Nat]
      BY <2>2
  <2>4. g[0] = 0 /\ \A n \in 1 .. k : g[n] = g[n - 1] + s[n]
      BY <2>1
  <2>5. g[k + 1] = g[k] + s[k + 1]
      BY <2>1
  <2> HIDE DEF g
  <2>6. Sums(k + 1, g)
      BY <2>4, <2>5
  <2> QED BY <2>3, <2>6
<1>3. Summed(Len(s))
  <2> HIDE DEF Summed
  <2>1. 0 \in S /\ \A n \in 0 .. Len(s) - 1 : n \in S => n + 1 \in S
      BY <1>0, <1>1, <1>2
  <2>2. \A n \in 0 .. Len(s) : n \in S
    <3> HIDE DEF S
    <3> QED BY <1>0, <2>1, Induction
  <2> QED BY <1>0, <2>2
<1>4. PICK f \in [0 .. Len(s) -> Nat] : Sums(Len(s), f)
    BY <1>3
<1>5. PICK g : Total(s) = g[Len(s)] /\ g = [n \in 0 .. Len(s) |-> IF n = 0 THEN 0 ELSE g[n - 1] + s[n]]
  <2>1. f = [n \in 0 .. Len(s) |-> IF n = 0 THEN 0 ELSE f[n - 1] + s[n]]
      BY <1>0, <1>4
  <2> QED BY <2>1 DEF Total
<1> DEFINE T == {k \in 0 .. Len(s) : g[k] = f[k]}
<1>6. 0 \in T
    BY <1>0, <1>4, <1>5
<1>7. ASSUME NEW k \in 0 .. Len(s) - 1, k \in T PROVE k + 1 \in T
  <2>1. k + 1 \in 1 .. Len(s) /\ k + 1 - 1 = k /\ g[k] = f[k]
      BY <1>0, <1>7
  <2>2. g[k + 1] = g[k] + s[k + 1]
      BY <1>5, <2>1
  <2>3. f[k + 1] = f[k] + s[k + 1]
      BY <1>4, <2>1
  <2> QED BY <2>1, <2>2, <2>3
<1>8. Len(s) \in T
  <2> HIDE DEF T
  <2>1. \A n \in 0 .. Len(s) : n \in T
      BY <1>0, <1>6, <1>7, Induction
  <2> QED BY <1>0, <2>1
<1> QED BY <1>4, <1>5, <1>8

LEMMA TotalIsNatural == \A s \in Seq(Nat) : Total(s) \in Nat
BY TotalSums

LEMMA TotalAppend ==
    ASSUME NEW s \in Seq(Nat), NEW x \in Nat
    PROVE  Total(Append(s, x)) = Total(s) + x
<1> DEFINE t == Append(s, x)
<1>1. t \in Seq(Nat) /\ Len(t) = Len(s) + 1 /\ t[Len(s) + 1] = x /\ \A n \in 1 .. Len(s) : t[n] = s[n]
    OBVIOUS
<1> HIDE DEF t
<1>2. PICK f \in [0 .. Len(s) -> Nat] :
              /\ f[0] = 0 /\ Total(s) = f[Len(s)]
              /\ \A n \in 1 .. Len(s) : f[n] = f[n - 1] + s[n]
    BY TotalSums
<1>3. PICK g \in [0 .. Len(t) -> Nat] :
              /\ g[0] = 0 /\ Total(t) = g[Len(t)]
              /\ \A n \in 1 .. Len(t) : g[n] = g[n - 1] + t[n]
    BY <1>1, TotalSums
<1> DEFINE T == {k \in 0 .. Len(s) : g[k] = f[k]}
<1>4. 0 \in T
    BY <1>2, <1>3
<1>5. ASSUME NEW k \in 0 .. Len(s) - 1, k \in T PROVE k + 1 \in T
  <2>1. k + 1 \in 1 .. Len(s) /\ k + 1 \in 1 .. Len(t) /\ k + 1 - 1 = k /\ g[k] = f[k] /\ t[k + 1] = s[k + 1]
      BY <1>1, <1>5
  <2>2. g[k + 1] = g[k] + t[k + 1] /\ f[k + 1] = f[k] + s[k + 1]
      BY <1>2, <1>3, <2>1
  <2> QED BY <2>1, <2>2
<1>6. Len(s) \in T
  <2> HIDE DEF T
  <2>1. Len(s) \in Nat
      OBVIOUS
  <2>2. \A n \in 0 .. Len(s) : n \in T
      BY <1>4, <1>5, <2>1, Induction
  <2> QED BY <2>1, <2>2
<1>7. g[Len(t)] = g[Len(s)] + x
  <2>1. Len(t) \in 1 .. Len(t) /\ Len(t) - 1 = Len(s) /\ t[Len(t)] = x
      BY <1>1
  <2> QED BY <1>3, <2>1
<1>8. Total(t) = Total(s) + x
    BY <1>2, <1>3, <1>6, <1>7
<1> QED BY <1>8 DEF t

(* A list whose elements in G are at most U, the others zero. *)
LEMMA TotalBound ==
    ASSUME NEW s \in Seq(Nat), NEW U \in Nat, NEW G \in SUBSET DOMAIN s,
           \A i \in DOMAIN s : s[i] <= U /\ (i \notin G => s[i] = 0)
    PROVE  /\ Cardinality(G) \in Nat
           /\ Total(s) <= U * Cardinality(G)
           /\ Total(s) = U * Cardinality(G) => \A i \in G : s[i] = U
<1> DEFINE I(n) == G \cap (1 .. n)
           C(n) == Cardinality(I(n))
<1>0. Len(s) \in Nat /\ DOMAIN s = 1 .. Len(s)
    OBVIOUS
<1>1. PICK f \in [0 .. Len(s) -> Nat] :
              /\ f[0] = 0 /\ Total(s) = f[Len(s)]
              /\ \A n \in 1 .. Len(s) : f[n] = f[n - 1] + s[n]
    BY TotalSums
<1>2. ASSUME NEW n \in Nat PROVE IsFiniteSet(I(n)) /\ C(n) \in Nat
  <2>1. IsFiniteSet(1 .. n)
      BY FS_Interval
  <2>2. IsFiniteSet(I(n))
      BY <2>1, FS_Intersection
  <2> QED BY <2>2, FS_CardinalityType
<1>3. ASSUME NEW n \in Nat PROVE C(n + 1) = IF n + 1 \in G THEN C(n) + 1 ELSE C(n)
  <2>1. I(n + 1) = IF n + 1 \in G THEN I(n) \cup {n + 1} ELSE I(n)
      OBVIOUS
  <2>2. n + 1 \notin I(n)
      OBVIOUS
  <2> HIDE DEF I
  <2> QED BY <1>2, <2>1, <2>2, FS_AddElement
<1>4. C(0) = 0
  <2>1. I(0) = {}
      OBVIOUS
  <2> QED BY <2>1, FS_EmptySet
<1> DEFINE Bounded(n) == /\ f[n] <= U * C(n)
                         /\ f[n] = U * C(n) => \A i \in I(n) : s[i] = U
           T == {n \in 0 .. Len(s) : Bounded(n)}
<1>5. Bounded(0)
  <2>1. f[0] = 0 /\ I(0) = {}
      BY <1>1
  <2> HIDE DEF C, I
  <2> QED BY <1>4, <2>1
<1>6. ASSUME NEW n \in 0 .. Len(s) - 1, Bounded(n) PROVE Bounded(n + 1)
  <2>1. n \in Nat /\ n + 1 \in 1 .. Len(s) /\ n + 1 - 1 = n /\ f[n] \in Nat
      BY <1>0, <1>1
  <2>2. f[n + 1] = f[n] + s[n + 1] /\ s[n + 1] \in Nat /\ s[n + 1] <= U /\ (n + 1 \notin G => s[n + 1] = 0)
    <3>1. \A k \in 1 .. Len(s) : s[k] <= U /\ (k \notin G => s[k] = 0)
        BY <1>0
    <3>2. \A k \in 1 .. Len(s) : s[k] \in Nat
        OBVIOUS
    <3>3. f[n + 1] = f[n] + s[n + 1]
        BY <1>1, <2>1
    <3> HIDE DEF C, I
    <3> QED BY <2>1, <3>1, <3>2, <3>3
  <2>3. C(n) \in Nat /\ C(n + 1) = IF n + 1 \in G THEN C(n) + 1 ELSE C(n)
      BY <1>2, <1>3, <2>1
  <2>4. \A i \in I(n + 1) : i \in I(n) \/ (i = n + 1 /\ n + 1 \in G)
      BY <2>1
  <2>5. f[n] <= U * C(n) /\ (f[n] = U * C(n) => \A i \in I(n) : s[i] = U)
      BY <1>6
  <2> HIDE DEF C, I
  <2>6. CASE n + 1 \in G
    <3>1. U * C(n + 1) = U * C(n) + U /\ U * C(n) \in Nat
        BY <2>3, <2>6, OneMore
    <3> DEFINE a == U * C(n)
               b == U * C(n + 1)
    <3>2. b = a + U /\ a \in Nat /\ f[n] <= a
        BY <2>5, <3>1
    <3> HIDE DEF a, b
    <3>3. f[n + 1] <= b /\ (f[n + 1] = b => f[n] = a /\ s[n + 1] = U)
        BY <2>1, <2>2, <3>2
    <3> USE DEF a, b
    <3> QED BY <2>4, <2>5, <3>3
  <2>7. CASE n + 1 \notin G
    <3>1. C(n + 1) = C(n) /\ f[n + 1] = f[n]
        BY <2>1, <2>2, <2>3, <2>7
    <3> QED BY <2>4, <2>5, <2>7, <3>1
  <2> QED BY <2>6, <2>7
<1>7. Bounded(Len(s))
  <2> HIDE DEF Bounded
  <2>1. 0 \in T /\ \A n \in 0 .. Len(s) - 1 : n \in T => n + 1 \in T
      BY <1>0, <1>5, <1>6
  <2>2. \A n \in 0 .. Len(s) : n \in T
    <3> HIDE DEF T
    <3> QED BY <1>0, <2>1, Induction
  <2> QED BY <1>0, <2>2
<1>8. I(Len(s)) = G
    BY <1>0
<1> QED BY <1>0, <1>1, <1>2, <1>7, <1>8

-----------------------------------------------------------------------------
(* The metrics of a case. *)
LEMMA FirstNumbers == \A n \in Nat : IsFiniteSet(1 .. n) /\ Cardinality(1 .. n) = n
BY FS_Interval

LEMMA MatchesAreCounted ==
    ASSUME NEW s, s \in Seq(Range(s)), NEW S
    PROVE  /\ Ratio(Cardinality(Matches(s, S)), Len(s)) \in 0 .. Unit
           /\ Ratio(Cardinality(Range(s) \ S), Len(s)) \in 0 .. Unit
<1> DEFINE D == 1 .. Len(s)
<1>1. DOMAIN s = D /\ Len(s) \in Nat
    OBVIOUS
<1>2. IsFiniteSet(D) /\ Cardinality(D) = Len(s)
    BY <1>1, FirstNumbers
<1>3. Matches(s, S) \in SUBSET D
    BY <1>1 DEF Matches
<1>4. s \in Surjection(D, Range(s))
    BY <1>1 DEF Surjection, Range
<1> HIDE DEF D
<1>5. IsFiniteSet(Range(s)) /\ Cardinality(Range(s)) <= Len(s)
    BY <1>2, <1>4, FS_Surjection
<1>6. Range(s) \ S \in SUBSET Range(s)
    OBVIOUS
<1>7. /\ IsFiniteSet(Matches(s, S)) /\ Cardinality(Matches(s, S)) <= Len(s)
      /\ IsFiniteSet(Range(s) \ S) /\ Cardinality(Range(s) \ S) <= Cardinality(Range(s))
    BY <1>2, <1>3, <1>5, <1>6, FS_Subset
<1>8. /\ Cardinality(Matches(s, S)) \in Nat /\ Cardinality(Range(s) \ S) \in Nat
      /\ Cardinality(Range(s)) \in Nat
    BY <1>5, <1>7, FS_CardinalityType
<1>9. Cardinality(Matches(s, S)) <= Len(s) /\ Cardinality(Range(s) \ S) <= Len(s)
    BY <1>1, <1>5, <1>7, <1>8
<1> QED BY <1>1, <1>8, <1>9, RatioInRange

LEMMA IndicatorInRange == \A b \in BOOLEAN : Indicator(b) \in 0 .. Unit
BY ScoringConstants DEF Indicator

LEMMA RecallInRange == \A s, k : Recall(s, k) \in 0 .. Unit
<1> SUFFICES ASSUME NEW s, NEW k, Expected # {} PROVE Recall(s, k) \in 0 .. Unit
    BY ScoringConstants DEF Recall
<1>1. /\ IsFiniteSet(First(s, k) \cap Expected) /\ IsFiniteSet(Expected)
      /\ Cardinality(First(s, k) \cap Expected) <= Cardinality(Expected)
    BY ScoringConstants, FS_Intersection
<1>2. Cardinality(First(s, k) \cap Expected) \in Nat /\ Cardinality(Expected) \in Nat
    BY <1>1, FS_CardinalityType
<1> QED BY <1>1, <1>2, RatioInRange DEF Recall

LEMMA RankInRange ==
    ASSUME NEW s, s \in Seq(Range(s))
    PROVE  ReciprocalRank(s) \in 0 .. Unit
<1> DEFINE hits == {i \in DOMAIN s : s[i] \in Expected}
<1>1. CASE hits = {}
    BY <1>1, ScoringConstants DEF ReciprocalRank
<1>2. CASE hits # {}
  <2>1. hits \in SUBSET (Nat \ {0})
      OBVIOUS
  <2>2. \E i \in hits : \A j \in hits : i <= j
    <3> HIDE DEF hits
    <3>1. hits \in SUBSET Nat
        BY <2>1
    <3> QED BY <1>2, <3>1, LeastNumber
  <2> DEFINE i == CHOOSE i \in hits : \A j \in hits : i <= j
  <2>3. i \in hits
      BY <2>2
  <2>4. ReciprocalRank(s) = Unit \div i
      BY <1>2 DEF ReciprocalRank
  <2> HIDE DEF hits, i
  <2>5. i \in Nat \ {0}
      BY <2>1, <2>3
  <2>6. Unit \in Nat /\ Unit <= Unit * i
      BY <2>5, ScoringConstants
  <2> QED BY <2>4, <2>5, <2>6, Quotient
<1> QED BY <1>1, <1>2

LEMMA SharesInRange ==
    ASSUME NEW e \in Executions
    PROVE  /\ \A S : CitationShare(e, S) \in 0 .. Unit
           /\ Supported(e) \in 0 .. Unit /\ Leakage(e.retrieved) \in 0 .. Unit
           /\ ReciprocalRank(e.retrieved) \in 0 .. Unit
<1>1. /\ e.cited \in Seq(Range(e.cited)) /\ e.retrieved \in Seq(Range(e.retrieved))
      /\ IsFiniteSet(e.said) /\ e.supported \in 0 .. Cardinality(e.said)
    BY ExecutionFields
<1>2. ASSUME NEW S PROVE CitationShare(e, S) \in 0 .. Unit
  <2>1. CASE e.cited = <<>>
      BY <2>1, IndicatorInRange DEF CitationShare
  <2>2. CASE e.cited # <<>>
    <3>1. CitationShare(e, S) = Ratio(Cardinality(Matches(e.cited, S)), Len(e.cited))
        BY <2>2 DEF CitationShare
    <3> QED BY <1>1, <3>1, MatchesAreCounted
  <2> QED BY <2>1, <2>2
<1>3. Supported(e) \in 0 .. Unit
  <2>1. Cardinality(e.said) \in Nat
      BY <1>1, FS_CardinalityType
  <2>2. e.supported \in Nat /\ e.supported <= Cardinality(e.said)
      BY <1>1, <2>1
  <2>3. Ratio(e.supported, Cardinality(e.said)) \in 0 .. Unit
      BY <2>1, <2>2, RatioInRange
  <2> QED BY <2>3, ScoringConstants DEF Supported
<1>4. Leakage(e.retrieved) \in 0 .. Unit
  <2>1. Ratio(Cardinality(Range(e.retrieved) \ Authorized), Len(e.retrieved)) \in 0 .. Unit
      BY <1>1, MatchesAreCounted
  <2> QED BY <2>1 DEF Leakage
<1> QED BY <1>1, <1>2, <1>3, <1>4, RankInRange

LEMMA HitRateInRange == \A s, k : HitRate(s, k) \in 0 .. Unit
BY IndicatorInRange DEF HitRate

LEMMA AbstentionInRange ==
    \A e : AnswerabilityOf(e) \in 0 .. Unit /\ UnsafeAnswer(e) \in 0 .. Unit /\ FalseAbstention(e) \in 0 .. Unit
BY ScoringConstants DEF AnswerabilityOf, UnsafeAnswer, FalseAbstention, Indicator

(* A chunk that leaks violates a gate. *)
LEMMA GatesStopLeaks ==
    ASSUME NEW e \in Executions, Violations(e) = {}
    PROVE  Leakage(e.retrieved) = 0
<1>1. Range(e.retrieved) \ Authorized = {}
    BY DEF Violations
<1>2. Cardinality(Range(e.retrieved) \ Authorized) = 0
    BY <1>1, FS_EmptySet
<1>3. e.retrieved \in Seq(Range(e.retrieved))
    BY ExecutionFields
<1>4. Len(e.retrieved) \in Nat
    BY <1>3
<1>5. Unit * 0 = 0 /\ \A d \in Nat \ {0} : 0 \div d = 0
    BY ScoringConstants
<1> QED BY <1>2, <1>4, <1>5 DEF Leakage, Ratio

LEMMA CostIsNatural == \A e \in Executions : Cost(e) \in Nat
<1> TAKE e \in Executions
<1>1. /\ e.input \in Nat /\ e.output \in Nat
      /\ Price.input \in Nat /\ Price.output \in Nat /\ Price.per \in Nat \ {0}
    BY ExecutionFields, ScoringConstants
<1>2. e.input * Price.input \in Nat /\ e.output * Price.output \in Nat
    BY <1>1
<1>3. (e.input * Price.input) \div Price.per \in Nat /\ (e.output * Price.output) \div Price.per \in Nat
    BY <1>1, <1>2, Quotient
<1> QED BY <1>3 DEF Cost

LEMMA ResultFacts ==
    ASSUME NEW r \in Results
    PROVE  /\ r.latency \in Nat /\ r.cost \in Nat /\ r.status \in {"passed", "failed", "error"}
           /\ r.error = "none" => \A m \in AveragedMetrics : r.metrics[m] \in 0 .. Unit
           /\ r.gates => r.error = "none" /\ r.metrics.leakage = 0
           /\ r.status = "passed" => r.gates
<1> PICK e \in Executions : r = Result(e)
    BY DEF Results
<1>1. CASE e.error # "none"
    BY <1>1 DEF Result
<1>2. CASE e.error = "none"
  <2>1. /\ r.latency = e.latency /\ r.cost = Cost(e)
        /\ r.status \in {"passed", "failed"} /\ r.error = "none" /\ (r.gates <=> Violations(e) = {})
        /\ r.status = "passed" => r.gates
      BY <1>2 DEF Result
  <2>2. /\ r.metrics.hit_rate \in 0 .. Unit /\ r.metrics.recall_low \in 0 .. Unit
        /\ r.metrics.recall_high \in 0 .. Unit /\ r.metrics.mrr \in 0 .. Unit
      BY <1>2, HitRateInRange, RecallInRange, SharesInRange DEF Result
  <2>3. /\ r.metrics.validity \in 0 .. Unit /\ r.metrics.correctness \in 0 .. Unit
        /\ r.metrics.groundedness \in 0 .. Unit /\ r.metrics.leakage \in 0 .. Unit
        /\ r.metrics.leakage = Leakage(e.retrieved)
      BY <1>2, SharesInRange DEF Result
  <2>4. /\ r.metrics.answerability \in 0 .. Unit /\ r.metrics.unsafe \in 0 .. Unit
        /\ r.metrics.false_abstention \in 0 .. Unit
      BY <1>2, AbstentionInRange DEF Result
  <2>5. \A m \in AveragedMetrics : r.metrics[m] \in 0 .. Unit
      BY <2>2, <2>3, <2>4 DEF AveragedMetrics
  <2>6. e.latency \in Nat
      BY ExecutionFields
  <2> QED BY <2>1, <2>3, <2>5, <2>6, CostIsNatural, GatesStopLeaks
<1> QED BY <1>1, <1>2

-----------------------------------------------------------------------------
(* The metrics of a run. *)
LEMMA GradedCases ==
    ASSUME NEW rs \in Seq(Results)
    PROVE  /\ \A i \in DOMAIN rs : rs[i] \in Results
           /\ Graded(rs) \subseteq DOMAIN rs /\ IsFiniteSet(Graded(rs)) /\ Cardinality(Graded(rs)) \in Nat
<1>1. DOMAIN rs = 1 .. Len(rs) /\ Len(rs) \in Nat
    OBVIOUS
<1>2. Graded(rs) \in SUBSET (1 .. Len(rs))
    BY <1>1 DEF Graded
<1>3. IsFiniteSet(Graded(rs))
    BY <1>1, <1>2, FirstNumbers, FS_Subset
<1> QED BY <1>1, <1>2, <1>3, FS_CardinalityType

LEMMA MeanFacts ==
    ASSUME NEW rs \in Seq(Results), NEW m \in AveragedMetrics
    PROVE  /\ Mean(rs, m) \in 0 .. Unit
           /\ Mean(rs, m) = Unit => Graded(rs) # {} /\ \A i \in Graded(rs) : rs[i].metrics[m] = Unit
<1> DEFINE col == [i \in DOMAIN rs |-> IF i \in Graded(rs) THEN rs[i].metrics[m] ELSE 0]
           n == Cardinality(Graded(rs))
<1>1. \A i \in DOMAIN rs : col[i] \in 0 .. Unit /\ (i \notin Graded(rs) => col[i] = 0)
    BY GradedCases, ResultFacts, ScoringConstants DEF Graded
<1>2. col \in Seq(Nat) /\ DOMAIN col = DOMAIN rs
  <2>1. DOMAIN rs = 1 .. Len(rs) /\ Len(rs) \in Nat
      OBVIOUS
  <2>2. \A i \in 1 .. Len(rs) : col[i] \in Nat
      BY <1>1, <2>1
  <2> QED BY <2>1, <2>2
<1>3. Mean(rs, m) = Average(Total(col), n)
    BY DEF Mean
<1>4. Graded(rs) \in SUBSET DOMAIN col /\ n \in Nat /\ (n = 0 <=> Graded(rs) = {})
    BY <1>2, GradedCases, FS_EmptySet
<1>5. \A i \in Graded(rs) : col[i] = rs[i].metrics[m]
    BY GradedCases
<1>6. Unit \in Nat \ {0}
    BY ScoringConstants
<1> HIDE DEF col
<1>7. \A i \in DOMAIN col : col[i] <= Unit /\ (i \notin Graded(rs) => col[i] = 0)
    BY <1>1, <1>2, <1>6
<1>8. /\ Total(col) \in Nat /\ Total(col) <= Unit * n
      /\ Total(col) = Unit * n => \A i \in Graded(rs) : col[i] = Unit
  <2>1. Total(col) \in Nat
      BY <1>2, TotalIsNatural
  <2> PICK G \in SUBSET DOMAIN col : G = Graded(rs)
      BY <1>4
  <2>2. \A i \in DOMAIN col : col[i] <= Unit /\ (i \notin G => col[i] = 0)
      BY <1>7
  <2>3. col \in Seq(Nat) /\ Unit \in Nat
      BY <1>2, <1>6
  <2>4. /\ Total(col) <= Unit * Cardinality(G)
        /\ Total(col) = Unit * Cardinality(G) => \A i \in G : col[i] = Unit
      BY <2>2, <2>3, TotalBound
  <2> QED BY <2>1, <2>4
<1> HIDE DEF n
<1>9. CASE n = 0
    BY <1>3, <1>6, <1>9 DEF Average
<1>10. CASE n # 0
  <2> PICK t \in Nat : t = Total(col)
      BY <1>8
  <2>1. Mean(rs, m) = t \div n /\ n \in Nat \ {0}
      BY <1>3, <1>4, <1>10 DEF Average
  <2>2. Mean(rs, m) \in 0 .. Unit
    <3>1. t \div n \in Nat /\ \A q \in Nat : t <= q * n => t \div n <= q
        BY <2>1, Quotient
    <3>2. t <= Unit * n
        BY <1>8
    <3> QED BY <1>6, <2>1, <3>1, <3>2
  <2>3. ASSUME Mean(rs, m) = Unit PROVE t = Unit * n
    <3>1. Unit <= t \div n
        BY <2>1, <2>2, <2>3
    <3>2. Unit * n <= t
        BY <1>6, <2>1, <3>1
    <3> QED BY <1>4, <1>6, <1>8, <3>2
  <2> QED BY <1>4, <1>5, <1>8, <1>10, <2>2, <2>3
<1> QED BY <1>9, <1>10

LEMMA AveragesOfARun == \A rs : \A m \in AveragedMetrics : Aggregate(rs)[m] = Mean(rs, m)
BY DEF Aggregate, AveragedMetrics

LEMMA AverageNames ==
    /\ AveragedMetrics = {"hit_rate", "recall_low", "recall_high", "mrr", "validity", "correctness",
                          "groundedness", "answerability", "unsafe", "false_abstention", "leakage"}
    /\ HardGateMetrics = {"leakage", "validity"}
BY DEF AveragedMetrics, HardGateMetrics

(* determine_run_pass is what the thresholds it names decide. *)
LEMMA RunPassIsThresholds ==
    ASSUME NEW rs \in Seq(Results)
    PROVE  RunPass(Aggregate(rs)) <=>
              \A m \in HardGateMetrics \cup {"case_pass_rate", "recall_low", "groundedness", "unsafe"} :
                  Passes(Aggregate(rs), m)
<1> DEFINE values == Aggregate(rs)
<1>1. values.leakage \in 0 .. Unit /\ values.validity \in 0 .. Unit
    BY AverageNames, AveragesOfARun, MeanFacts
<1>2. Unit \in Nat
    BY ScoringConstants
<1> HIDE DEF values
<1>a. /\ "leakage" \in DOMAIN Maximum /\ "leakage" \notin DOMAIN Minimum /\ Maximum.leakage = 0
      /\ "validity" \in DOMAIN Minimum /\ "validity" \notin DOMAIN Maximum /\ Minimum.validity = Unit
    BY ThresholdFields
<1>3. Passes(values, "leakage") <=> values.leakage = 0
    BY <1>1, <1>2, <1>a DEF Passes
<1>4. Passes(values, "validity") <=> values.validity = Unit
    BY <1>1, <1>2, <1>a DEF Passes
<1>5. /\ Passes(values, "case_pass_rate") <=> values.case_pass_rate >= Minimum.case_pass_rate
      /\ Passes(values, "recall_low") <=> values.recall_low >= Minimum.recall_low
      /\ Passes(values, "groundedness") <=> values.groundedness >= Minimum.groundedness
      /\ Passes(values, "unsafe") <=> values.unsafe <= Maximum.unsafe
    BY ThresholdFields DEF Passes
<1> QED BY <1>3, <1>4, <1>5, AverageNames DEF RunPass, values

LEMMA VerdictFields ==
    ASSUME NEW rs, NEW base, NEW v, v = Verdict(rs, base)
    PROVE  /\ v.given
           /\ v.hard <=> /\ \A i \in DOMAIN rs : rs[i].gates
                         /\ \A m \in HardGateMetrics : Passes(Aggregate(rs), m)
           /\ v.quality <=> \A m \in Thresholds \ HardGateMetrics : Passes(Aggregate(rs), m)
           /\ v.final <=> /\ \A i \in DOMAIN rs : rs[i].gates
                          /\ RunPass(Aggregate(rs)) /\ v.quality
                          /\ base = <<>> \/ ComparisonPasses(base, Aggregate(rs))
BY DEF Verdict

(* A passing run is perfect in its hard metrics, case by case. *)
LEMMA PassingRuns ==
    ASSUME NEW rs \in Seq(Results), \A i \in DOMAIN rs : rs[i].gates, RunPass(Aggregate(rs))
    PROVE  /\ rs # <<>> /\ Graded(rs) = DOMAIN rs
           /\ \A i \in DOMAIN rs : rs[i].metrics.leakage = 0 /\ rs[i].metrics.validity = Unit
<1>1. \A i \in DOMAIN rs : rs[i].error = "none" /\ rs[i].metrics.leakage = 0
    BY GradedCases, ResultFacts
<1>2. Graded(rs) = DOMAIN rs
    BY <1>1 DEF Graded
<1>3. Mean(rs, "validity") = Unit
    BY AverageNames, AveragesOfARun DEF RunPass
<1>4. Graded(rs) # {} /\ \A i \in Graded(rs) : rs[i].metrics["validity"] = Unit
    BY <1>3, AverageNames, MeanFacts
<1> QED BY <1>1, <1>2, <1>4

LEMMA VerdictsOfARun ==
    ASSUME NEW rs \in Seq(Results), NEW base, NEW v, v = Verdict(rs, base)
    PROVE  /\ v.final => /\ v.hard /\ v.quality /\ rs # <<>>
                         /\ \A i \in DOMAIN rs :
                               rs[i].gates /\ rs[i].metrics.leakage = 0 /\ rs[i].metrics.validity = Unit
           /\ v.hard /\ v.quality /\ base = <<>> => v.final
<1>1. ASSUME v.hard, v.quality, base = <<>> PROVE v.final
  <2>1. \A m \in HardGateMetrics \cup Thresholds : Passes(Aggregate(rs), m)
      BY <1>1, VerdictFields
  <2>2. {"case_pass_rate", "recall_low", "groundedness", "unsafe"} \subseteq Thresholds
      BY ThresholdFields DEF Thresholds
  <2>3. RunPass(Aggregate(rs))
      BY <2>1, <2>2, RunPassIsThresholds
  <2> QED BY <1>1, <2>3, VerdictFields
<1>2. ASSUME v.final
      PROVE  /\ v.hard /\ v.quality /\ rs # <<>>
             /\ \A i \in DOMAIN rs :
                   rs[i].gates /\ rs[i].metrics.leakage = 0 /\ rs[i].metrics.validity = Unit
  <2>1. v.quality /\ RunPass(Aggregate(rs)) /\ \A i \in DOMAIN rs : rs[i].gates
      BY <1>2, VerdictFields
  <2>2. v.hard
      BY <2>1, RunPassIsThresholds, VerdictFields
  <2> QED BY <2>1, <2>2, PassingRuns
<1> QED BY <1>1, <1>2

(* A case that leaks violates a gate, so the run has a violated gate. *)
LEMMA LeaksViolateGates ==
    ASSUME NEW rs \in Seq(Results), LeakageCount(rs) > 0
    PROVE  \E i \in DOMAIN rs : ~rs[i].gates
<1> DEFINE S == {i \in Graded(rs) : rs[i].metrics.leakage > 0}
<1>1. S # {}
  <2> SUFFICES ASSUME S = {} PROVE FALSE
      OBVIOUS
  <2>1. LeakageCount(rs) = 0
      BY FS_EmptySet DEF LeakageCount
  <2> QED BY <2>1
<1>2. PICK i \in DOMAIN rs : rs[i] \in Results /\ rs[i].metrics.leakage > 0
    BY <1>1, GradedCases
<1>3. ~rs[i].gates
    BY <1>2, ResultFacts
<1> QED BY <1>3

LEMMA ReportsOfARun ==
    ASSUME NEW rs \in Seq(Results), NEW base, NEW v, v = Verdict(rs, base)
    PROVE  LET reported == Classification(v, Aggregate(rs))
           IN  /\ v.final <=> reported = {}
               /\ v.hard <=> "security" \notin reported
               /\ (\E i \in DOMAIN rs : ~rs[i].gates) => "security" \in reported
               /\ LeakageCount(rs) > 0 => "security" \in reported
               /\ v.hard /\ v.quality /\ ~v.final => reported = {"quality"}
<1> DEFINE values == Aggregate(rs)
<1>0. v.given
    BY VerdictFields
<1>1. (\E i \in DOMAIN rs : ~rs[i].gates) => SecurityRegression(v, values)
    BY <1>0, VerdictFields DEF SecurityRegression
<1>2. LeakageCount(rs) > 0 => SecurityRegression(v, values)
    BY <1>1, LeaksViolateGates
<1>3. v.final => v.quality /\ ~SecurityRegression(v, values) /\ ~(LeakageCount(rs) > 0)
  <2> SUFFICES ASSUME v.final PROVE v.quality /\ ~SecurityRegression(v, values) /\ ~(LeakageCount(rs) > 0)
      OBVIOUS
  <2>1. v.hard /\ v.quality
      BY VerdictsOfARun
  <2>2. values.leakage = 0
      BY VerdictFields DEF RunPass
  <2>3. ~SecurityRegression(v, values)
      BY <2>1, <2>2 DEF SecurityRegression
  <2> QED BY <2>1, <2>3, <1>2
<1>4. values.leakage \in 0 .. Unit
    BY AverageNames, AveragesOfARun, MeanFacts
<1> HIDE DEF values
<1>5. /\ "security" \in Classification(v, values) <=> SecurityRegression(v, values)
      /\ "quality" \in Classification(v, values) <=> QualityRegression(v, values)
      /\ Classification(v, values) \subseteq {"security", "quality"}
    BY DEF Classification
<1>6. v.final <=> Classification(v, values) = {}
  <2>1. ASSUME v.final PROVE Classification(v, values) = {}
    <3>1. ~SecurityRegression(v, values) /\ ~QualityRegression(v, values)
        BY <1>3, <2>1 DEF QualityRegression
    <3> QED BY <1>5, <3>1
  <2>2. ASSUME ~v.final PROVE Classification(v, values) # {}
    <3>1. SecurityRegression(v, values) \/ QualityRegression(v, values)
        BY <1>0, <2>2 DEF QualityRegression
    <3> QED BY <1>5, <3>1
  <2> QED BY <2>1, <2>2
<1>7. SecurityRegression(v, values) <=> ~v.hard
  <2>1. v.hard => Passes(values, "leakage")
      BY VerdictFields, AverageNames DEF values
  <2>2. v.hard => values.leakage = 0
      BY <2>1, <1>4, ThresholdFields DEF Passes
  <2> QED BY <1>0, <1>4, <2>2 DEF SecurityRegression
<1>8. ASSUME v.hard, v.quality, ~v.final PROVE Classification(v, values) = {"quality"}
    BY <1>5, <1>6, <1>7, <1>8
<1>9. v.hard <=> "security" \notin Classification(v, values)
    BY <1>5, <1>7
<1> QED BY <1>1, <1>2, <1>5, <1>6, <1>8, <1>9 DEF values

-----------------------------------------------------------------------------
(* The percentiles. *)
LEMMA LargestValue ==
    ASSUME NEW I, IsFiniteSet(I), I # {}, NEW f \in [I -> Nat]
    PROVE  \E j \in I : \A i \in I : f[i] <= f[j]
<1> DEFINE Above(j) == {i \in I : f[i] > f[j]}
           T == {Above(j) : j \in I}
<1>1. T \subseteq FiniteSubsetsOf(I) /\ T # {}
  <2>1. \A j \in I : Above(j) \in SUBSET I
      OBVIOUS
  <2> HIDE DEF Above
  <2>2. T \subseteq SUBSET I /\ T # {}
      BY <2>1
  <2> HIDE DEF T
  <2> QED BY <2>2, FS_FiniteSubsetsOfFinite
<1>2. IsWellFoundedOn(StrictSubsetOrdering(I), FiniteSubsetsOf(I))
    BY FS_StrictSubsetOrderingWellFounded
<1>3. PICK A \in T : \A B \in T : <<B, A>> \notin StrictSubsetOrdering(I)
  <2> HIDE DEF T
  <2> QED BY <1>1, <1>2, WFMin
<1>4. PICK j \in I : A = Above(j)
    BY <1>3
<1>5. ASSUME NEW i \in I, f[i] > f[j] PROVE FALSE
  <2>1. Above(i) \in T /\ Above(i) \in SUBSET I /\ Above(j) \in SUBSET I
      OBVIOUS
  <2>2. Above(i) \subseteq Above(j)
      BY <1>5
  <2>3. i \in Above(j) /\ i \notin Above(i)
      BY <1>5
  <2> HIDE DEF Above, T
  <2>4. <<Above(i), Above(j)>> \in StrictSubsetOrdering(I)
      BY <2>1, <2>2, <2>3 DEF StrictSubsetOrdering
  <2> QED BY <1>3, <1>4, <2>1, <2>4
<1> QED BY <1>5

LEMMA KthFacts ==
    ASSUME NEW I, IsFiniteSet(I), NEW f \in [I -> Nat], NEW k \in 1 .. Cardinality(I)
    PROVE  /\ Kth(f, k) \in Nat
           /\ \E i \in I : f[i] = Kth(f, k)
           /\ Cardinality({i \in I : f[i] <= Kth(f, k)}) >= k
           /\ \A j \in I : Cardinality({i \in I : f[i] <= f[j]}) >= k => Kth(f, k) <= f[j]
<1> DEFINE Count(v) == Cardinality({i \in I : f[i] <= v})
           T == {v \in Range(f) : Count(v) >= k}
<1>0. Range(f) = {f[i] : i \in I} /\ DOMAIN f = I
    BY DEF Range
<1>1. I # {}
    BY FS_EmptySet
<1>2. PICK j \in I : \A i \in I : f[i] <= f[j]
    BY <1>1, LargestValue
<1>3. f[j] \in T
  <2>1. {i \in I : f[i] <= f[j]} = I
      BY <1>2
  <2>2. Cardinality(I) \in Nat
      BY FS_CardinalityType
  <2> QED BY <1>0, <2>1, <2>2
<1>4. T \in SUBSET Nat
    BY <1>0
<1>5. \E v \in T : \A u \in T : v <= u
  <2> HIDE DEF T
  <2> QED BY <1>3, <1>4, LeastNumber
<1> DEFINE Q(v) == Count(v) >= k /\ \A u \in Range(f) : Count(u) >= k => v <= u
<1>6. Kth(f, k) = CHOOSE v \in Range(f) : Q(v)
    BY <1>0 DEF Kth
<1>7. \E v \in Range(f) : Q(v)
    BY <1>5
<1>8. Kth(f, k) \in Range(f) /\ Q(Kth(f, k))
  <2> HIDE DEF Q
  <2> QED BY <1>6, <1>7
<1> QED BY <1>0, <1>8

LEMMA KthIsAValue ==
    ASSUME NEW I, IsFiniteSet(I), NEW f \in [I -> Nat]
    PROVE  \A k \in 1 .. Cardinality(I) : Kth(f, k) \in Nat /\ \E i \in I : f[i] = Kth(f, k)
<1> TAKE k \in 1 .. Cardinality(I)
<1> QED BY KthFacts

LEMMA KthInOrder ==
    ASSUME NEW I, IsFiniteSet(I), NEW f \in [I -> Nat],
           NEW k \in 1 .. Cardinality(I), NEW l \in 1 .. Cardinality(I), k <= l
    PROVE  Kth(f, k) <= Kth(f, l)
<1>1. PICK j \in I : f[j] = Kth(f, l)
    BY KthFacts
<1>2. Cardinality({i \in I : f[i] <= f[j]}) >= l
    BY <1>1, KthFacts
<1>3. {i \in I : f[i] <= f[j]} \in SUBSET I
    OBVIOUS
<1>4. Cardinality({i \in I : f[i] <= f[j]}) \in Nat
    BY <1>3, FS_Subset, FS_CardinalityType
<1>5. Cardinality({i \in I : f[i] <= f[j]}) >= k
    BY <1>2, <1>4
<1>6. \A i \in I : Cardinality({h \in I : f[h] <= f[i]}) >= k => Kth(f, k) <= f[i]
    BY KthFacts
<1>7. Kth(f, k) <= f[j]
    BY <1>5, <1>6
<1> QED BY <1>1, <1>7

LEMMA Multiples == \A d, m, n \in Nat : m <= n => d * m \in Nat /\ d * n \in Nat /\ d * m <= d * n
OBVIOUS

LEMMA Products == \A a, b \in Int, m \in Nat : a <= b => a * m <= b * m
OBVIOUS

(* The value between a and b, in hundredths. *)
Between(a, b, m) == 100 * a + (b - a) * m

LEMMA Interpolation ==
    ASSUME NEW a \in Nat, NEW b \in Nat, a <= b, NEW m \in 0 .. 100
    PROVE  Between(a, b, m) \in Nat /\ 100 * a <= Between(a, b, m) /\ Between(a, b, m) <= 100 * b
<1> PICK d \in Nat : d = b - a
    OBVIOUS
<1>1. d * m \in Nat /\ d * m <= d * 100
    BY Multiples
<1>2. Between(a, b, m) = 100 * a + d * m /\ 100 * b = 100 * a + d * 100
    BY DEF Between
<1> QED BY <1>1, <1>2

LEMMA InterpolationsInOrder ==
    ASSUME NEW a \in Nat, NEW b \in Nat, a <= b, NEW m \in 0 .. 100, NEW n \in 0 .. 100, m <= n
    PROVE  Between(a, b, m) <= Between(a, b, n)
<1> PICK d \in Nat : d = b - a
    OBVIOUS
<1>0. m \in Nat /\ n \in Nat
    OBVIOUS
<1>1. d * m \in Nat /\ d * n \in Nat /\ d * m <= d * n
    BY <1>0, Multiples
<1>2. Between(a, b, m) = 100 * a + d * m /\ Between(a, b, n) = 100 * a + d * n
    BY DEF Between
<1> QED BY <1>1, <1>2

(* Interpolating between smaller values by a smaller part. *)
LEMMA Interpolations ==
    ASSUME NEW a \in Nat, NEW b \in Nat, NEW c \in Nat, NEW d \in Nat, a <= c, b <= d, a <= b, c <= d,
           NEW m \in 0 .. 100, NEW n \in 0 .. 100, m <= n
    PROVE  Between(a, b, m) <= Between(c, d, n)
<1>1. a * (100 - m) <= c * (100 - m) /\ b * m <= d * m
    BY Products
<1>2. Between(a, b, m) = a * (100 - m) + b * m /\ Between(c, d, m) = c * (100 - m) + d * m
    BY DEF Between
<1>3. Between(c, d, m) <= Between(c, d, n) /\ Between(c, d, m) \in Nat /\ Between(c, d, n) \in Nat
    BY Interpolation, InterpolationsInOrder
<1>4. a * (100 - m) \in Int /\ c * (100 - m) \in Int /\ b * m \in Int /\ d * m \in Int
    OBVIOUS
<1> QED BY <1>1, <1>2, <1>3, <1>4

Lower(n, p) == ((n - 1) * p) \div 100 + 1
Upper(n, p) == IF Lower(n, p) < n THEN Lower(n, p) + 1 ELSE n
Part(n, p)  == ((n - 1) * p) % 100

LEMMA PercentilePlaces ==
    ASSUME NEW n \in Nat \ {0}, NEW p \in {50, 95}
    PROVE  /\ Lower(n, p) \in 1 .. n /\ Upper(n, p) \in 1 .. n /\ Lower(n, p) <= Upper(n, p)
           /\ Part(n, p) \in 0 .. 99
           /\ Lower(n, 50) < Lower(n, 95) \/ (Lower(n, 50) = Lower(n, 95) /\ Part(n, 50) <= Part(n, 95))
           /\ Lower(n, 50) < Lower(n, 95) => Upper(n, 50) <= Lower(n, 95)
<1>1. PICK k \in Nat : n = k + 1
  <2> n - 1 \in Nat
      OBVIOUS
  <2> QED OBVIOUS
<1>2. n - 1 = k
    BY <1>1
<1> QED BY <1>1, <1>2 DEF Lower, Upper, Part

(* The values f[i] of n indices. *)
Values(I, n, f) == IsFiniteSet(I) /\ I # {} /\ n = Cardinality(I) /\ f \in [I -> Nat]

LEMMA PercentileFacts ==
    ASSUME NEW I, NEW n, NEW f, Values(I, n, f), NEW p \in {50, 95}
    PROVE  /\ n \in Nat \ {0}
           /\ Percentile(f, p) =
                 Between(Kth(f, Lower(n, p)), Kth(f, Upper(n, p)), Part(n, p))
           /\ Percentile(f, p) \in Nat
           /\ 100 * Kth(f, Lower(n, p)) <= Percentile(f, p)
           /\ Percentile(f, p) <= 100 * Kth(f, Upper(n, p))
<1> USE DEF Values
<1>1. n \in Nat \ {0}
    BY FS_CardinalityType, FS_EmptySet
<1>2. Percentile(f, p) =
         Between(Kth(f, Lower(n, p)), Kth(f, Upper(n, p)), Part(n, p))
    BY DEF Percentile, Lower, Upper, Part, Between
<1>3. Lower(n, p) \in 1 .. n /\ Upper(n, p) \in 1 .. n /\ Lower(n, p) <= Upper(n, p) /\ Part(n, p) \in 0 .. 99
    BY <1>1, PercentilePlaces
<1>4. /\ Kth(f, Lower(n, p)) \in Nat /\ Kth(f, Upper(n, p)) \in Nat
      /\ Kth(f, Lower(n, p)) <= Kth(f, Upper(n, p))
  <2>1. \A k \in 1 .. n : Kth(f, k) \in Nat
      BY KthIsAValue
  <2>2. \A k, l \in 1 .. n : k <= l => Kth(f, k) <= Kth(f, l)
      BY KthInOrder
  <2> QED BY <1>3, <2>1, <2>2
<1>5. Part(n, p) \in 0 .. 100
    BY <1>3
<1> DEFINE value == Between(Kth(f, Lower(n, p)), Kth(f, Upper(n, p)), Part(n, p))
<1>6. value \in Nat /\ 100 * Kth(f, Lower(n, p)) <= value /\ value <= 100 * Kth(f, Upper(n, p))
    BY <1>4, <1>5, Interpolation
<1> QED BY <1>1, <1>2, <1>6

LEMMA PercentilesInOrder ==
    ASSUME NEW I, IsFiniteSet(I), I # {}, NEW f \in [I -> Nat]
    PROVE  Percentile(f, 50) <= Percentile(f, 95)
<1>1. PICK n : n = Cardinality(I) /\ Values(I, n, f)
    BY DEF Values
<1>2. n \in Nat \ {0}
    BY <1>1, PercentileFacts
<1>3. CASE Lower(n, 50) < Lower(n, 95)
  <2>1. Upper(n, 50) \in 1 .. n /\ Lower(n, 95) \in 1 .. n /\ Upper(n, 50) <= Lower(n, 95)
      BY <1>2, <1>3, PercentilePlaces
  <2>2. /\ Kth(f, Upper(n, 50)) <= Kth(f, Lower(n, 95))
        /\ Kth(f, Upper(n, 50)) \in Nat /\ Kth(f, Lower(n, 95)) \in Nat
    <3>1. Kth(f, Upper(n, 50)) <= Kth(f, Lower(n, 95))
        BY <1>1, <2>1, KthInOrder
    <3>2. \A k \in 1 .. n : Kth(f, k) \in Nat
        BY <1>1, KthIsAValue
    <3> QED BY <2>1, <3>1, <3>2
  <2>3. /\ Percentile(f, 50) \in Nat /\ Percentile(f, 50) <= 100 * Kth(f, Upper(n, 50))
        /\ Percentile(f, 95) \in Nat /\ 100 * Kth(f, Lower(n, 95)) <= Percentile(f, 95)
      BY <1>1, PercentileFacts
  <2> QED BY <2>2, <2>3
<1>4. CASE Lower(n, 50) = Lower(n, 95) /\ Part(n, 50) <= Part(n, 95)
  <2> DEFINE l == Lower(n, 50)
             u == Upper(n, 50)
  <2>1. l \in 1 .. n /\ u \in 1 .. n /\ l <= u /\ Part(n, 50) \in 0 .. 99 /\ Part(n, 95) \in 0 .. 99
      BY <1>2, PercentilePlaces
  <2>2. u = Upper(n, 95)
      BY <1>4 DEF Upper
  <2> HIDE DEF l, u
  <2>3. Kth(f, l) \in Nat /\ Kth(f, u) \in Nat /\ Kth(f, l) <= Kth(f, u)
      BY <1>1, <2>1, KthFacts, KthInOrder
  <2>4. Part(n, 50) \in 0 .. 100 /\ Part(n, 95) \in 0 .. 100 /\ Part(n, 50) <= Part(n, 95)
      BY <1>4, <2>1
  <2>5. Between(Kth(f, l), Kth(f, u), Part(n, 50))
           <= Between(Kth(f, l), Kth(f, u), Part(n, 95))
      BY <2>3, <2>4, InterpolationsInOrder
  <2>6. /\ Percentile(f, 50) = Between(Kth(f, l), Kth(f, u), Part(n, 50))
        /\ Percentile(f, 95) = Between(Kth(f, l), Kth(f, u), Part(n, 95))
      BY <1>1, <1>4, <2>2, PercentileFacts DEF l, u
  <2> QED BY <2>5, <2>6
<1> QED BY <1>2, <1>3, <1>4, PercentilePlaces

(* The types of the aggregates. *)
LEMMA RateInRange ==
    ASSUME NEW rs \in Seq(Results), NEW f, NEW s
    PROVE  /\ Cardinality({i \in DOMAIN rs : rs[i][f] = s}) \in 0 .. Len(rs)
           /\ Rate(rs, f, s) \in 0 .. Unit
<1> DEFINE S == {i \in DOMAIN rs : rs[i][f] = s}
<1>1. Len(rs) \in Nat /\ S \in SUBSET (1 .. Len(rs))
    OBVIOUS
<1> HIDE DEF S
<1>2. IsFiniteSet(S) /\ Cardinality(S) <= Len(rs)
  <2>1. IsFiniteSet(1 .. Len(rs)) /\ Cardinality(1 .. Len(rs)) = Len(rs)
      BY <1>1, FirstNumbers
  <2> QED BY <1>1, <2>1, FS_Subset
<1>3. Cardinality(S) \in Nat
    BY <1>2, FS_CardinalityType
<1>4. Ratio(Cardinality(S), Len(rs)) \in 0 .. Unit
    BY <1>1, <1>2, <1>3, RatioInRange
<1> QED BY <1>1, <1>2, <1>3, <1>4 DEF Rate, S

LEMMA LatencyList ==
    ASSUME NEW rs \in Seq(Results)
    PROVE  Latencies(rs) \in [Graded(rs) -> Nat]
BY GradedCases, ResultFacts DEF Latencies

LEMMA CostList ==
    ASSUME NEW rs \in Seq(Results)
    PROVE  /\ [i \in DOMAIN rs |-> rs[i].cost] \in Seq(Nat)
           /\ Len([i \in DOMAIN rs |-> rs[i].cost]) = Len(rs)
<1> DEFINE costs == [i \in DOMAIN rs |-> rs[i].cost]
<1>1. DOMAIN rs = 1 .. Len(rs) /\ Len(rs) \in Nat
    OBVIOUS
<1>2. \A i \in DOMAIN rs : costs[i] \in Nat
    BY GradedCases, ResultFacts
<1> QED BY <1>1, <1>2

LEMMA OtherAggregates ==
    ASSUME NEW rs
    PROVE  /\ Aggregate(rs).case_pass_rate = Rate(rs, "status", "passed")
           /\ Aggregate(rs).provider_error_rate = Rate(rs, "error", "provider")
           /\ Aggregate(rs).p50 = Percentile(Latencies(rs), 50)
           /\ Aggregate(rs).p95 = Percentile(Latencies(rs), 95)
           /\ Aggregate(rs).average_cost = Average(Total([i \in DOMAIN rs |-> rs[i].cost]), Len(rs))
BY DEF Aggregate, AveragedMetrics

LEMMA PercentileIsNatural ==
    ASSUME NEW rs \in Seq(Results), NEW p \in {50, 95}
    PROVE  Percentile(Latencies(rs), p) \in Nat
<1>1. CASE Graded(rs) = {}
    BY <1>1, LatencyList DEF Percentile
<1>2. CASE Graded(rs) # {}
  <2>1. Values(Graded(rs), Cardinality(Graded(rs)), Latencies(rs))
      BY <1>2, LatencyList, GradedCases DEF Values
  <2> QED BY <2>1, PercentileFacts
<1> QED BY <1>1, <1>2

LEMMA AggregatesAreNaturals ==
    ASSUME NEW rs \in Seq(Results)
    PROVE  /\ \A m \in AveragedMetrics \cup {"case_pass_rate", "provider_error_rate"} :
                 Aggregate(rs)[m] \in 0 .. Unit
           /\ Aggregate(rs).p50 \in Nat /\ Aggregate(rs).p95 \in Nat /\ Aggregate(rs).average_cost \in Nat
<1>1. \A m \in AveragedMetrics : Aggregate(rs)[m] \in 0 .. Unit
    BY AveragesOfARun, MeanFacts
<1>2. Aggregate(rs).case_pass_rate \in 0 .. Unit /\ Aggregate(rs).provider_error_rate \in 0 .. Unit
  <2>1. Rate(rs, "status", "passed") \in 0 .. Unit /\ Rate(rs, "error", "provider") \in 0 .. Unit
      BY RateInRange
  <2> QED BY <2>1, OtherAggregates
<1>3. Aggregate(rs).p50 \in Nat /\ Aggregate(rs).p95 \in Nat
  <2>1. Percentile(Latencies(rs), 50) \in Nat /\ Percentile(Latencies(rs), 95) \in Nat
      BY PercentileIsNatural
  <2> QED BY <2>1, OtherAggregates
<1>4. Aggregate(rs).average_cost \in Nat
  <2>1. Total([i \in DOMAIN rs |-> rs[i].cost]) \in Nat /\ Len(rs) \in Nat
      BY CostList, TotalIsNatural
  <2>2. Average(Total([i \in DOMAIN rs |-> rs[i].cost]), Len(rs)) \in Nat
      BY <2>1, Quotient DEF Average
  <2> QED BY <2>2, OtherAggregates
<1> QED BY <1>1, <1>2, <1>3, <1>4

LEMMA PercentilesAreValues ==
    ASSUME NEW I, NEW n, NEW f, Values(I, n, f), NEW p \in {50, 95}
    PROVE  /\ \E i \in I : 100 * f[i] <= Percentile(f, p)
           /\ \E i \in I : 100 * f[i] >= Percentile(f, p)
<1>1. n \in Nat \ {0}
    BY PercentileFacts
<1>2. Lower(n, p) \in 1 .. n /\ Upper(n, p) \in 1 .. n
    BY <1>1, PercentilePlaces
<1>3. Percentile(f, p) \in Nat
    BY PercentileFacts
<1>4. 100 * Kth(f, Lower(n, p)) <= Percentile(f, p) /\ Percentile(f, p) <= 100 * Kth(f, Upper(n, p))
    BY PercentileFacts
<1>5. \A k \in 1 .. n : Kth(f, k) \in Nat /\ \E i \in I : f[i] = Kth(f, k)
    BY KthIsAValue DEF Values
<1>6. PICK i \in I, j \in I : f[i] = Kth(f, Lower(n, p)) /\ f[j] = Kth(f, Upper(n, p))
    BY <1>2, <1>5
<1>7. 100 * f[i] <= Percentile(f, p) /\ Percentile(f, p) <= 100 * f[j] /\ f[j] \in Nat
    BY <1>2, <1>4, <1>5, <1>6
<1> QED BY <1>3, <1>7

LEMMA PercentilesAreLatencies ==
    ASSUME NEW rs \in Seq(Results), Graded(rs) # {}, NEW p \in {50, 95}
    PROVE  /\ \E i \in Graded(rs) : 100 * Latencies(rs)[i] <= Percentile(Latencies(rs), p)
           /\ \E i \in Graded(rs) : 100 * Latencies(rs)[i] >= Percentile(Latencies(rs), p)
<1>1. Values(Graded(rs), Cardinality(Graded(rs)), Latencies(rs))
    BY LatencyList, GradedCases DEF Values
<1> QED BY <1>1, PercentilesAreValues

-----------------------------------------------------------------------------
(* The invariant: a run holds results, a verdict is the one on them, and   *)
(* what a baseline is compared by are numbers.                             *)
Inv ==
    /\ cases \in Seq(Results) /\ Len(cases) <= MaxCases
    /\ baseline = <<>> \/ \A m \in Compared : baseline[m] \in Nat
    /\ verdict = None \/ verdict = Verdict(cases, baseline)

LEMMA InvInit == Init => Inv
<1> SUFFICES ASSUME Init PROVE Inv
    OBVIOUS
<1>1. cases = <<>> /\ verdict = None /\ baseline = <<>>
    BY DEF Init
<1> QED BY <1>1, ScoringConstants DEF Inv

LEMMA InvNext == Inv /\ [Next]_vars => Inv'
<1> SUFFICES ASSUME Inv, [Next]_vars PROVE Inv'
    OBVIOUS
<1>1. ASSUME NEW e \in Executions, Grade(e) PROVE Inv'
  <2>1. Result(e) \in Results
      BY DEF Results
  <2>2. ~verdict.given /\ Len(cases) < MaxCases /\ cases' = Append(cases, Result(e)) /\ verdict' = verdict
        /\ baseline' = baseline
      BY <1>1 DEF Grade
  <2>3. verdict = None
      BY <2>2, VerdictFields DEF Inv
  <2>4. cases \in Seq(Results) /\ MaxCases \in Nat
      BY ScoringConstants DEF Inv
  <2>5. cases' \in Seq(Results) /\ Len(cases') <= MaxCases
      BY <2>1, <2>2, <2>4
  <2> QED BY <2>2, <2>3, <2>5 DEF Inv
<1>2. CASE Finish
    BY <1>2 DEF Finish, Inv, Verdict
<1>3. CASE NextRun
  <2>1. cases' = <<>> /\ verdict' = None /\ baseline' = Restrict(Aggregate(cases), Compared)
      BY <1>3 DEF NextRun
  <2>2. \A m \in Compared : Aggregate(cases)[m] \in Nat
    <3>1. Compared \subseteq AveragedMetrics \cup {"p95", "average_cost"}
        BY AverageNames DEF Compared
    <3>2. Unit \in Nat
        BY ScoringConstants
    <3> QED BY <3>1, <3>2, AggregatesAreNaturals DEF Inv
  <2>3. \A m \in Compared : baseline'[m] \in Nat
      BY <2>1, <2>2 DEF Restrict
  <2> QED BY <2>1, <2>3, ScoringConstants DEF Inv
<1>4. CASE UNCHANGED vars
    BY <1>4 DEF vars, Inv, Verdict
<1> QED BY <1>1, <1>2, <1>3, <1>4 DEF Next

(* A run holds results of executions, its verdict is the one on them, and   *)
(* the metrics of the baseline are numbers.                                 *)
THEOREM InductiveInvariant == Spec => []Inv
BY InvInit, InvNext, PTL DEF Spec

(* The verdicts on a run and the functions that decide about thresholds     *)
(* agree, whatever the executions, thresholds and prices.                   *)
THEOREM VerdictSafety == Spec => []VerdictsAgree
<1>1. Inv => VerdictsAgree
  <2> SUFFICES ASSUME Inv, verdict.given PROVE VerdictsAgree
      BY DEF VerdictsAgree
  <2>1. cases \in Seq(Results) /\ verdict = Verdict(cases, baseline)
      BY DEF Inv, None
  <2> QED BY <2>1, VerdictsOfARun, RunPassIsThresholds DEF VerdictsAgree
<1> QED BY <1>1, InductiveInvariant, PTL

(* A run's summary reports a regression exactly if the run did not pass, one *)
(* of security exactly if its hard gates failed, as they do for a violated   *)
(* gate or a leak in any case, and one of quality alone after a comparison.  *)
THEOREM ReportSafety == Spec => []RegressionsAreReported
<1>1. Inv => RegressionsAreReported
  <2> SUFFICES ASSUME Inv, verdict.given PROVE RegressionsAreReported
      BY DEF RegressionsAreReported
  <2>1. cases \in Seq(Results) /\ verdict = Verdict(cases, baseline)
      BY DEF Inv, None
  <2> QED BY <2>1, ReportsOfARun DEF RegressionsAreReported
<1> QED BY <1>1, InductiveInvariant, PTL

(* The rates are between 0 and 1, the percentiles in order and between the  *)
(* shortest and the longest latency.                                        *)
THEOREM TypeSafety == Spec => []TypeOK
<1>1. Inv => TypeOK
  <2> SUFFICES ASSUME Inv PROVE TypeOK
      OBVIOUS
  <2> DEFINE values == Aggregate(cases)
  <2>1. cases \in Seq(Results) /\ Len(cases) <= MaxCases
      BY DEF Inv
  <2>2. /\ \A m \in AveragedMetrics \cup {"case_pass_rate", "provider_error_rate"} : values[m] \in 0 .. Unit
        /\ values.p50 = Percentile(Latencies(cases), 50) /\ values.p95 = Percentile(Latencies(cases), 95)
      BY <2>1, AggregatesAreNaturals, OtherAggregates
  <2>3. values.p50 <= values.p95
    <3>1. CASE Graded(cases) = {}
      <4>1. DOMAIN Latencies(cases) = {}
          BY <2>1, <3>1, LatencyList
      <4>2. \A p : Percentile(Latencies(cases), p) = 0
          BY <4>1 DEF Percentile
      <4> QED BY <2>2, <4>2
    <3>2. CASE Graded(cases) # {}
        BY <2>1, <2>2, <3>2, LatencyList, GradedCases, PercentilesInOrder
    <3> QED BY <3>1, <3>2
  <2>4. ASSUME Graded(cases) # {}, NEW p \in {values.p50, values.p95}
        PROVE  /\ \E i \in Graded(cases) : 100 * Latencies(cases)[i] <= p
               /\ \E i \in Graded(cases) : 100 * Latencies(cases)[i] >= p
      BY <2>1, <2>2, <2>4, PercentilesAreLatencies
  <2>5. verdict.given => verdict \in [DOMAIN None -> BOOLEAN]
    <3> SUFFICES ASSUME verdict = Verdict(cases, baseline) PROVE verdict \in [DOMAIN None -> BOOLEAN]
        BY DEF Inv, None
    <3>1. DOMAIN None = {"given", "hard", "quality", "final"}
        BY DEF None
    <3>2. /\ verdict.given \in BOOLEAN /\ verdict.hard \in BOOLEAN
          /\ verdict.quality \in BOOLEAN /\ verdict.final \in BOOLEAN
        BY DEF Verdict
    <3>3. \E a, b, c, d : verdict = [given |-> a, hard |-> b, quality |-> c, final |-> d]
        BY DEF Verdict
    <3> QED BY <3>1, <3>2, <3>3
  <2> HIDE DEF values
  <2>6. TypeOK <=> /\ Len(cases) <= MaxCases
                   /\ \A m \in AveragedMetrics \cup {"case_pass_rate", "provider_error_rate"} :
                         values[m] \in 0 .. Unit
                   /\ values.p50 <= values.p95
                   /\ \A p \in {values.p50, values.p95} : Graded(cases) # {} =>
                         /\ \E i \in Graded(cases) : 100 * Latencies(cases)[i] <= p
                         /\ \E i \in Graded(cases) : 100 * Latencies(cases)[i] >= p
                   /\ verdict.given => verdict \in [DOMAIN None -> BOOLEAN]
      BY DEF TypeOK, values
  <2> QED BY <2>1, <2>2, <2>3, <2>4, <2>5, <2>6
<1> QED BY <1>1, InductiveInvariant, PTL

-----------------------------------------------------------------------------
(* One more case.  What is higher and what is lower is better.              *)
Higher == {"hit_rate", "recall_low", "recall_high", "mrr", "validity", "correctness", "groundedness",
           "answerability", "case_pass_rate"}
Less   == {"unsafe", "false_abstention", "leakage", "p95", "average_cost"}

LEMMA OneMoreInTheAverage ==
    ASSUME NEW t \in Nat, NEW n \in Nat \ {0}, NEW U \in Nat
    PROVE  /\ t <= U * n => Average(t, n) <= Average(t + U, n + 1)
           /\ Average(t + 0, n + 1) <= Average(t, n)
<1> DEFINE q == t \div n
           r == t \div (n + 1)
<1>1. q \in Nat /\ r \in Nat /\ q * n <= t /\ r * (n + 1) <= t
  <2>1. n + 1 \in Nat \ {0}
      OBVIOUS
  <2>2. \A d \in Nat \ {0} : t \div d \in Nat /\ (t \div d) * d <= t
      OBVIOUS
  <2> QED BY <2>1, <2>2
<1>2. Average(t, n) = q /\ Average(t + 0, n + 1) = r /\ Average(t + U, n + 1) = (t + U) \div (n + 1)
    BY DEF Average
<1>3. t <= U * n => q <= U
    BY Quotient
<1>4. q * (n + 1) = q * n + q /\ r * (n + 1) = r * n + r /\ q * n \in Nat /\ r * n \in Nat
    BY <1>1, OneMore
<1>5. ASSUME t <= U * n PROVE q <= (t + U) \div (n + 1)
  <2>1. q * (n + 1) <= t + U
      BY <1>1, <1>3, <1>4, <1>5
  <2>2. t + U \in Nat /\ n + 1 \in Nat \ {0}
      OBVIOUS
  <2> QED BY <1>1, <2>1, <2>2, Quotient
<1>6. r <= q
  <2>1. r * n <= t
      BY <1>1, <1>4
  <2> QED BY <1>1, <2>1, Quotient
<1> QED BY <1>2, <1>5, <1>6

LEMMA OneMoreCase ==
    ASSUME NEW rs \in Seq(Results), NEW r \in Results
    PROVE  LET more == Append(rs, r)
           IN  /\ more \in Seq(Results) /\ Len(more) = Len(rs) + 1 /\ Len(rs) \in Nat
               /\ DOMAIN rs = 1 .. Len(rs) /\ DOMAIN more = 1 .. Len(rs) + 1
               /\ more[Len(rs) + 1] = r /\ \A i \in 1 .. Len(rs) : more[i] = rs[i]
OBVIOUS

LEMMA AllGraded ==
    ASSUME NEW rs \in Seq(Results), Graded(rs) = DOMAIN rs, NEW m \in AveragedMetrics
    PROVE  LET col == [i \in DOMAIN rs |-> rs[i].metrics[m]]
           IN  /\ col \in Seq(Nat) /\ Len(col) = Len(rs) /\ Total(col) <= Unit * Len(rs)
               /\ Mean(rs, m) = Average(Total(col), Len(rs))
<1> DEFINE col == [i \in DOMAIN rs |-> rs[i].metrics[m]]
<1>1. DOMAIN rs = 1 .. Len(rs) /\ Len(rs) \in Nat /\ Unit \in Nat
    BY ScoringConstants
<1>2. \A i \in DOMAIN rs : col[i] \in 0 .. Unit
    BY GradedCases, ResultFacts DEF Graded
<1>3. col = [i \in DOMAIN rs |-> IF i \in Graded(rs) THEN rs[i].metrics[m] ELSE 0]
    OBVIOUS
<1>4. col \in Seq(Nat) /\ Len(col) = Len(rs) /\ DOMAIN col = DOMAIN rs
  <2>1. \A i \in 1 .. Len(rs) : col[i] \in Nat
      BY <1>1, <1>2
  <2> QED BY <1>1, <2>1
<1>5. Cardinality(DOMAIN rs) = Len(rs)
    BY <1>1, FirstNumbers
<1>6. Mean(rs, m) = Average(Total(col), Len(rs))
    BY <1>3, <1>5 DEF Mean
<1> HIDE DEF col
<1>7. \A i \in DOMAIN col : col[i] <= Unit /\ (i \notin DOMAIN rs => col[i] = 0)
    BY <1>1, <1>2, <1>4
<1>8. Total(col) <= Unit * Len(rs)
    BY <1>1, <1>4, <1>5, <1>7, TotalBound
<1> QED BY <1>4, <1>6, <1>8 DEF col

LEMMA PerfectMean ==
    ASSUME NEW rs \in Seq(Results), rs # <<>>, Graded(rs) = DOMAIN rs, NEW m \in AveragedMetrics,
           NEW r \in Results, IsPerfect(r)
    PROVE  /\ Graded(Append(rs, r)) = DOMAIN Append(rs, r)
           /\ m \in Higher => Mean(rs, m) <= Mean(Append(rs, r), m)
           /\ m \in Less => Mean(Append(rs, r), m) <= Mean(rs, m)
<1> DEFINE more == Append(rs, r)
           col == [i \in DOMAIN rs |-> rs[i].metrics[m]]
           new == [i \in DOMAIN more |-> more[i].metrics[m]]
           x == r.metrics[m]
<1>1. /\ more \in Seq(Results) /\ Len(more) = Len(rs) + 1 /\ Len(rs) \in Nat
      /\ DOMAIN rs = 1 .. Len(rs) /\ DOMAIN more = 1 .. Len(rs) + 1
      /\ more[Len(rs) + 1] = r /\ \A i \in 1 .. Len(rs) : more[i] = rs[i]
    BY OneMoreCase
<1>2. Len(rs) \in Nat \ {0}
    BY <1>1
<1> HIDE DEF more
<1>3. Graded(more) = DOMAIN more
  <2>1. \A i \in DOMAIN rs : rs[i].error = "none"
      BY DEF Graded
  <2>2. r.error = "none"
      BY ResultFacts DEF IsPerfect
  <2>3. \A i \in DOMAIN more : i \in DOMAIN rs \/ i = Len(rs) + 1
      BY <1>1
  <2>4. \A i \in DOMAIN more : more[i].error = "none"
      BY <1>1, <2>1, <2>2, <2>3
  <2> QED BY <2>4 DEF Graded
<1>4. col \in Seq(Nat) /\ Len(col) = Len(rs) /\ Total(col) <= Unit * Len(rs) /\ Mean(rs, m) = Average(Total(col), Len(rs))
    BY AllGraded
<1>5. new \in Seq(Nat) /\ Len(new) = Len(rs) + 1 /\ Mean(more, m) = Average(Total(new), Len(rs) + 1)
    BY <1>1, <1>3, AllGraded
<1>6. x \in Nat /\ (m \in Higher => x = Unit) /\ (m \in Less => x = 0)
    BY ScoringConstants DEF IsPerfect, Higher, Less, AveragedMetrics
<1>7. new = Append(col, x)
  <2>1. new[Len(rs) + 1] = x /\ \A i \in 1 .. Len(rs) : new[i] = col[i]
      BY <1>1
  <2> HIDE DEF new, col, x
  <2> QED BY <1>4, <1>5, <1>6, <2>1
<1> HIDE DEF col, new, x
<1>8. Total(new) = Total(col) + x /\ Total(col) \in Nat
    BY <1>4, <1>6, <1>7, TotalAppend, TotalIsNatural
<1>9. Unit \in Nat
    BY ScoringConstants
<1> QED BY <1>2, <1>3, <1>4, <1>5, <1>6, <1>8, <1>9, OneMoreInTheAverage DEF more

LEMMA PerfectRate ==
    ASSUME NEW rs \in Seq(Results), rs # <<>>, NEW r \in Results, r.status = "passed"
    PROVE  Rate(rs, "status", "passed") <= Rate(Append(rs, r), "status", "passed")
<1> DEFINE more == Append(rs, r)
           S == {i \in DOMAIN rs : rs[i].status = "passed"}
           T == {i \in DOMAIN more : more[i].status = "passed"}
           n == Len(rs)
<1>1. /\ more \in Seq(Results) /\ Len(more) = n + 1 /\ n \in Nat
      /\ DOMAIN rs = 1 .. n /\ DOMAIN more = 1 .. n + 1
      /\ more[n + 1] = r /\ \A i \in 1 .. n : more[i] = rs[i]
    BY OneMoreCase
<1>2. n \in Nat \ {0}
    BY <1>1
<1>3. T = S \cup {n + 1} /\ n + 1 \notin S
    BY <1>1
<1>4. IsFiniteSet(S)
  <2>1. S \in SUBSET (1 .. n)
      BY <1>1
  <2> HIDE DEF S
  <2>2. IsFiniteSet(1 .. n)
      BY <1>1, FirstNumbers
  <2> QED BY <2>1, <2>2, FS_Subset
<1>5. Cardinality(S) \in 0 .. n
    BY RateInRange
<1> HIDE DEF more, S, T
<1>6. Cardinality(T) = Cardinality(S) + 1
    BY <1>3, <1>4, FS_AddElement
<1> HIDE DEF n
<1> PICK c \in Nat : c = Cardinality(S) /\ c <= n
    BY <1>2, <1>5
<1>7. Rate(rs, "status", "passed") = Average(Unit * c, n) /\ Rate(more, "status", "passed") = Average(Unit * (c + 1), n + 1)
    BY <1>1, <1>2, <1>6 DEF Rate, Ratio, Average, S, T, n
<1>8. Unit * (c + 1) = Unit * c + Unit /\ Unit * c \in Nat /\ Unit * c <= Unit * n /\ Unit \in Nat
    BY <1>2, ScoringConstants, OneMore
<1> QED BY <1>2, <1>7, <1>8, OneMoreInTheAverage DEF more

LEMMA PerfectCost ==
    ASSUME NEW rs \in Seq(Results), rs # <<>>, NEW r \in Results, r.cost = 0
    PROVE  Aggregate(Append(rs, r)).average_cost <= Aggregate(rs).average_cost
<1> DEFINE more == Append(rs, r)
           col == [i \in DOMAIN rs |-> rs[i].cost]
           new == [i \in DOMAIN more |-> more[i].cost]
           n == Len(rs)
<1>1. /\ more \in Seq(Results) /\ Len(more) = n + 1 /\ n \in Nat
      /\ DOMAIN rs = 1 .. n /\ DOMAIN more = 1 .. n + 1
      /\ more[n + 1] = r /\ \A i \in 1 .. n : more[i] = rs[i]
    BY OneMoreCase
<1> HIDE DEF more
<1>2. col \in Seq(Nat) /\ Len(col) = n /\ new \in Seq(Nat) /\ Len(new) = n + 1
  <2>1. col \in Seq(Nat) /\ Len(col) = Len(rs)
      BY CostList
  <2>2. new \in Seq(Nat) /\ Len(new) = Len(more)
      BY <1>1, CostList
  <2> QED BY <1>1, <2>1, <2>2
<1>3. new = Append(col, 0)
  <2>1. new[n + 1] = 0 /\ \A i \in 1 .. n : new[i] = col[i]
      BY <1>1
  <2> HIDE DEF new, col
  <2> QED BY <1>1, <1>2, <2>1
<1>4. /\ Aggregate(more).average_cost = Average(Total(new), n + 1)
      /\ Aggregate(rs).average_cost = Average(Total(col), n)
  <2>1. Aggregate(more).average_cost = Average(Total(new), Len(more))
      BY OtherAggregates
  <2>2. Aggregate(rs).average_cost = Average(Total(col), n)
      BY OtherAggregates
  <2> QED BY <1>1, <2>1, <2>2
<1> HIDE DEF col, new
<1>5. Total(new) = Total(col) + 0 /\ Total(col) \in Nat
    BY <1>2, <1>3, TotalAppend, TotalIsNatural
<1>6. n \in Nat \ {0}
    BY <1>1
<1> QED BY <1>4, <1>5, <1>6, OneMoreInTheAverage DEF more

(* The percentiles of a list. *)
LEMMA KthOfAList ==
    ASSUME NEW n \in Nat, NEW f \in [1 .. n -> Nat]
    PROVE  /\ \A k \in 1 .. n : Kth(f, k) \in Nat /\ \E i \in 1 .. n : f[i] = Kth(f, k)
           /\ \A k \in 1 .. n : Cardinality({i \in 1 .. n : f[i] <= Kth(f, k)}) >= k
           /\ \A k, j \in 1 .. n : Cardinality({i \in 1 .. n : f[i] <= f[j]}) >= k => Kth(f, k) <= f[j]
           /\ \A k, l \in 1 .. n : k <= l => Kth(f, k) <= Kth(f, l)
<1> DEFINE I == 1 .. n
<1>1. IsFiniteSet(I) /\ Cardinality(I) = n
    BY FirstNumbers
<1>2. f \in [I -> Nat]
    OBVIOUS
<1> HIDE DEF I
<1>3. ASSUME NEW k \in 1 .. Cardinality(I)
      PROVE  /\ Kth(f, k) \in Nat /\ \E i \in I : f[i] = Kth(f, k)
             /\ Cardinality({i \in I : f[i] <= Kth(f, k)}) >= k
             /\ \A j \in I : Cardinality({i \in I : f[i] <= f[j]}) >= k => Kth(f, k) <= f[j]
  <2>1. Kth(f, k) \in Nat
      BY <1>1, <1>2, KthFacts
  <2>2. \E i \in I : f[i] = Kth(f, k)
      BY <1>1, <1>2, KthFacts
  <2>3. Cardinality({i \in I : f[i] <= Kth(f, k)}) >= k
      BY <1>1, <1>2, KthFacts
  <2>4. \A j \in I : Cardinality({i \in I : f[i] <= f[j]}) >= k => Kth(f, k) <= f[j]
      BY <1>1, <1>2, KthFacts
  <2> QED BY <2>1, <2>2, <2>3, <2>4
<1>4. \A k, l \in 1 .. Cardinality(I) : k <= l => Kth(f, k) <= Kth(f, l)
    BY <1>1, <1>2, KthInOrder
<1>5. 1 .. Cardinality(I) = 1 .. n
    BY <1>1
<1> QED BY <1>3, <1>4, <1>5 DEF I

LEMMA PercentileOfAList ==
    ASSUME NEW n \in Nat \ {0}, NEW f \in [1 .. n -> Nat]
    PROVE  /\ Percentile(f, 95) =
                 Between(Kth(f, Lower(n, 95)), Kth(f, Upper(n, 95)), Part(n, 95))
           /\ Percentile(f, 95) \in Nat
           /\ 100 * Kth(f, Lower(n, 95)) <= Percentile(f, 95)
           /\ Percentile(f, 95) <= 100 * Kth(f, Upper(n, 95))
<1> DEFINE I == 1 .. n
<1>1. IsFiniteSet(I) /\ Cardinality(I) = n /\ I # {}
  <2>1. 1 \in I
      OBVIOUS
  <2>2. IsFiniteSet(I) /\ Cardinality(I) = n
      BY FirstNumbers
  <2> QED BY <2>1, <2>2
<1>2. f \in [I -> Nat]
    OBVIOUS
<1> HIDE DEF I
<1>3. Values(I, n, f)
    BY <1>1, <1>2 DEF Values
<1> QED BY <1>3, PercentileFacts

(* A latency of zero pushes every other one up by one place. *)
LEMMA KthAfterZero ==
    ASSUME NEW n \in Nat, NEW f \in [1 .. n -> Nat], NEW g \in [1 .. n + 1 -> Nat],
           g[n + 1] = 0, \A i \in 1 .. n : g[i] = f[i], NEW k \in 1 .. n
    PROVE  Kth(g, k + 1) <= Kth(f, k)
<1>1. IsFiniteSet(1 .. n)
    BY FirstNumbers
<1>2. PICK j \in 1 .. n : f[j] = Kth(f, k)
    BY KthOfAList
<1> DEFINE S == {i \in 1 .. n : f[i] <= f[j]}
           T == {i \in 1 .. n + 1 : g[i] <= g[j]}
<1>3. n + 1 \notin S /\ S \in SUBSET (1 .. n)
    OBVIOUS
<1>4. T = S \cup {n + 1}
  <2>1. g[j] = f[j] /\ f[j] \in Nat
      OBVIOUS
  <2>2. 1 .. n + 1 = (1 .. n) \cup {n + 1}
      OBVIOUS
  <2>3. n + 1 \in T
      BY <2>1
  <2>4. \A i \in 1 .. n : i \in T <=> i \in S
      BY <2>1, <2>2
  <2>5. T \subseteq (1 .. n) \cup {n + 1} /\ S \subseteq 1 .. n
      BY <2>2
  <2> HIDE DEF S, T
  <2> QED BY <2>3, <2>4, <2>5
<1>5. Cardinality(S) >= k
  <2>1. Cardinality({i \in 1 .. n : f[i] <= Kth(f, k)}) >= k
      BY KthOfAList
  <2> QED BY <1>2, <2>1
<1>6. Cardinality(T) = Cardinality(S) + 1 /\ Cardinality(S) \in Nat
  <2> HIDE DEF S, T
  <2>1. IsFiniteSet(S)
      BY <1>1, <1>3, FS_Subset
  <2> QED BY <1>3, <1>4, <2>1, FS_AddElement, FS_CardinalityType
<1>7. Cardinality(T) >= k + 1
    BY <1>5, <1>6
<1>8. j \in 1 .. n + 1 /\ g[j] = f[j] /\ k + 1 \in 1 .. n + 1 /\ n + 1 \in Nat
    OBVIOUS
<1>9. \A l, h \in 1 .. n + 1 : Cardinality({i \in 1 .. n + 1 : g[i] <= g[h]}) >= l => Kth(g, l) <= g[h]
    BY <1>8, KthOfAList
<1>10. Kth(g, k + 1) <= g[j]
    BY <1>7, <1>8, <1>9
<1> QED BY <1>2, <1>8, <1>10

LEMMA PlacesAfterOneMore ==
    ASSUME NEW n \in Nat \ {0}
    PROVE  \/ /\ Lower(n + 1, 95) = Lower(n, 95) + 1 /\ Upper(n + 1, 95) = Upper(n, 95) + 1
              /\ Part(n + 1, 95) <= Part(n, 95)
           \/ Upper(n + 1, 95) = Lower(n, 95) + 1
<1> PICK k \in Nat : n = k + 1
  <2> n - 1 \in Nat
      OBVIOUS
  <2> QED OBVIOUS
<1>1. (n - 1) * 95 = 95 * k /\ (n + 1 - 1) * 95 = 95 * k + 95
    OBVIOUS
<1>2. CASE (95 * k) % 100 < 5
    BY <1>1, <1>2 DEF Lower, Upper, Part
<1>3. CASE (95 * k) % 100 >= 5
    BY <1>1, <1>3 DEF Lower, Upper, Part
<1> QED BY <1>2, <1>3

(* The latencies of a run, and those after a case of latency zero. *)
ZeroIsAdded(n, f, g) ==
    /\ n \in Nat \ {0} /\ f \in [1 .. n -> Nat] /\ g \in [1 .. n + 1 -> Nat]
    /\ g[n + 1] = 0 /\ \A i \in 1 .. n : g[i] = f[i]

LEMMA PerfectPercentile ==
    ASSUME NEW n, NEW f, NEW g, ZeroIsAdded(n, f, g)
    PROVE  Percentile(g, 95) <= Percentile(f, 95)
<1> SUFFICES ASSUME n \in Nat \ {0}, f \in [1 .. n -> Nat], g \in [1 .. n + 1 -> Nat],
                    g[n + 1] = 0, \A i \in 1 .. n : g[i] = f[i]
             PROVE  Percentile(g, 95) <= Percentile(f, 95)
    BY DEF ZeroIsAdded
<1> PICK o \in Nat \ {0} : o = n + 1
    OBVIOUS
<1> DEFINE l == Lower(n, 95)
           u == Upper(n, 95)
           m == Part(n, 95)
           x == Lower(o, 95)
           y == Upper(o, 95)
           z == Part(o, 95)
<1>1. /\ l \in 1 .. n /\ u \in 1 .. n /\ l <= u /\ m \in 0 .. 99
      /\ x \in 1 .. o /\ y \in 1 .. o /\ x <= y /\ z \in 0 .. 99
    BY PercentilePlaces
<1>2. (x = l + 1 /\ y = u + 1 /\ z <= m) \/ y = l + 1
    BY PlacesAfterOneMore
<1>3. /\ Percentile(f, 95) = Between(Kth(f, l), Kth(f, u), m)
      /\ Percentile(f, 95) \in Nat /\ 100 * Kth(f, l) <= Percentile(f, 95)
    BY PercentileOfAList
<1>4. /\ Percentile(g, 95) = Between(Kth(g, x), Kth(g, y), z)
      /\ Percentile(g, 95) \in Nat /\ Percentile(g, 95) <= 100 * Kth(g, y)
    BY PercentileOfAList
<1> HIDE DEF l, u, m, x, y, z
<1>5. Kth(f, l) \in Nat /\ Kth(f, u) \in Nat /\ Kth(f, l) <= Kth(f, u)
    BY <1>1, KthOfAList
<1>6. Kth(g, x) \in Nat /\ Kth(g, y) \in Nat /\ Kth(g, x) <= Kth(g, y)
    BY <1>1, KthOfAList
<1>7. CASE x = l + 1 /\ y = u + 1 /\ z <= m
  <2>1. Kth(g, x) <= Kth(f, l) /\ Kth(g, y) <= Kth(f, u)
      BY <1>1, <1>7, KthAfterZero
  <2>2. z \in 0 .. 100 /\ m \in 0 .. 100 /\ z <= m
      BY <1>1, <1>7
  <2>3. Between(Kth(g, x), Kth(g, y), z) <= Between(Kth(f, l), Kth(f, u), m)
      BY <1>5, <1>6, <2>1, <2>2, Interpolations
  <2> QED BY <1>3, <1>4, <2>3
<1>8. CASE y = l + 1
  <2>1. Kth(g, y) <= Kth(f, l)
      BY <1>1, <1>8, KthAfterZero
  <2>2. /\ Percentile(f, 95) \in Nat /\ 100 * Kth(f, l) <= Percentile(f, 95)
        /\ Percentile(g, 95) \in Nat /\ Percentile(g, 95) <= 100 * Kth(g, y)
        /\ Kth(f, l) \in Nat /\ Kth(g, y) \in Nat
      BY <1>3, <1>4, <1>5, <1>6
  <2> QED BY <2>1, <2>2
<1> QED BY <1>2, <1>7, <1>8

LEMMA PerfectLatency ==
    ASSUME NEW rs \in Seq(Results), rs # <<>>, Graded(rs) = DOMAIN rs, NEW r \in Results, r.latency = 0,
           Graded(Append(rs, r)) = DOMAIN Append(rs, r)
    PROVE  Aggregate(Append(rs, r)).p95 <= Aggregate(rs).p95
<1> PICK more : more = Append(rs, r)
    OBVIOUS
<1> DEFINE n == Len(rs)
           f == Latencies(rs)
           g == Latencies(more)
<1>1. /\ more \in Seq(Results) /\ n \in Nat \ {0}
      /\ DOMAIN rs = 1 .. n /\ DOMAIN more = 1 .. n + 1
      /\ more[n + 1] = r /\ \A i \in 1 .. n : more[i] = rs[i]
    BY OneMoreCase
<1>2. f \in [1 .. n -> Nat] /\ g \in [1 .. n + 1 -> Nat]
    BY <1>1, LatencyList
<1>3. n + 1 \in 1 .. n + 1 /\ \A i \in 1 .. n : i \in 1 .. n + 1
    BY <1>1
<1>4. g[n + 1] = 0 /\ \A i \in 1 .. n : g[i] = f[i]
    BY <1>1, <1>3 DEF Latencies
<1> HIDE DEF f, g, n
<1>5. ZeroIsAdded(n, f, g)
    BY <1>1, <1>2, <1>4 DEF ZeroIsAdded
<1>6. Percentile(g, 95) <= Percentile(f, 95)
    BY <1>5, PerfectPercentile
<1>7. Aggregate(rs).p95 = Percentile(f, 95) /\ Aggregate(more).p95 = Percentile(g, 95)
    BY OtherAggregates DEF f, g
<1> QED BY <1>6, <1>7

(* A perfect case makes nothing worse. *)
LEMMA PerfectAggregates ==
    ASSUME NEW rs \in Seq(Results), rs # <<>>, Graded(rs) = DOMAIN rs, NEW r \in Results, IsPerfect(r)
    PROVE  /\ \A m \in Higher : Aggregate(rs)[m] <= Aggregate(Append(rs, r))[m]
           /\ \A m \in Less : Aggregate(Append(rs, r))[m] <= Aggregate(rs)[m]
<1> PICK more : more = Append(rs, r)
    OBVIOUS
<1>1. "leakage" \in AveragedMetrics
    BY AverageNames
<1>2. Graded(more) = DOMAIN more
    BY <1>1, PerfectMean
<1>3. r.status = "passed" /\ r.latency = 0 /\ r.cost = 0
    BY DEF IsPerfect
<1>4. ASSUME NEW m \in AveragedMetrics
      PROVE  /\ m \in Higher => Aggregate(rs)[m] <= Aggregate(more)[m]
             /\ m \in Less => Aggregate(more)[m] <= Aggregate(rs)[m]
  <2>1. Aggregate(rs)[m] = Mean(rs, m) /\ Aggregate(more)[m] = Mean(more, m)
      BY AveragesOfARun
  <2>2. /\ m \in Higher => Mean(rs, m) <= Mean(more, m)
        /\ m \in Less => Mean(more, m) <= Mean(rs, m)
      BY PerfectMean
  <2> QED BY <2>1, <2>2
<1>5. Aggregate(rs).case_pass_rate <= Aggregate(more).case_pass_rate
  <2>1. Rate(rs, "status", "passed") <= Rate(more, "status", "passed")
      BY <1>3, PerfectRate
  <2> QED BY <2>1, OtherAggregates
<1>6. Aggregate(more).average_cost <= Aggregate(rs).average_cost
    BY <1>3, PerfectCost
<1>7. Aggregate(more).p95 <= Aggregate(rs).p95
    BY <1>2, <1>3, PerfectLatency
<1>8. Higher \subseteq AveragedMetrics \cup {"case_pass_rate"} /\ Less \subseteq AveragedMetrics \cup {"p95", "average_cost"}
    BY AverageNames DEF Higher, Less
<1>9. ASSUME NEW m \in Higher PROVE Aggregate(rs)[m] <= Aggregate(more)[m]
  <2>1. m \in AveragedMetrics \/ m = "case_pass_rate"
      BY <1>8
  <2> QED BY <1>4, <1>5, <2>1
<1>10. ASSUME NEW m \in Less PROVE Aggregate(more)[m] <= Aggregate(rs)[m]
  <2>1. m \in AveragedMetrics \/ m = "p95" \/ m = "average_cost"
      BY <1>8
  <2> QED BY <1>4, <1>6, <1>7, <2>1
<1> QED BY <1>9, <1>10

(* What a run that is nowhere worse passes. *)
LEMMA BetterPasses ==
    ASSUME NEW v, NEW w, NEW m \in Thresholds, Passes(v, m),
           \A h \in Higher : v[h] \in Nat /\ w[h] \in Nat /\ v[h] <= w[h],
           \A l \in Less : v[l] \in Nat /\ w[l] \in Nat /\ w[l] <= v[l]
    PROVE  Passes(w, m)
<1>1. ASSUME m \in DOMAIN Minimum PROVE w[m] >= Minimum[m]
  <2>1. m \in Higher /\ Minimum[m] \in Nat
      BY <1>1, ThresholdFields DEF Higher
  <2> QED BY <1>1, <2>1 DEF Passes
<1>2. ASSUME m \in DOMAIN Maximum PROVE w[m] <= Maximum[m]
  <2>1. m \in Less /\ Maximum[m] \in Nat
      BY <1>2, ThresholdFields DEF Less
  <2> QED BY <1>2, <2>1 DEF Passes
<1> QED BY <1>1, <1>2 DEF Passes

LEMMA BetterComparisons ==
    ASSUME NEW before \in Nat, NEW now \in Nat, NEW later \in Nat, NEW limit \in Nat
    PROVE  /\ now <= later /\ DropPasses(before, now, limit) => DropPasses(before, later, limit)
           /\ later <= now /\ IncreasePasses(before, now, limit) => IncreasePasses(before, later, limit)
<1>1. ASSUME later <= now, IncreasePasses(before, now, limit), before # 0
      PROVE  (later - before) * Unit <= limit * before
  <2>1. later - before \in Int /\ now - before \in Int /\ later - before <= now - before /\ Unit \in Nat
      BY <1>1, ScoringConstants
  <2>2. (later - before) * Unit <= (now - before) * Unit
      BY <2>1, Products
  <2>3. (now - before) * Unit <= limit * before
      BY <1>1 DEF IncreasePasses
  <2>4. (later - before) * Unit \in Int /\ (now - before) * Unit \in Int /\ limit * before \in Int
      BY <2>1
  <2> QED BY <2>2, <2>3, <2>4
<1>2. later <= now /\ IncreasePasses(before, now, limit) => IncreasePasses(before, later, limit)
    BY <1>1 DEF IncreasePasses
<1> QED BY <1>2 DEF DropPasses

LEMMA PerfectVerdict ==
    ASSUME NEW rs \in Seq(Results), NEW r \in Results, IsPerfect(r),
           NEW base, base = <<>> \/ \A m \in Compared : base[m] \in Nat,
           Verdict(rs, base).final
    PROVE  Verdict(Append(rs, r), base).final
<1> PICK more : more = Append(rs, r)
    OBVIOUS
<1> PICK v : v = Aggregate(rs)
    OBVIOUS
<1> PICK w : w = Aggregate(more)
    OBVIOUS
<1>1. /\ \A i \in DOMAIN rs : rs[i].gates
      /\ RunPass(v) /\ \A m \in Thresholds \ HardGateMetrics : Passes(v, m)
      /\ base = <<>> \/ ComparisonPasses(base, v)
    BY VerdictFields
<1>2. /\ more \in Seq(Results) /\ \A i \in DOMAIN more : i \in DOMAIN rs \/ i = Len(rs) + 1
      /\ more[Len(rs) + 1] = r /\ \A i \in DOMAIN rs : more[i] = rs[i]
    BY OneMoreCase
<1>3. r.gates
    BY ResultFacts DEF IsPerfect
<1>4. \A i \in DOMAIN more : more[i].gates
    BY <1>1, <1>2, <1>3
<1>5. rs # <<>> /\ Graded(rs) = DOMAIN rs
    BY <1>1, PassingRuns
<1>6. Unit \in Nat
    BY ScoringConstants
<1>7. /\ \A m \in AveragedMetrics \cup {"case_pass_rate"} : v[m] \in 0 .. Unit /\ w[m] \in 0 .. Unit
      /\ v.p95 \in Nat /\ v.average_cost \in Nat /\ w.p95 \in Nat /\ w.average_cost \in Nat
    BY <1>2, AggregatesAreNaturals
<1>8. \A m \in Higher : v[m] \in Nat /\ w[m] \in Nat /\ v[m] <= w[m]
  <2>1. Higher \subseteq AveragedMetrics \cup {"case_pass_rate"}
      BY AverageNames DEF Higher
  <2>2. \A m \in Higher : v[m] <= w[m]
      BY <1>5, PerfectAggregates
  <2> QED BY <1>6, <1>7, <2>1, <2>2
<1>9. \A m \in Less : v[m] \in Nat /\ w[m] \in Nat /\ w[m] <= v[m]
  <2>1. Less \subseteq AveragedMetrics \cup {"p95", "average_cost"}
      BY AverageNames DEF Less
  <2>2. \A m \in Less : w[m] <= v[m]
      BY <1>5, PerfectAggregates
  <2> QED BY <1>6, <1>7, <2>1, <2>2
<1>10. \A m \in Thresholds : Passes(v, m) => Passes(w, m)
    BY <1>8, <1>9, BetterPasses
<1>11. /\ {"case_pass_rate", "recall_low", "groundedness", "unsafe"} \subseteq Thresholds
       /\ HardGateMetrics \subseteq Thresholds
    BY ThresholdFields, AverageNames DEF Thresholds
<1>12. RunPass(w)
  <2>1. \A m \in HardGateMetrics \cup {"case_pass_rate", "recall_low", "groundedness", "unsafe"} : Passes(v, m)
      BY <1>1, RunPassIsThresholds
  <2>2. \A m \in HardGateMetrics \cup {"case_pass_rate", "recall_low", "groundedness", "unsafe"} : Passes(w, m)
      BY <1>10, <1>11, <2>1
  <2> QED BY <1>2, <2>2, RunPassIsThresholds
<1>13. ASSUME base # <<>> PROVE ComparisonPasses(base, w)
  <2>1. /\ base.recall_low \in Nat /\ base.groundedness \in Nat /\ base.p95 \in Nat /\ base.average_cost \in Nat
      BY <1>13 DEF Compared
  <2>2. /\ Limit.recall \in Nat /\ Limit.groundedness \in Nat /\ Limit.latency \in Nat /\ Limit.cost \in Nat
      BY ThresholdFields
  <2>3. /\ DropPasses(base.recall_low, v.recall_low, Limit.recall)
        /\ DropPasses(base.groundedness, v.groundedness, Limit.groundedness)
        /\ IncreasePasses(base.p95, v.p95, Limit.latency)
        /\ IncreasePasses(base.average_cost, v.average_cost, Limit.cost)
      BY <1>1, <1>13 DEF ComparisonPasses
  <2>4. DropPasses(base.recall_low, w.recall_low, Limit.recall)
      BY <1>8, <2>1, <2>2, <2>3, BetterComparisons DEF Higher
  <2>5. DropPasses(base.groundedness, w.groundedness, Limit.groundedness)
      BY <1>8, <2>1, <2>2, <2>3, BetterComparisons DEF Higher
  <2>6. IncreasePasses(base.p95, w.p95, Limit.latency)
      BY <1>9, <2>1, <2>2, <2>3, BetterComparisons DEF Less
  <2>7. IncreasePasses(base.average_cost, w.average_cost, Limit.cost)
      BY <1>9, <2>1, <2>2, <2>3, BetterComparisons DEF Less
  <2>8. w.leakage = 0
      BY <1>12 DEF RunPass
  <2> QED BY <2>4, <2>5, <2>6, <2>7, <2>8 DEF ComparisonPasses
<1>14. \A m \in Thresholds \ HardGateMetrics : Passes(w, m)
    BY <1>1, <1>10
<1> QED BY <1>4, <1>12, <1>13, <1>14, VerdictFields

(* One more perfect case never turns a passing verdict into a failing one.  *)
THEOREM PerfectCasesSafety == Spec => PerfectCasesNeverHurt
<1> DEFINE Longer == Len(cases') > Len(cases) /\ IsPerfect(cases'[Len(cases')])
           Passing == Verdict(cases, baseline).final
<1>1. Inv /\ [Next]_vars => (Longer /\ Passing => Verdict(cases', baseline').final)
  <2> SUFFICES ASSUME Inv, [Next]_vars, Longer, Passing PROVE Verdict(cases', baseline').final
      OBVIOUS
  <2>1. cases \in Seq(Results) /\ Len(cases) \in Nat
      BY DEF Inv
  <2>2. PICK e \in Executions : Grade(e)
    <3>1. CASE Finish
        BY <2>1, <3>1 DEF Finish
    <3>2. CASE NextRun
        BY <2>1, <3>2 DEF NextRun
    <3>3. CASE UNCHANGED vars
        BY <2>1, <3>3 DEF vars
    <3> QED BY <3>1, <3>2, <3>3 DEF Next
  <2>3. cases' = Append(cases, Result(e)) /\ baseline' = baseline
      BY <2>2 DEF Grade
  <2>4. Result(e) \in Results
      BY DEF Results
  <2>5. cases'[Len(cases')] = Result(e)
      BY <2>1, <2>3, <2>4, OneMoreCase
  <2> QED BY <2>1, <2>3, <2>4, <2>5, PerfectVerdict DEF Inv
<1> QED BY <1>1, InductiveInvariant, PTL DEF Spec, PerfectCasesNeverHurt
=============================================================================

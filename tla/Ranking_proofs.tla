--------------------------- MODULE Ranking_proofs ---------------------------
(***************************************************************************)
(* Proofs about Chunking and Ranking: for every set of documents, size of  *)
(* chunks and budget, a document is covered by its chunks, the best        *)
(* passages come first, and the context fits.                              *)
(***************************************************************************)
EXTENDS Ranking, FiniteSetTheorems, SequenceTheorems, NaturalsInduction, TLAPS

-----------------------------------------------------------------------------
(* Numbers and totals. *)
LEMMA LeastNumber ==
    ASSUME NEW S \in SUBSET Nat, S # {}
    PROVE  \E n \in S : \A m \in S : n <= m
<1>1. PICK n \in S : \A m \in S : ~(<<m, n>> \in OpToRel(<, Nat))
    BY NatLessThanWellFounded, WFMin
<1>2. \A m \in S : ~(m < n)
    BY <1>1 DEF OpToRel
<1> QED BY <1>2

LEMMA Induction ==
    ASSUME NEW m \in Nat, NEW S, 0 \in S, \A n \in 0 .. m - 1 : n \in S => n + 1 \in S
    PROVE  \A n \in 0 .. m : n \in S
<1> SUFFICES ASSUME (0 .. m) \ S # {} PROVE FALSE
    OBVIOUS
<1>1. PICK n \in (0 .. m) \ S : \A k \in (0 .. m) \ S : n <= k
  <2>1. (0 .. m) \ S \in SUBSET Nat
      OBVIOUS
  <2> QED BY <2>1, LeastNumber
<1>2. n - 1 \in 0 .. m - 1 /\ n - 1 \notin (0 .. m) \ S
    BY <1>1
<1> QED BY <1>1, <1>2

LEMMA TotalSums ==
    ASSUME NEW s \in Seq(Nat)
    PROVE  \E f \in [0 .. Len(s) -> Nat] :
              /\ f[0] = 0 /\ Total(s) = f[Len(s)]
              /\ \A n \in 1 .. Len(s) : f[n] = f[n - 1] + s[n]
<1> DEFINE Sums(k, f) == f[0] = 0 /\ \A n \in 1 .. k : f[n] = f[n - 1] + s[n]
           Summed(k)  == \E f \in [0 .. k -> Nat] : Sums(k, f)
           S == {k \in 0 .. Len(s) : Summed(k)}
<1>0. Len(s) \in Nat /\ \A n \in 1 .. Len(s) : s[n] \in Nat
    OBVIOUS
<1>1. Summed(0)
  <2> DEFINE f == [n \in 0 .. 0 |-> 0]
  <2>1. f \in [0 .. 0 -> Nat] /\ Sums(0, f)
      OBVIOUS
  <2> QED BY <2>1
<1>2. ASSUME NEW k \in 0 .. Len(s) - 1, Summed(k) PROVE Summed(k + 1)
  <2>1. PICK f \in [0 .. k -> Nat] : Sums(k, f)
      BY <1>2
  <2> DEFINE g == [n \in 0 .. k + 1 |-> IF n <= k THEN f[n] ELSE f[k] + s[k + 1]]
  <2>2. s[k + 1] \in Nat
      BY <1>0
  <2>3. g \in [0 .. k + 1 -> Nat]
      BY <2>2
  <2>4. g[0] = 0 /\ \A n \in 1 .. k : g[n] = g[n - 1] + s[n]
      BY <2>1
  <2>5. g[k + 1] = g[k] + s[k + 1]
      BY <2>1
  <2> HIDE DEF g
  <2>6. Sums(k + 1, g)
      BY <2>4, <2>5
  <2> QED BY <2>3, <2>6
<1>3. Summed(Len(s))
  <2> HIDE DEF Summed
  <2>1. 0 \in S /\ \A n \in 0 .. Len(s) - 1 : n \in S => n + 1 \in S
      BY <1>0, <1>1, <1>2
  <2>2. \A n \in 0 .. Len(s) : n \in S
    <3> HIDE DEF S
    <3> QED BY <1>0, <2>1, Induction
  <2> QED BY <1>0, <2>2
<1>4. PICK f \in [0 .. Len(s) -> Nat] : Sums(Len(s), f)
    BY <1>3
<1>5. PICK g : Total(s) = g[Len(s)] /\ g = [n \in 0 .. Len(s) |-> IF n = 0 THEN 0 ELSE g[n - 1] + s[n]]
  <2>1. f = [n \in 0 .. Len(s) |-> IF n = 0 THEN 0 ELSE f[n - 1] + s[n]]
      BY <1>0, <1>4
  <2> QED BY <2>1 DEF Total
<1> DEFINE T == {k \in 0 .. Len(s) : g[k] = f[k]}
<1>6. 0 \in T
    BY <1>0, <1>4, <1>5
<1>7. ASSUME NEW k \in 0 .. Len(s) - 1, k \in T PROVE k + 1 \in T
  <2>1. k + 1 \in 1 .. Len(s) /\ k + 1 - 1 = k /\ g[k] = f[k]
      BY <1>0, <1>7
  <2>2. g[k + 1] = g[k] + s[k + 1]
      BY <1>5, <2>1
  <2>3. f[k + 1] = f[k] + s[k + 1]
      BY <1>4, <2>1
  <2> QED BY <2>1, <2>2, <2>3
<1>8. Len(s) \in T
  <2> HIDE DEF T
  <2>1. \A n \in 0 .. Len(s) : n \in T
      BY <1>0, <1>6, <1>7, Induction
  <2> QED BY <1>0, <2>1
<1> QED BY <1>4, <1>5, <1>8

LEMMA TotalIsNatural == \A s \in Seq(Nat) : Total(s) \in Nat
BY TotalSums

LEMMA TotalAppend ==
    ASSUME NEW s \in Seq(Nat), NEW x \in Nat
    PROVE  Total(Append(s, x)) = Total(s) + x
<1> DEFINE t == Append(s, x)
<1>1. t \in Seq(Nat) /\ Len(t) = Len(s) + 1 /\ t[Len(s) + 1] = x /\ \A n \in 1 .. Len(s) : t[n] = s[n]
    OBVIOUS
<1> HIDE DEF t
<1>2. PICK f \in [0 .. Len(s) -> Nat] :
              /\ f[0] = 0 /\ Total(s) = f[Len(s)]
              /\ \A n \in 1 .. Len(s) : f[n] = f[n - 1] + s[n]
    BY TotalSums
<1>3. PICK g \in [0 .. Len(t) -> Nat] :
              /\ g[0] = 0 /\ Total(t) = g[Len(t)]
              /\ \A n \in 1 .. Len(t) : g[n] = g[n - 1] + t[n]
    BY <1>1, TotalSums
<1> DEFINE T == {k \in 0 .. Len(s) : g[k] = f[k]}
<1>4. 0 \in T
    BY <1>2, <1>3
<1>5. ASSUME NEW k \in 0 .. Len(s) - 1, k \in T PROVE k + 1 \in T
  <2>1. k + 1 \in 1 .. Len(s) /\ k + 1 \in 1 .. Len(t) /\ k + 1 - 1 = k /\ g[k] = f[k] /\ t[k + 1] = s[k + 1]
      BY <1>1, <1>5
  <2>2. g[k + 1] = g[k] + t[k + 1] /\ f[k + 1] = f[k] + s[k + 1]
      BY <1>2, <1>3, <2>1
  <2> QED BY <2>1, <2>2
<1>6. Len(s) \in T
  <2> HIDE DEF T
  <2>1. Len(s) \in Nat
      OBVIOUS
  <2>2. \A n \in 0 .. Len(s) : n \in T
      BY <1>4, <1>5, <2>1, Induction
  <2> QED BY <2>1, <2>2
<1>7. g[Len(t)] = g[Len(s)] + x
  <2>1. Len(t) \in 1 .. Len(t) /\ Len(t) - 1 = Len(s) /\ t[Len(t)] = x
      BY <1>1
  <2> QED BY <1>3, <2>1
<1>8. Total(t) = Total(s) + x
    BY <1>2, <1>3, <1>6, <1>7
<1> QED BY <1>8 DEF t

LEMMA FirstNumbers == \A n \in Nat : IsFiniteSet(1 .. n) /\ Cardinality(1 .. n) = n
BY FS_Interval

(* A total, by its partial sums. *)
LEMMA TotalIs ==
    ASSUME NEW s \in Seq(Nat), NEW g, g[0] = 0,
           \A n \in 1 .. Len(s) : g[n] = g[n - 1] + s[n]
    PROVE  Total(s) = g[Len(s)]
<1>0. Len(s) \in Nat
    OBVIOUS
<1>1. PICK f \in [0 .. Len(s) -> Nat] :
              /\ f[0] = 0 /\ Total(s) = f[Len(s)]
              /\ \A n \in 1 .. Len(s) : f[n] = f[n - 1] + s[n]
    BY TotalSums
<1> DEFINE T == {k \in 0 .. Len(s) : g[k] = f[k]}
<1>2. 0 \in T
    BY <1>0, <1>1
<1>3. ASSUME NEW k \in 0 .. Len(s) - 1, k \in T PROVE k + 1 \in T
  <2>1. k + 1 \in 1 .. Len(s) /\ k + 1 - 1 = k /\ g[k] = f[k]
      BY <1>0, <1>3
  <2>2. g[k + 1] = g[k] + s[k + 1] /\ f[k + 1] = f[k] + s[k + 1]
      BY <1>1, <2>1
  <2> QED BY <2>1, <2>2
<1>4. Len(s) \in T
  <2> HIDE DEF T
  <2>1. \A n \in 0 .. Len(s) : n \in T
      BY <1>0, <1>2, <1>3, Induction
  <2> QED BY <1>0, <2>1
<1> QED BY <1>1, <1>4

-----------------------------------------------------------------------------
(* The order of a list: before[x] are the members that come before x. *)
Linear(S, before) ==
    /\ IsFiniteSet(S)
    /\ \A x \in S : before[x] \in SUBSET S /\ x \notin before[x]
    /\ \A x, y \in S : x = y \/ x \in before[y] \/ y \in before[x]
    /\ \A x, y \in S : x \in before[y] => before[x] \in SUBSET before[y]

(* s lists the members of S, each once. *)
Lists(s, S) == s \in Seq(S) /\ Range(s) = S /\ IsInjective(s)

LEMMA RankOf ==
    ASSUME NEW S, NEW s \in Seq(S), IsInjective(s)
    PROVE  /\ \A i \in DOMAIN s : RankIn(s, s[i]) = i
           /\ \A x \in Range(s) : RankIn(s, x) \in 1 .. Len(s) /\ s[RankIn(s, x)] = x
<1>1. \A i \in DOMAIN s : RankIn(s, s[i]) = i
    BY DEF RankIn, IsInjective
<1>2. ASSUME NEW x \in Range(s) PROVE RankIn(s, x) \in 1 .. Len(s) /\ s[RankIn(s, x)] = x
  <2>1. PICK i \in DOMAIN s : x = s[i]
      BY DEF Range
  <2>2. i \in 1 .. Len(s)
      OBVIOUS
  <2> QED BY <1>1, <2>1, <2>2
<1> QED BY <1>1, <1>2

LEMMA OrderedPlaces ==
    ASSUME NEW S, NEW before, Linear(S, before)
    PROVE  /\ Cardinality(S) \in Nat
           /\ \A x \in S : Cardinality(before[x]) \in 0 .. Cardinality(S) - 1
           /\ \A x, y \in S : x \in before[y] => Cardinality(before[x]) < Cardinality(before[y])
           /\ \A x, y \in S : Cardinality(before[x]) = Cardinality(before[y]) => x = y
<1>1. IsFiniteSet(S) /\ Cardinality(S) \in Nat
    BY FS_CardinalityType DEF Linear
<1>2. ASSUME NEW x \in S
      PROVE  IsFiniteSet(before[x]) /\ Cardinality(before[x]) \in 0 .. Cardinality(S) - 1
  <2>1. before[x] \in SUBSET S /\ before[x] # S
      BY DEF Linear
  <2>2. /\ IsFiniteSet(before[x]) /\ Cardinality(before[x]) <= Cardinality(S)
        /\ Cardinality(before[x]) # Cardinality(S)
      BY <1>1, <2>1, FS_Subset
  <2>3. Cardinality(before[x]) \in Nat
      BY <2>2, FS_CardinalityType
  <2> QED BY <1>1, <2>2, <2>3
<1>3. ASSUME NEW x \in S, NEW y \in S, x \in before[y]
      PROVE  Cardinality(before[x]) < Cardinality(before[y])
  <2>1. before[x] \in SUBSET before[y] /\ before[x] # before[y]
      BY <1>3 DEF Linear
  <2>2. Cardinality(before[x]) <= Cardinality(before[y]) /\ Cardinality(before[x]) # Cardinality(before[y])
      BY <1>2, <2>1, FS_Subset
  <2>3. Cardinality(before[x]) \in Nat /\ Cardinality(before[y]) \in Nat
      BY <1>2, FS_CardinalityType
  <2> QED BY <2>2, <2>3
<1>4. ASSUME NEW x \in S, NEW y \in S, Cardinality(before[x]) = Cardinality(before[y])
      PROVE  x = y
  <2>1. x = y \/ x \in before[y] \/ y \in before[x]
      BY DEF Linear
  <2>2. Cardinality(before[x]) \in Nat /\ Cardinality(before[y]) \in Nat
      BY <1>2, FS_CardinalityType
  <2> QED BY <1>3, <1>4, <2>1, <2>2
<1> QED BY <1>1, <1>2, <1>3, <1>4

LEMMA ListedInOrder ==
    ASSUME NEW S, NEW before, Linear(S, before)
    PROVE  LET s == InOrder(S, before)
           IN  /\ Lists(s, S) /\ Len(s) = Cardinality(S)
               /\ \A x \in S : RankIn(s, x) = Cardinality(before[x]) + 1
               /\ \A x, y \in S : x \in before[y] <=> RankIn(s, x) < RankIn(s, y)
<1> DEFINE n == Cardinality(S)
           P(x) == Cardinality(before[x])
           s == InOrder(S, before)
           f == [x \in S |-> P(x) + 1]
<1>1. IsFiniteSet(S)
    BY DEF Linear
<1>2. /\ n \in Nat /\ \A x \in S : P(x) \in 0 .. n - 1
      /\ \A x, y \in S : x \in before[y] => P(x) < P(y)
      /\ \A x, y \in S : P(x) = P(y) => x = y
    BY OrderedPlaces
<1> HIDE DEF n, P
<1>3. \A i \in 1 .. n : \E x \in S : P(x) = i - 1
  <2>1. f \in Injection(S, 1 .. n)
    <3>1. f \in [S -> 1 .. n]
        BY <1>2
    <3>2. IsInjective(f)
        BY <1>2 DEF IsInjective
    <3> QED BY <3>1, <3>2 DEF Injection
  <2>2. IsFiniteSet(1 .. n) /\ Cardinality(1 .. n) = Cardinality(S)
      BY <1>2, FirstNumbers DEF n
  <2>3. f \in Surjection(S, 1 .. n)
    <3> HIDE DEF f
    <3> QED BY <2>1, <2>2, FS_Injection
  <2>4. \A i \in 1 .. n : \E x \in S : f[x] = i
    <3> HIDE DEF f
    <3> QED BY <2>3 DEF Surjection
  <2>5. ASSUME NEW i \in 1 .. n PROVE \E x \in S : P(x) = i - 1
    <3>1. PICK x \in S : f[x] = i
        BY <2>4
    <3>2. P(x) + 1 = i /\ P(x) \in 0 .. n - 1
        BY <1>2, <3>1
    <3> QED BY <1>2, <3>2
  <2> QED BY <2>5
<1>4. s = [i \in 1 .. n |-> CHOOSE x \in S : P(x) = i - 1]
    BY DEF InOrder, n, P
<1>5. \A i \in 1 .. n : s[i] \in S /\ P(s[i]) = i - 1
    BY <1>3, <1>4
<1>6. s \in Seq(S) /\ DOMAIN s = 1 .. n /\ Len(s) = n
  <2>1. s \in [1 .. n -> S]
      BY <1>4, <1>5
  <2> QED BY <1>2, <2>1
<1> HIDE DEF s
<1>7. \A x \in S : P(x) + 1 \in 1 .. n /\ s[P(x) + 1] = x
    BY <1>2, <1>5
<1>8. IsInjective(s)
  <2> SUFFICES ASSUME NEW i \in 1 .. n, NEW j \in 1 .. n, s[i] = s[j] PROVE i = j
      BY <1>6 DEF IsInjective
  <2> QED BY <1>2, <1>5
<1>9. Range(s) = S
  <2>1. \A i \in DOMAIN s : s[i] \in S
      BY <1>5, <1>6
  <2>2. \A x \in S : P(x) + 1 \in DOMAIN s /\ s[P(x) + 1] = x
      BY <1>6, <1>7
  <2> QED BY <2>1, <2>2 DEF Range
<1>10. ASSUME NEW x \in S PROVE RankIn(s, x) = P(x) + 1
  <2>1. RankIn(s, s[P(x) + 1]) = P(x) + 1
      BY <1>6, <1>7, <1>8, RankOf
  <2> QED BY <1>7, <2>1
<1>11. ASSUME NEW x \in S, NEW y \in S PROVE x \in before[y] <=> RankIn(s, x) < RankIn(s, y)
  <2>1. /\ RankIn(s, x) = P(x) + 1 /\ RankIn(s, y) = P(y) + 1 /\ P(x) \in Nat /\ P(y) \in Nat
        /\ (x \in before[y] => P(x) < P(y)) /\ (y \in before[x] => P(y) < P(x))
      BY <1>2, <1>10
  <2>2. x = y \/ x \in before[y] \/ y \in before[x]
      BY DEF Linear
  <2>3. x = y => x \notin before[y]
      BY DEF Linear
  <2> QED BY <2>1, <2>2, <2>3
<1> QED BY <1>6, <1>8, <1>9, <1>10, <1>11 DEF Lists, s, n, P

(* A part of a list keeps its order. *)
LEMMA AmongKeepsOrder ==
    ASSUME NEW T, NEW s \in Seq(T), IsInjective(s), NEW S \in SUBSET Range(s)
    PROVE  LET t == Among(s, S)
           IN  /\ Lists(t, S)
               /\ \A x, y \in S : RankIn(t, x) < RankIn(t, y) <=> RankIn(s, x) < RankIn(s, y)
<1> DEFINE before == [x \in S |-> {y \in S : RankIn(s, y) < RankIn(s, x)}]
<1>1. \A x \in S : RankIn(s, x) \in Nat /\ s[RankIn(s, x)] = x
    BY RankOf
<1>2. IsFiniteSet(S)
  <2>1. Len(s) \in Nat /\ DOMAIN s = 1 .. Len(s) /\ s \in [1 .. Len(s) -> T]
      OBVIOUS
  <2>2. s \in Surjection(1 .. Len(s), Range(s))
      BY <2>1 DEF Surjection, Range
  <2>3. IsFiniteSet(1 .. Len(s))
      BY <2>1, FirstNumbers
  <2>4. IsFiniteSet(Range(s))
      BY <2>2, <2>3, FS_Surjection
  <2> QED BY <2>4, FS_Subset
<1>3. Linear(S, before)
  <2>1. \A x \in S : before[x] \in SUBSET S /\ x \notin before[x]
      BY <1>1
  <2>2. \A x, y \in S : x = y \/ x \in before[y] \/ y \in before[x]
      BY <1>1
  <2>3. \A x, y \in S : x \in before[y] => before[x] \in SUBSET before[y]
      BY <1>1
  <2> HIDE DEF before
  <2> QED BY <1>2, <2>1, <2>2, <2>3 DEF Linear
<1>4. \A x, y \in S : x \in before[y] <=> RankIn(s, x) < RankIn(s, y)
    OBVIOUS
<1>5. Among(s, S) = InOrder(S, before)
    BY DEF Among
<1> HIDE DEF before
<1> QED BY <1>3, <1>4, <1>5, ListedInOrder
LEMMA Growing ==
    ASSUME NEW n \in Nat, NEW g \in [0 .. n -> Int], \A k \in 1 .. n : g[k - 1] <= g[k]
    PROVE  \A i, j \in 0 .. n : i <= j => g[i] <= g[j]
<1> SUFFICES ASSUME NEW i \in 0 .. n PROVE \A j \in 0 .. n : i <= j => g[i] <= g[j]
    OBVIOUS
<1> DEFINE T == {j \in 0 .. n : i <= j => g[i] <= g[j]}
<1>1. 0 \in T
    OBVIOUS
<1>2. ASSUME NEW j \in 0 .. n - 1, j \in T PROVE j + 1 \in T
  <2>1. j + 1 \in 1 .. n /\ j + 1 - 1 = j /\ g[j] \in Int /\ g[j + 1] \in Int /\ g[i] \in Int
      OBVIOUS
  <2>2. g[j] <= g[j + 1]
      BY <2>1
  <2>3. i = j + 1 \/ i <= j \/ i > j + 1
      OBVIOUS
  <2> QED BY <1>2, <2>1, <2>2, <2>3
<1>3. \A j \in 0 .. n : j \in T
  <2> HIDE DEF T
  <2> QED BY <1>1, <1>2, Induction
<1> QED BY <1>3

-----------------------------------------------------------------------------
(* What the pieces of a document are. *)
Fragments == [text: Texts \ {Blank}, page: Nat]
Origins   == [paragraph: Nat, first: Nat, last: Nat]
Drafts    == [pieces: Seq(Fragments), lead: Nat]

LEMMA PageTexts ==
    ASSUME NEW s \in Sources
    PROVE  /\ DOMAIN s.pages = 1 .. Len(s.pages) /\ Len(s.pages) \in Nat
           /\ \A p \in DOMAIN s.pages :
                 /\ DOMAIN s.pages[p] = 1 .. Len(s.pages[p]) /\ Len(s.pages[p]) \in Nat
                 /\ \A i \in DOMAIN s.pages[p] : s.pages[p][i] \in Texts \ {Blank}
<1>1. /\ s.pages \in Seq(Range(s.pages))
      /\ \A p \in Range(s.pages) : p \in Seq(Range(p)) /\ Range(p) \subseteq Texts \ {Blank}
    BY DocumentFields
<1>2. DOMAIN s.pages = 1 .. Len(s.pages) /\ Len(s.pages) \in Nat
    BY <1>1
<1>3. ASSUME NEW p \in DOMAIN s.pages
      PROVE  /\ DOMAIN s.pages[p] = 1 .. Len(s.pages[p]) /\ Len(s.pages[p]) \in Nat
             /\ \A i \in DOMAIN s.pages[p] : s.pages[p][i] \in Texts \ {Blank}
  <2>1. s.pages[p] \in Range(s.pages)
      BY DEF Range
  <2>2. s.pages[p] \in Seq(Range(s.pages[p]))
      BY <1>1, <2>1
  <2>3. Range(s.pages[p]) \subseteq Texts \ {Blank}
      BY <1>1, <2>1
  <2>4. \A i \in DOMAIN s.pages[p] : s.pages[p][i] \in Range(s.pages[p])
      BY DEF Range
  <2> QED BY <2>2, <2>3, <2>4
<1> QED BY <1>2, <1>3

LEMMA PlacesAreOrdered ==
    ASSUME NEW s \in Sources
    PROVE  Linear(Places(s), Earlier(s))
<1> DEFINE D == DOMAIN s.pages
           f == [p \in D |-> {p} \X DOMAIN s.pages[p]]
           F == {{p} \X DOMAIN s.pages[p] : p \in D}
<1>1. /\ D = 1 .. Len(s.pages) /\ Len(s.pages) \in Nat
      /\ \A p \in D : DOMAIN s.pages[p] = 1 .. Len(s.pages[p]) /\ Len(s.pages[p]) \in Nat
    BY PageTexts
<1>2. IsFiniteSet(Places(s))
  <2>1. IsFiniteSet(F)
    <3>1. IsFiniteSet(D)
        BY <1>1, FirstNumbers
    <3>2. f \in Surjection(D, F)
        BY DEF Surjection
    <3> HIDE DEF f, F, D
    <3> QED BY <3>1, <3>2, FS_Surjection
  <2>2. ASSUME NEW p \in D PROVE IsFiniteSet({p} \X DOMAIN s.pages[p])
    <3>1. IsFiniteSet(DOMAIN s.pages[p]) /\ IsFiniteSet({p})
        BY <1>1, FirstNumbers, FS_Singleton
    <3> QED BY <3>1, FS_Product
  <2>3. \A S \in F : IsFiniteSet(S)
      BY <2>2
  <2>4. Places(s) = UNION F
      BY DEF Places
  <2> HIDE DEF F
  <2> QED BY <2>1, <2>3, <2>4, FS_UNION
<1>3. \A a \in Places(s) : a[1] \in Nat /\ a[2] \in Nat /\ a = <<a[1], a[2]>>
  <2> SUFFICES ASSUME NEW p \in D, NEW a \in {p} \X DOMAIN s.pages[p]
               PROVE  a[1] \in Nat /\ a[2] \in Nat /\ a = <<a[1], a[2]>>
      BY DEF Places
  <2> QED BY <1>1
<1> DEFINE before == Earlier(s)
<1>4. \A x \in Places(s) : before[x] = {a \in Places(s) : a[1] < x[1] \/ (a[1] = x[1] /\ a[2] < x[2])}
    BY DEF Earlier
<1> HIDE DEF before
<1>5. \A x \in Places(s) : before[x] \in SUBSET Places(s) /\ x \notin before[x]
    BY <1>3, <1>4
<1>6. ASSUME NEW x \in Places(s), NEW y \in Places(s)
      PROVE  x = y \/ x \in before[y] \/ y \in before[x]
  <2>1. /\ x[1] \in Nat /\ x[2] \in Nat /\ x = <<x[1], x[2]>>
        /\ y[1] \in Nat /\ y[2] \in Nat /\ y = <<y[1], y[2]>>
      BY <1>3
  <2>2. x[1] < y[1] \/ y[1] < x[1] \/ (x[1] = y[1] /\ (x[2] < y[2] \/ y[2] < x[2] \/ x[2] = y[2]))
      BY <2>1
  <2>3. x[1] = y[1] /\ x[2] = y[2] => x = y
      BY <2>1
  <2> QED BY <1>4, <2>2, <2>3
<1>7. ASSUME NEW x \in Places(s), NEW y \in Places(s), x \in before[y]
      PROVE  before[x] \in SUBSET before[y]
  <2> SUFFICES ASSUME NEW a \in Places(s), a \in before[x] PROVE a \in before[y]
      BY <1>5
  <2>1. /\ x[1] \in Nat /\ x[2] \in Nat /\ y[1] \in Nat /\ y[2] \in Nat
        /\ a[1] \in Nat /\ a[2] \in Nat
      BY <1>3
  <2>2. x[1] < y[1] \/ (x[1] = y[1] /\ x[2] < y[2])
      BY <1>4, <1>7
  <2>3. a[1] < x[1] \/ (a[1] = x[1] /\ a[2] < x[2])
      BY <1>4
  <2>4. a[1] < y[1] \/ (a[1] = y[1] /\ a[2] < y[2])
      BY <2>1, <2>2, <2>3
  <2> QED BY <1>4, <2>4
<1> QED BY <1>2, <1>5, <1>6, <1>7 DEF Linear, before

LEMMA ParagraphsAreListed ==
    ASSUME NEW s \in Sources
    PROVE  LET ps == Paragraphs(s)
           IN  /\ ps \in Seq(Fragments)
               /\ \A i, j \in 1 .. Len(ps) : i <= j => ps[i].page <= ps[j].page
               /\ \A i \in 1 .. Len(ps) : ps[i].page = NoPage <=> s.kind # "pdf"
<1> DEFINE order == InOrder(Places(s), Earlier(s))
           ps == Paragraphs(s)
<1>1. /\ Lists(order, Places(s))
      /\ \A x, y \in Places(s) : x \in Earlier(s)[y] <=> RankIn(order, x) < RankIn(order, y)
    BY PlacesAreOrdered, ListedInOrder
<1>2. ps = [n \in DOMAIN order |->
              [text |-> s.pages[order[n][1]][order[n][2]],
               page |-> IF s.kind = "pdf" THEN order[n][1] ELSE NoPage]]
    BY DEF Paragraphs
<1> HIDE DEF order, ps
<1>3. /\ order \in Seq(Places(s)) /\ DOMAIN order = 1 .. Len(order) /\ Len(order) \in Nat
      /\ \A n \in DOMAIN order : order[n] \in Places(s)
    BY <1>1 DEF Lists
<1>4. ASSUME NEW a \in Places(s)
      PROVE  a[1] \in Nat \ {0} /\ s.pages[a[1]][a[2]] \in Texts \ {Blank}
  <2>1. PICK p \in DOMAIN s.pages : a \in {p} \X DOMAIN s.pages[p]
      BY DEF Places
  <2>2. a[1] = p /\ a[2] \in DOMAIN s.pages[p]
      BY <2>1
  <2> QED BY <2>2, PageTexts
<1>5. \A n \in DOMAIN order : ps[n] \in Fragments
    BY <1>2, <1>3, <1>4 DEF Fragments, NoPage
<1>6. ps \in Seq(Fragments) /\ Len(ps) = Len(order)
  <2>1. ps \in [1 .. Len(order) -> Fragments]
      BY <1>2, <1>3, <1>5
  <2> QED BY <1>3, <2>1
<1>7. \A i \in 1 .. Len(ps) : ps[i].page = NoPage <=> s.kind # "pdf"
    BY <1>2, <1>3, <1>4, <1>6 DEF NoPage
<1>8. ASSUME NEW i \in 1 .. Len(ps), NEW j \in 1 .. Len(ps), i <= j
      PROVE  ps[i].page <= ps[j].page
  <2>1. order[i] \in Places(s) /\ order[j] \in Places(s) /\ order[i][1] \in Nat /\ order[j][1] \in Nat
      BY <1>3, <1>4, <1>6
  <2>2. order[i][1] <= order[j][1]
    <3>1. RankIn(order, order[i]) = i /\ RankIn(order, order[j]) = j
        BY <1>1, <1>3, <1>6, RankOf DEF Lists
    <3>2. order[i] = order[j] \/ order[i] \in Earlier(s)[order[j]]
        BY <1>1, <1>8, <2>1, <3>1
    <3> QED BY <2>1, <3>2 DEF Earlier
  <2> QED BY <1>2, <1>3, <1>6, <2>1, <2>2 DEF NoPage
<1> QED BY <1>6, <1>7, <1>8 DEF ps

-----------------------------------------------------------------------------
(* Counting tokens. *)
Sizes(pieces) == [i \in DOMAIN pieces |-> Size(pieces[i])]

LEMMA SizesAreNumbers ==
    /\ \A f \in Fragments : Size(f) \in Nat \ {0} /\ Parted(f.text) \in Nat
    /\ \A pieces \in Seq(Fragments) :
          /\ Sizes(pieces) \in Seq(Nat) /\ Len(Sizes(pieces)) = Len(pieces)
          /\ TextTokens(pieces) = Total(Sizes(pieces)) /\ TextTokens(pieces) \in Nat
          /\ \A i \in 1 .. Len(pieces) : Sizes(pieces)[i] = Size(pieces[i])
<1>1. ASSUME NEW f \in Fragments PROVE Size(f) \in Nat \ {0} /\ Parted(f.text) \in Nat
  <2>1. f.text \in Texts /\ f.text # Blank
      BY DEF Fragments
  <2> QED BY <2>1, Encoding DEF Size
<1>2. ASSUME NEW pieces \in Seq(Fragments)
      PROVE  /\ Sizes(pieces) \in Seq(Nat) /\ Len(Sizes(pieces)) = Len(pieces)
             /\ TextTokens(pieces) = Total(Sizes(pieces)) /\ TextTokens(pieces) \in Nat
             /\ \A i \in 1 .. Len(pieces) : Sizes(pieces)[i] = Size(pieces[i])
  <2>1. \A i \in 1 .. Len(pieces) : pieces[i] \in Fragments
      OBVIOUS
  <2>2. \A i \in 1 .. Len(pieces) : Size(pieces[i]) \in Nat
      BY <1>1, <2>1
  <2>3. Sizes(pieces) \in [1 .. Len(pieces) -> Nat]
      BY <2>2 DEF Sizes
  <2>4. Sizes(pieces) \in Seq(Nat) /\ Len(Sizes(pieces)) = Len(pieces)
      BY <2>3
  <2>5. TextTokens(pieces) = Total(Sizes(pieces))
      BY DEF TextTokens, Sizes
  <2> QED BY <2>4, <2>5, TotalIsNatural DEF Sizes
<1> QED BY <1>1, <1>2

LEMMA TokensAreCounted ==
    ASSUME NEW pieces \in Seq(Fragments)
    PROVE  TokenCount(pieces) \in Nat
<1> DEFINE s == [i \in DOMAIN pieces |->
                    IF i < Len(pieces) THEN Parted(pieces[i].text) ELSE Size(pieces[i])]
<1>1. \A i \in 1 .. Len(pieces) : pieces[i] \in Fragments
    OBVIOUS
<1>2. \A i \in 1 .. Len(pieces) : Parted(pieces[i].text) \in Nat /\ Size(pieces[i]) \in Nat
    BY <1>1, SizesAreNumbers
<1>3. s \in [1 .. Len(pieces) -> Nat]
    BY <1>2
<1>4. s \in Seq(Nat)
    BY <1>3
<1> HIDE DEF s
<1>5. Total(s) \in Nat
    BY <1>4, TotalIsNatural
<1> QED BY <1>5 DEF TokenCount, s

LEMMA FewPieces ==
    /\ TokenCount(<<>>) = 0
    /\ \A f \in Fragments : TokenCount(<<f>>) = Size(f)
<1>1. TokenCount(<<>>) = 0
  <2> DEFINE s == [i \in DOMAIN <<>> |-> IF i < Len(<<>>) THEN Parted(<<>>[i].text) ELSE Size(<<>>[i])]
             g == [n \in {0} |-> 0]
  <2>1. s = <<>> /\ <<>> \in Seq(Nat) /\ Len(<<>>) = 0
      OBVIOUS
  <2> HIDE DEF s
  <2>2. g[0] = 0 /\ \A n \in 1 .. Len(s) : g[n] = g[n - 1] + s[n]
      BY <2>1
  <2>3. Total(s) = g[Len(s)]
    <3> HIDE DEF g
    <3> QED BY <2>1, <2>2, TotalIs
  <2> QED BY <2>1, <2>3 DEF TokenCount, s
<1>2. ASSUME NEW f \in Fragments PROVE TokenCount(<<f>>) = Size(f)
  <2> DEFINE p == <<f>>
             s == [i \in DOMAIN p |-> IF i < Len(p) THEN Parted(p[i].text) ELSE Size(p[i])]
             g == [n \in {0, 1} |-> IF n = 0 THEN 0 ELSE Size(f)]
  <2>1. Size(f) \in Nat
      BY SizesAreNumbers
  <2>2. DOMAIN p = {1} /\ Len(p) = 1 /\ p[1] = f
      OBVIOUS
  <2>3. s = <<Size(f)>>
      BY <2>2
  <2> HIDE DEF s
  <2>4. s \in Seq(Nat) /\ Len(s) = 1 /\ s[1] = Size(f)
      BY <2>1, <2>3
  <2>5. g[0] = 0 /\ \A n \in 1 .. Len(s) : g[n] = g[n - 1] + s[n]
      BY <2>1, <2>4
  <2>6. Total(s) = g[Len(s)]
    <3> HIDE DEF g
    <3> QED BY <2>4, <2>5, TotalIs
  <2>7. TokenCount(p) = Total(s)
      BY DEF TokenCount, s
  <2> QED BY <2>4, <2>6, <2>7
<1> QED BY <1>1, <1>2

-----------------------------------------------------------------------------
(* The overlap.  Ends[k] are the tokens of the last k pieces. *)
Ends(pieces, b) ==
    /\ b \in [0 .. Len(pieces) -> Nat] /\ b[0] = 0 /\ b[Len(pieces)] = TextTokens(pieces)
    /\ \A k \in 1 .. Len(pieces) : b[k] = b[k - 1] + Size(pieces[Len(pieces) - k + 1])

LEMMA EndsExist ==
    ASSUME NEW pieces \in Seq(Fragments)
    PROVE  \E b : Ends(pieces, b)
<1> DEFINE n == Len(pieces)
           s == Sizes(pieces)
<1>1. s \in Seq(Nat) /\ Len(s) = n /\ TextTokens(pieces) = Total(s) /\ n \in Nat
      /\ \A i \in 1 .. n : s[i] = Size(pieces[i]) /\ s[i] \in Nat
    BY SizesAreNumbers
<1> HIDE DEF s
<1>2. PICK f \in [0 .. n -> Nat] :
          f[0] = 0 /\ Total(s) = f[n] /\ \A i \in 1 .. n : f[i] = f[i - 1] + s[i]
    BY <1>1, TotalSums
<1> HIDE DEF n
<1>3. \A i, j \in 0 .. n : i <= j => f[i] <= f[j]
  <2>1. f \in [0 .. n -> Int] /\ \A k \in 1 .. n : f[k - 1] <= f[k]
    <3>1. ASSUME NEW k \in 1 .. n PROVE f[k - 1] <= f[k]
      <4>1. k - 1 \in 0 .. n /\ k \in 0 .. n /\ f[k - 1] \in Nat
          BY <1>1
      <4> QED BY <1>1, <1>2, <4>1
    <3> QED BY <3>1
  <2> QED BY <1>1, <2>1, Growing
<1> DEFINE b == [k \in 0 .. n |-> f[n] - f[n - k]]
<1>4. b \in [0 .. n -> Nat] /\ b[0] = 0 /\ b[n] = Total(s)
  <2>1. ASSUME NEW k \in 0 .. n PROVE f[n] - f[n - k] \in Nat
    <3>1. n - k \in 0 .. n /\ n \in 0 .. n /\ n - k <= n
        BY <1>1
    <3>2. f[n - k] <= f[n] /\ f[n - k] \in Nat /\ f[n] \in Nat
        BY <1>3, <3>1
    <3> QED BY <3>2
  <2> QED BY <1>1, <1>2, <2>1
<1>5. ASSUME NEW k \in 1 .. n PROVE b[k] = b[k - 1] + Size(pieces[n - k + 1])
  <2>1. /\ n - k + 1 \in 1 .. n /\ n - (k - 1) = n - k + 1 /\ n - k + 1 - 1 = n - k
        /\ k \in 0 .. n /\ k - 1 \in 0 .. n /\ n - k \in 0 .. n /\ n - k + 1 \in 0 .. n
      BY <1>1
  <2>2. f[n - k + 1] = f[n - k] + Size(pieces[n - k + 1])
      BY <1>1, <1>2, <2>1
  <2>3. b[k] = f[n] - f[n - k] /\ b[k - 1] = f[n] - f[n - k + 1]
      BY <2>1
  <2>4. f[n] \in Nat /\ f[n - k] \in Nat /\ f[n - k + 1] \in Nat /\ Size(pieces[n - k + 1]) \in Nat
      BY <1>1, <2>1
  <2> QED BY <2>2, <2>3, <2>4
<1> HIDE DEF b
<1> QED BY <1>1, <1>4, <1>5 DEF Ends, n
LEMMA LeftIsTheRest ==
    ASSUME NEW pieces \in Seq(Fragments), NEW b, Ends(pieces, b)
    PROVE  \A k \in 0 .. Len(pieces) :
              LeftAfter(pieces)[k] = IF b[k] >= Overlap THEN 0 ELSE Overlap - b[k]
<1> DEFINE n == Len(pieces)
           Rest(left, k) == left[k - 1] - Lesser(Size(pieces[n - k + 1]), left[k - 1])
           g == [k \in 0 .. n |-> IF b[k] >= Overlap THEN 0 ELSE Overlap - b[k]]
<1>0. n \in Nat /\ Overlap \in Nat
    BY ChunkingSettings
<1>1. /\ b \in [0 .. n -> Nat] /\ b[0] = 0
      /\ \A k \in 1 .. n : b[k] = b[k - 1] + Size(pieces[n - k + 1]) /\ Size(pieces[n - k + 1]) \in Nat
  <2>1. \A i \in 1 .. n : Size(pieces[i]) \in Nat
      BY SizesAreNumbers
  <2>2. \A k \in 1 .. n : n - k + 1 \in 1 .. n
      BY <1>0
  <2> QED BY <2>1, <2>2 DEF Ends
<1> HIDE DEF n
<1>2. g[0] = Overlap /\ \A k \in 1 .. n : g[k] = Rest(g, k)
  <2>1. g[0] = Overlap
      BY <1>0, <1>1
  <2>2. ASSUME NEW k \in 1 .. n PROVE g[k] = Rest(g, k)
    <3>1. /\ k \in 0 .. n /\ k - 1 \in 0 .. n /\ b[k - 1] \in Nat
          /\ b[k] = b[k - 1] + Size(pieces[n - k + 1]) /\ Size(pieces[n - k + 1]) \in Nat
        BY <1>0, <1>1
    <3> QED BY <1>0, <3>1 DEF Lesser
  <2> QED BY <2>1, <2>2
<1> HIDE DEF g
<1> DEFINE left == LeftAfter(pieces)
<1>3. left[0] = Overlap /\ \A k \in 1 .. n : left[k] = Rest(left, k)
  <2> DEFINE R(h) == h = [k \in 0 .. n |-> IF k = 0 THEN Overlap ELSE Rest(h, k)]
  <2>1. R(g)
    <3> DEFINE h == [k \in 0 .. n |-> IF k = 0 THEN Overlap ELSE Rest(g, k)]
    <3>1. \A k \in 0 .. n : g[k] = IF k = 0 THEN Overlap ELSE Rest(g, k)
      <4>1. \A k \in 0 .. n : k = 0 \/ k \in 1 .. n
          BY <1>0
      <4> HIDE DEF Rest
      <4> QED BY <1>2, <4>1
    <3>2. \A k \in 0 .. n : g[k] = h[k]
        BY <3>1
    <3>3. g = [k \in 0 .. n |-> g[k]] /\ h = [k \in 0 .. n |-> h[k]]
        BY DEF g
    <3>4. g = h
      <4> HIDE DEF h
      <4> QED BY <3>2, <3>3
    <3> QED BY <3>4
  <2>2. left = CHOOSE h : R(h)
      BY DEF LeftAfter, n
  <2>3. R(left)
    <3> HIDE DEF R, left
    <3> QED BY <2>1, <2>2
  <2> HIDE DEF left
  <2>4. 0 \in 0 .. n /\ \A k \in 1 .. n : k \in 0 .. n /\ k # 0
      BY <1>0
  <2> QED BY <2>3, <2>4
<1> HIDE DEF left
<1> DEFINE T == {k \in 0 .. n : left[k] = g[k]}
<1>4. 0 \in T
    BY <1>0, <1>2, <1>3
<1>5. ASSUME NEW k \in 0 .. n - 1, k \in T PROVE k + 1 \in T
  <2>1. k + 1 \in 1 .. n /\ k + 1 \in 0 .. n /\ k + 1 - 1 = k /\ left[k] = g[k]
      BY <1>0, <1>5
  <2>2. left[k + 1] = Rest(left, k + 1) /\ g[k + 1] = Rest(g, k + 1)
      BY <1>2, <1>3, <2>1
  <2>3. Rest(left, k + 1) = Rest(g, k + 1)
      BY <2>1
  <2> QED BY <2>1, <2>2, <2>3
<1>6. \A k \in 0 .. n : k \in T
  <2> HIDE DEF T
  <2> QED BY <1>0, <1>4, <1>5, Induction
<1> QED BY <1>6 DEF g, n, left

(* rest are the last k of the pieces. *)
IsEnd(rest, pieces, k) ==
    Len(rest) = k /\ \A i \in 1 .. k : rest[i] = pieces[Len(pieces) - k + i]

LEMMA EndTokens ==
    ASSUME NEW pieces \in Seq(Fragments), NEW b, Ends(pieces, b), NEW k \in 0 .. Len(pieces),
           NEW rest \in Seq(Fragments), IsEnd(rest, pieces, k)
    PROVE  TextTokens(rest) = b[k]
<1> DEFINE n == Len(pieces)
           s == Sizes(rest)
           g == [i \in 0 .. k |-> b[k] - b[k - i]]
<1>1. /\ s \in Seq(Nat) /\ Len(s) = k /\ TextTokens(rest) = Total(s)
      /\ \A i \in 1 .. k : s[i] = Size(rest[i])
    BY SizesAreNumbers DEF IsEnd
<1>2. /\ n \in Nat /\ k \in Nat /\ k <= n /\ b \in [0 .. n -> Nat] /\ b[0] = 0
      /\ \A i \in 1 .. n : b[i] = b[i - 1] + Size(pieces[n - i + 1])
      /\ \A i \in 1 .. k : rest[i] = pieces[n - k + i]
    BY DEF Ends, IsEnd
<1>3. \A i \in 1 .. n : pieces[i] \in Fragments /\ Size(pieces[i]) \in Nat
  <2>1. \A i \in 1 .. n : pieces[i] \in Fragments
      OBVIOUS
  <2> QED BY <2>1, SizesAreNumbers
<1> HIDE DEF s, n
<1>4. ASSUME NEW i \in 1 .. k PROVE g[i] = g[i - 1] + s[i]
  <2> DEFINE j == k - i + 1
  <2>1. /\ j \in 1 .. n /\ j - 1 = k - i /\ n - j + 1 = n - k + i /\ k - (i - 1) = j
        /\ i \in 0 .. k /\ i - 1 \in 0 .. k /\ j \in 0 .. n /\ k - i \in 0 .. n /\ k \in 0 .. n
        /\ n - k + i \in 1 .. n
      BY <1>2
  <2> HIDE DEF j
  <2>2. b[j] = b[k - i] + Size(pieces[n - k + i])
    <3>1. b[j] = b[j - 1] + Size(pieces[n - j + 1])
        BY <1>2, <2>1
    <3> QED BY <2>1, <3>1
  <2>3. s[i] = Size(pieces[n - k + i])
      BY <1>1, <1>2
  <2>4. g[i] = b[k] - b[k - i] /\ g[i - 1] = b[k] - b[j]
      BY <2>1
  <2>5. b[j] \in Nat /\ b[k - i] \in Nat /\ b[k] \in Nat /\ s[i] \in Nat
      BY <1>2, <1>3, <2>1, <2>3
  <2>6. b[j] = b[k - i] + s[i]
      BY <2>2, <2>3
  <2>7. b[k] - b[k - i] = (b[k] - b[j]) + s[i]
    <3> DEFINE x == b[k]  y == b[j]  z == b[k - i]  t == s[i]
    <3>1. x \in Nat /\ y \in Nat /\ z \in Nat /\ t \in Nat /\ y = z + t
        BY <2>5, <2>6
    <3> HIDE DEF x, y, z, t
    <3>2. x - z = (x - y) + t
        BY ONLY <3>1
    <3> QED BY <3>2 DEF x, y, z, t
  <2> HIDE DEF g
  <2> QED BY ONLY <2>4, <2>7
<1>5. g[0] = 0 /\ g[k] = b[k]
  <2>1. 0 \in 0 .. k /\ k \in 0 .. k /\ k - 0 = k /\ k - k = 0 /\ b[k] \in Nat
      BY <1>2
  <2> QED BY <1>2, <2>1
<1> HIDE DEF g
<1>6. Total(s) = g[Len(s)]
    BY <1>1, <1>4, <1>5, TotalIs
<1> QED BY <1>1, <1>5, <1>6

LastText(f, m) == Slice(f.text, Size(f) - m + 1, Size(f))

LEMMA LastTexts ==
    ASSUME NEW f \in Fragments
    PROVE  /\ LastText(f, Size(f)) = f.text
           /\ \A m \in 1 .. Size(f) : LastText(f, m) \in Texts
<1>1. Size(f) \in Nat \ {0} /\ f.text \in Texts /\ Size(f) = Tokens(f.text)
    BY SizesAreNumbers DEF Fragments, Size
<1>2. Size(f) - Size(f) + 1 = 1
    BY <1>1
<1>3. LastText(f, Size(f)) = f.text
    BY <1>1, <1>2, Encoding DEF LastText
<1>4. ASSUME NEW m \in 1 .. Size(f) PROVE LastText(f, m) \in Texts
  <2>1. Size(f) - m + 1 \in 1 .. Tokens(f.text) /\ Size(f) \in 1 .. Tokens(f.text)
      BY <1>1
  <2> QED BY <1>1, <2>1, Encoding DEF LastText
<1> QED BY <1>3, <1>4

(* How many pieces the overlap takes: c; of these only the first is cut.    *)
LEMMA TakenPieces ==
    ASSUME NEW pieces \in Seq(Fragments), NEW b, Ends(pieces, b)
    PROVE  LET n    == Len(pieces)
               left == LeftAfter(pieces)
           IN  \E c \in 0 .. n :
                  /\ Cardinality({k \in 1 .. n : left[k - 1] > 0}) = c
                  /\ \A k \in 0 .. c - 1 : left[k] = Overlap - b[k] /\ b[k] < Overlap
                  /\ c = n \/ b[c] >= Overlap
<1> DEFINE n == Len(pieces)
           left == LeftAfter(pieces)
           C == {k \in 1 .. n : left[k - 1] > 0}
<1>0. n \in Nat /\ Overlap \in Nat /\ Target \in Nat
    BY ChunkingSettings
<1>2. /\ b \in [0 .. n -> Nat]
      /\ \A k \in 0 .. n : left[k] = IF b[k] >= Overlap THEN 0 ELSE Overlap - b[k]
      /\ \A k \in 1 .. n : b[k] = b[k - 1] + Size(pieces[n - k + 1])
    BY LeftIsTheRest DEF Ends
<1>3. \A i \in 1 .. n : Size(pieces[i]) \in Nat
  <2>1. \A i \in 1 .. n : pieces[i] \in Fragments
      OBVIOUS
  <2> QED BY <2>1, SizesAreNumbers
<1> HIDE DEF n, left
<1>4. \A i, j \in 0 .. n : i <= j => b[i] <= b[j]
  <2>1. ASSUME NEW k \in 1 .. n PROVE b[k - 1] <= b[k]
    <3>1. k - 1 \in 0 .. n /\ b[k - 1] \in Nat /\ n - k + 1 \in 1 .. n
        BY <1>0, <1>2
    <3>2. Size(pieces[n - k + 1]) \in Nat
        BY <1>3, <3>1
    <3> QED BY <1>2, <3>1, <3>2
  <2>2. b \in [0 .. n -> Int]
      BY <1>2
  <2> QED BY <1>0, <2>1, <2>2, Growing
<1>5. ASSUME NEW k \in 0 .. n PROVE left[k] \in Nat
  <2>1. b[k] \in Nat /\ left[k] = IF b[k] >= Overlap THEN 0 ELSE Overlap - b[k]
      BY <1>2
  <2> QED BY <1>0, <2>1
<1>6. PICK c \in 0 .. n : C = 1 .. c /\ (c = n \/ left[c] = 0)
  <2> DEFINE E == {k \in 0 .. n : k = n \/ left[k] = 0}
  <2>1. E \in SUBSET Nat /\ n \in E
      BY <1>0
  <2>2. PICK c \in E : \A k \in E : c <= k
    <3> HIDE DEF E
    <3> QED BY <2>1, LeastNumber
  <2>0. /\ c \in 0 .. n /\ (c = n \/ left[c] = 0)
        /\ \A k \in 0 .. n : (k = n \/ left[k] = 0) => c <= k
      BY <2>2
  <2> HIDE DEF E
  <2>3. ASSUME NEW k \in 1 .. n PROVE left[k - 1] > 0 <=> k <= c
    <3>1. k - 1 \in 0 .. n /\ left[k - 1] \in Nat /\ k - 1 # n
        BY <1>0, <1>5
    <3>2. CASE k <= c
      <4>1. left[k - 1] # 0
          BY <1>0, <2>0, <3>1, <3>2
      <4> QED BY <3>1, <3>2, <4>1
    <3>3. CASE k > c
      <4>1. c # n /\ left[c] = 0 /\ c <= k - 1 /\ c \in 0 .. n
          BY <1>0, <2>0, <3>3
      <4>2. b[c] >= Overlap /\ b[c] <= b[k - 1] /\ b[c] \in Nat /\ b[k - 1] \in Nat
          BY <1>0, <1>2, <1>4, <3>1, <4>1
      <4>3. left[k - 1] = 0
          BY <1>0, <1>2, <3>1, <4>2
      <4> QED BY <1>0, <2>0, <3>3, <4>3
    <3>4. k <= c \/ k > c
        BY <1>0, <2>0
    <3> QED BY <3>2, <3>3, <3>4
  <2>4. \A k : k \in C <=> k \in 1 .. c
    <3>1. \A k : k \in C <=> k \in 1 .. n /\ k <= c
        BY <2>3
    <3> HIDE DEF C
    <3> QED BY <1>0, <2>0, <3>1
  <2> HIDE DEF C
  <2>5. C = 1 .. c
      BY <2>4
  <2> QED BY <2>0, <2>5
<1>7. Cardinality(C) = c
  <2>1. C = 1 .. c /\ c \in Nat
      BY <1>0, <1>6
  <2> HIDE DEF C
  <2> QED BY <2>1, FirstNumbers
<1> HIDE DEF C
<1>8. ASSUME NEW k \in 0 .. c - 1 PROVE left[k] = Overlap - b[k] /\ b[k] < Overlap
  <2>1. k + 1 \in 1 .. c /\ k + 1 - 1 = k /\ k \in 0 .. n
      BY <1>0
  <2>2. left[k] > 0
    <3>1. k + 1 \in C
        BY <1>6, <2>1
    <3>2. left[k + 1 - 1] > 0
        BY <3>1 DEF C
    <3> QED BY <2>1, <3>2
  <2> QED BY <1>0, <1>2, <2>1, <2>2
<1>9. c = n \/ b[c] >= Overlap
  <2>1. left[c] = 0 => b[c] >= Overlap
      BY <1>0, <1>2
  <2> QED BY <1>6, <2>1
<1> QED BY <1>7, <1>8, <1>9 DEF C, n, left

(* What is repeated: o are the last pieces, the first of them in part.       *)
RepeatsEnd(o, pieces) ==
    LET n == Len(pieces) - Len(o)
    IN  /\ o \in Seq(Fragments) /\ Len(o) <= Len(pieces)
        /\ \A k \in 1 .. Len(o) : o[k].page = pieces[n + k].page
        /\ \A k \in 2 .. Len(o) : o[k] = pieces[n + k]
        /\ Len(o) > 0 =>
              \E m \in 1 .. Size(pieces[n + 1]), r \in Nat :
                 /\ o[1].text = LastText(pieces[n + 1], m)
                 /\ \A rest \in Seq(Fragments) : IsEnd(rest, pieces, Len(o) - 1) => TextTokens(rest) = r
                 /\ \/ m + r = Overlap
                    \/ /\ m + r < Overlap /\ m = Size(pieces[n + 1])
                       /\ \/ n = 0
                          \/ LastText(pieces[n], Lesser(Size(pieces[n]), Overlap - (m + r))) = Blank

LEMMA OverlapFacts ==
    ASSUME NEW pieces \in Seq(Fragments)
    PROVE  RepeatsEnd(OverlapOf(pieces), pieces)
<1> DEFINE n == Len(pieces)
           left == LeftAfter(pieces)
<1>0. n \in Nat /\ Overlap \in Nat
    BY ChunkingSettings
<1>1. PICK b : Ends(pieces, b)
    BY EndsExist
<1>2. /\ b \in [0 .. n -> Nat] /\ b[0] = 0
      /\ \A k \in 1 .. n : b[k] = b[k - 1] + Size(pieces[n - k + 1])
    BY <1>1 DEF Ends
<1>3. \A i \in 1 .. n : pieces[i] \in Fragments /\ Size(pieces[i]) \in Nat \ {0}
  <2>1. \A i \in 1 .. n : pieces[i] \in Fragments
      OBVIOUS
  <2> QED BY <2>1, SizesAreNumbers
<1>4. PICK c \in 0 .. n :
          /\ Cardinality({k \in 1 .. n : left[k - 1] > 0}) = c
          /\ \A k \in 0 .. c - 1 : left[k] = Overlap - b[k] /\ b[k] < Overlap
          /\ c = n \/ b[c] >= Overlap
    BY <1>1, TakenPieces
<1> DEFINE t == [j \in 1 .. c |-> LastTokens(pieces[n - c + j], left[c - j])]
           o == OverlapOf(pieces)
<1>5. o = IF t # <<>> /\ t[1].text = Blank THEN Tail(t) ELSE t
    BY <1>4 DEF OverlapOf
<1>6. \A rest \in Seq(Fragments), k \in 0 .. n : IsEnd(rest, pieces, k) => TextTokens(rest) = b[k]
    BY <1>1, EndTokens
<1>7. ASSUME NEW j \in 1 .. c
      PROVE  /\ n - c + j \in 1 .. n /\ pieces[n - c + j] \in Fragments
             /\ t[j].page = pieces[n - c + j].page
             /\ t[j].text = LastText(pieces[n - c + j], Lesser(Size(pieces[n - c + j]), left[c - j]))
             /\ t[j] = [pieces[n - c + j] EXCEPT !.text = t[j].text]
  <2>1. n - c + j \in 1 .. n
      BY <1>0
  <2> DEFINE f == pieces[n - c + j]
  <2>2. f \in Fragments
      BY <1>3, <2>1
  <2>3. t[j] = LastTokens(f, left[c - j])
      OBVIOUS
  <2> HIDE DEF f, left, t
  <2>4. t[j] = [f EXCEPT !.text = LastText(f, Lesser(Size(f), left[c - j]))]
      BY <2>3 DEF LastTokens, LastText
  <2> QED BY <2>1, <2>2, <2>4 DEF Fragments, f
<1> HIDE DEF left, n, o
<1>8. t \in [1 .. c -> {t[j] : j \in 1 .. c}] /\ c \in Nat
    BY <1>0
<1> HIDE DEF t
<1>9. DOMAIN t = 1 .. c /\ (t # <<>> <=> c > 0)
  <2>1. DOMAIN t = 1 .. c
      BY <1>8
  <2>2. c = 0 => t = <<>>
      BY <1>8
  <2>3. c > 0 => t # <<>>
    <3> SUFFICES ASSUME c > 0 PROVE 1 \in DOMAIN t /\ 1 \notin DOMAIN <<>>
        OBVIOUS
    <3> QED BY <1>8, <2>1
  <2> QED BY <1>8, <2>1, <2>2, <2>3
<1>10. ASSUME NEW j \in 2 .. c
       PROVE  t[j] = pieces[n - c + j] /\ n - c + j \in 1 .. n
  <2> DEFINE k == c - j + 1
             f == pieces[n - c + j]
  <2>0. n \in Nat /\ c \in Nat /\ c <= n /\ j \in Nat /\ 2 <= j /\ j <= c
      BY <1>0, <1>8
  <2>1. /\ j \in 1 .. c /\ k \in 1 .. n /\ k \in 0 .. c - 1 /\ k - 1 = c - j /\ c - j \in 0 .. c - 1
        /\ n - k + 1 = n - c + j /\ k \in 0 .. n /\ c - j \in 0 .. n
    <3>1. j \in 1 .. c /\ k \in 1 .. n /\ k \in 0 .. c - 1 /\ k - 1 = c - j
        BY <2>0
    <3>2. c - j \in 0 .. c - 1 /\ n - k + 1 = n - c + j
        BY <2>0
    <3>3. k \in 0 .. n /\ c - j \in 0 .. n
        BY <2>0
    <3> QED BY <3>1, <3>2, <3>3
  <2>2. f \in Fragments /\ Size(f) \in Nat \ {0}
      BY <1>3, <1>7, <2>1
  <2>3. b[k] = b[c - j] + Size(f) /\ b[k] < Overlap /\ left[c - j] = Overlap - b[c - j]
    <3>1. b[k] = b[k - 1] + Size(pieces[n - k + 1])
        BY <1>2, <2>1
    <3> QED BY <1>4, <2>1, <3>1
  <2>4. b[k] \in Nat /\ b[c - j] \in Nat
      BY <1>2, <2>1
  <2> HIDE DEF k
  <2>5. Lesser(Size(f), left[c - j]) = Size(f)
    <3> HIDE DEF f
    <3> QED BY <1>0, <2>2, <2>3, <2>4 DEF Lesser
  <2>6. t[j].text = f.text
      BY <1>7, <2>1, <2>2, <2>5, LastTexts
  <2>7. t[j] = [f EXCEPT !.text = f.text] /\ n - c + j \in 1 .. n
      BY <1>7, <2>1, <2>6
  <2> QED BY <2>2, <2>7 DEF Fragments
<1>11. \A j \in 2 .. c : t[j] \in Fragments
    BY <1>3, <1>10
<1>12. CASE c = 0
  <2>1. o = <<>>
      BY <1>5, <1>9, <1>12
  <2>2. Len(<<>>) = 0 /\ <<>> \in Seq(Fragments)
      OBVIOUS
  <2> QED BY <1>0, <2>1, <2>2 DEF RepeatsEnd, o, n
<1>13. CASE c > 0
  <2> DEFINE f == pieces[n - c + 1]
             m == Lesser(Size(f), left[c - 1])
  <2>1. /\ 1 \in 1 .. c /\ n - c + 1 \in 1 .. n /\ c - 1 \in 0 .. c - 1 /\ c \in 1 .. n
        /\ c - 1 \in 0 .. n /\ n - c \in Nat /\ c <= n
      BY <1>0, <1>8, <1>13
  <2>2. /\ f \in Fragments /\ Size(f) \in Nat \ {0} /\ t[1].page = f.page
        /\ t[1].text = LastText(f, m) /\ t[1] = [f EXCEPT !.text = t[1].text]
      BY <1>3, <1>7, <2>1
  <2>3. b[c] = b[c - 1] + Size(f) /\ b[c - 1] < Overlap /\ left[c - 1] = Overlap - b[c - 1]
        /\ b[c] \in Nat /\ b[c - 1] \in Nat
      BY <1>2, <1>4, <2>1
  <2> HIDE DEF f
  <2>4. /\ m \in 1 .. Size(f)
        /\ m + b[c - 1] = Overlap \/ (m + b[c - 1] < Overlap /\ m = Size(f) /\ b[c] < Overlap)
    <3> DEFINE x == b[c - 1]
               s == Size(f)
    <3>1. x \in Nat /\ s \in Nat \ {0} /\ x < Overlap /\ m = Lesser(s, Overlap - x) /\ b[c] = x + s
        BY <2>2, <2>3
    <3> HIDE DEF x, s, m
    <3>2. m \in 1 .. s /\ (m + x = Overlap \/ (m + x < Overlap /\ m = s /\ b[c] < Overlap))
        BY <1>0, <3>1 DEF Lesser
    <3> QED BY <3>2 DEF x, s
  <2> HIDE DEF m
  <2>5. t[1].text \in Texts
      BY <2>2, <2>4, LastTexts
  <2>6. CASE t[1].text # Blank
    <3>1. o = t
        BY <1>5, <2>6
    <3>2. t[1] \in Fragments
        BY <2>2, <2>5, <2>6 DEF Fragments
    <3>3. \A j \in 1 .. c : t[j] \in Fragments
      <4>1. \A j \in 1 .. c : j = 1 \/ j \in 2 .. c
          BY <1>8
      <4> QED BY <1>11, <3>2, <4>1
    <3>4. t \in Seq(Fragments) /\ Len(t) = c
      <4>1. t \in [1 .. c -> Fragments]
          BY <1>8, <3>3
      <4> QED BY <1>8, <4>1
    <3>5. \A k \in 1 .. c : t[k].page = pieces[n - c + k].page
        BY <1>7
    <3>6. \A rest \in Seq(Fragments) : IsEnd(rest, pieces, c - 1) => TextTokens(rest) = b[c - 1]
        BY <1>6, <2>1
    <3>7. m + b[c - 1] < Overlap => n - c = 0
      <4>1. m + b[c - 1] < Overlap => b[c] < Overlap
          BY <1>0, <2>3, <2>4
      <4>2. b[c] < Overlap => c = n
          BY <1>0, <1>4, <2>3
      <4> QED BY <1>0, <4>1, <4>2
    <3>8. \E i \in 1 .. Size(f), r \in Nat :
                 /\ t[1].text = LastText(f, i)
                 /\ \A rest \in Seq(Fragments) : IsEnd(rest, pieces, c - 1) => TextTokens(rest) = r
                 /\ \/ i + r = Overlap
                    \/ /\ i + r < Overlap /\ i = Size(f)
                       /\ \/ n - c = 0
                          \/ LastText(pieces[n - c], Lesser(Size(pieces[n - c]), Overlap - (i + r))) = Blank
        BY <2>2, <2>3, <2>4, <3>6, <3>7
    <3>9. RepeatsEnd(t, pieces)
        BY <1>10, <2>1, <3>4, <3>5, <3>8 DEF RepeatsEnd, n, f
    <3> QED BY <3>1, <3>9 DEF o
  <2>7. CASE t[1].text = Blank
    <3> DEFINE u == Tail(t)
    <3>1. o = u
        BY <1>5, <1>9, <1>13, <2>7
    <3>2. u \in Seq(Fragments) /\ Len(u) = c - 1 /\ \A k \in 1 .. c - 1 : u[k] = t[k + 1]
      <4> DEFINE T == {t[j] : j \in 1 .. c}
      <4>1. t \in Seq(T) /\ Len(t) = c /\ t # <<>>
        <5> HIDE DEF T
        <5> QED BY <1>8, <1>9, <1>13 DEF T
      <4>2. Len(u) = c - 1 /\ \A k \in 1 .. c - 1 : u[k] = t[k + 1]
        <5> HIDE DEF T
        <5> QED BY <4>1, HeadTailProperties
      <4>3. u \in Seq(T)
        <5> HIDE DEF T
        <5> QED BY <4>1, HeadTailProperties
      <4>4. \A k \in 1 .. c - 1 : u[k] \in Fragments
        <5>1. \A k \in 1 .. c - 1 : k + 1 \in 2 .. c
            BY <1>8
        <5> QED BY <1>11, <4>2, <5>1
      <4> HIDE DEF u, T
      <4>5. u \in [1 .. c - 1 -> Fragments] /\ c - 1 \in Nat
          BY <2>1, <4>2, <4>3, <4>4
      <4> QED BY <4>2, <4>5
    <3> HIDE DEF u
    <3>3. \A k \in 1 .. c - 1 : u[k] = pieces[n - (c - 1) + k] /\ n - (c - 1) + k \in 1 .. n
      <4> SUFFICES ASSUME NEW k \in 1 .. c - 1
                   PROVE  u[k] = pieces[n - (c - 1) + k] /\ n - (c - 1) + k \in 1 .. n
          OBVIOUS
      <4>1. k + 1 \in 2 .. c /\ n - c + (k + 1) = n - (c - 1) + k
          BY <1>0, <1>8
      <4>2. t[k + 1] = pieces[n - c + (k + 1)] /\ n - c + (k + 1) \in 1 .. n
          BY <1>10, <4>1
      <4> QED BY <3>2, <4>1, <4>2
    <3>4. ASSUME c - 1 > 0
          PROVE  \E i \in 1 .. Size(pieces[n - (c - 1) + 1]), r \in Nat :
                 /\ u[1].text = LastText(pieces[n - (c - 1) + 1], i)
                 /\ \A rest \in Seq(Fragments) : IsEnd(rest, pieces, c - 1 - 1) => TextTokens(rest) = r
                 /\ i + r < Overlap /\ i = Size(pieces[n - (c - 1) + 1])
                 /\ LastText(pieces[n - (c - 1)], Lesser(Size(pieces[n - (c - 1)]), Overlap - (i + r))) = Blank
      <4> DEFINE g == pieces[n - (c - 1) + 1]
                 i == Size(g)
                 r == b[c - 2]
      <4>1. /\ 1 \in 1 .. c - 1 /\ c - 1 - 1 = c - 2 /\ c - 2 \in 0 .. n /\ c - 1 \in 1 .. n
            /\ n - (c - 1) = n - c + 1 /\ n - (c - 1) + 1 \in 1 .. n
          BY <1>0, <1>8, <2>1, <3>4
      <4>2. u[1] = g /\ g \in Fragments /\ i \in Nat \ {0}
          BY <1>3, <3>3, <4>1
      <4>3. b[c - 1] = r + i /\ r \in Nat
          BY <1>2, <4>1
      <4>4. \A rest \in Seq(Fragments) : IsEnd(rest, pieces, c - 1 - 1) => TextTokens(rest) = r
          BY <1>6, <4>1
      <4>5. u[1].text = LastText(g, i) /\ i \in 1 .. i
          BY <4>2, LastTexts
      <4> HIDE DEF i, r, g
      <4>6. i + r = b[c - 1] /\ i + r < Overlap
          BY <2>3, <4>2, <4>3
      <4>7. LastText(f, Lesser(Size(f), Overlap - (i + r))) = Blank
          BY <2>2, <2>3, <2>7, <4>6 DEF m
      <4>8. i \in 1 .. Size(g) /\ i = Size(g)
          BY <4>2 DEF i
      <4>9. f = pieces[n - (c - 1)] /\ g = pieces[n - (c - 1) + 1]
          BY <4>1 DEF f, g
      <4>10. /\ i \in 1 .. Size(pieces[n - (c - 1) + 1]) /\ i = Size(pieces[n - (c - 1) + 1])
             /\ u[1].text = LastText(pieces[n - (c - 1) + 1], i)
          BY <4>5, <4>8, <4>9
      <4>11. LastText(pieces[n - (c - 1)], Lesser(Size(pieces[n - (c - 1)]), Overlap - (i + r))) = Blank
          BY <4>7, <4>9
      <4> QED BY <4>3, <4>4, <4>6, <4>10, <4>11
    <3>5. Len(u) = c - 1 /\ c - 1 <= n /\ \A k \in 1 .. c - 1 : u[k].page = pieces[n - (c - 1) + k].page
      <4>1. c - 1 <= n
          BY <1>0, <1>8, <2>1
      <4>2. \A k \in 1 .. c - 1 : u[k].page = pieces[n - (c - 1) + k].page
          BY <3>3
      <4> QED BY <3>2, <4>1, <4>2
    <3>6. \A k \in 2 .. c - 1 : u[k] = pieces[n - (c - 1) + k]
      <4>1. \A k \in 2 .. c - 1 : k \in 1 .. c - 1
          BY <1>8
      <4> QED BY <3>3, <4>1
    <3>7. RepeatsEnd(u, pieces)
        BY <3>2, <3>4, <3>5, <3>6 DEF RepeatsEnd, n
    <3> QED BY <3>1, <3>7 DEF o
  <2> QED BY <2>6, <2>7
<1>14. c = 0 \/ c > 0
    BY <1>8
<1> QED BY <1>12, <1>13, <1>14

-----------------------------------------------------------------------------
(* The inductive invariant of the indexing.                                 *)
IndexTypes ==
    /\ source \in Sources /\ stage \in Stages
    /\ paragraphs \in Seq(Fragments) /\ done \in Nat
    /\ fragments \in Seq(Fragments) /\ origin \in Seq(Origins)
    /\ Len(origin) = Len(fragments) /\ next \in 0 .. Len(fragments)
    /\ current \in Drafts /\ chunks \in Seq(Drafts)

StagesInOrder ==
    /\ stage = "extract" => paragraphs = <<>> /\ done = 0 /\ fragments = <<>> /\ origin = <<>>
    /\ stage \in {"extract", "split"} => next = 0 /\ chunks = <<>> /\ current = NoChunk

(* The fragment f is the part o of its paragraph; the parts are in the order *)
(* of the text; and what comes before token d of paragraph n, and itself, is *)
(* in one of them or is white space.                                         *)
Part(all, o, f) ==
    LET p == all[o.paragraph]
    IN  /\ o.paragraph \in 1 .. Len(all)
        /\ 1 <= o.first /\ o.first <= o.last /\ o.last <= Tokens(p.text) /\ o.last < o.first + Target
        /\ f = [text |-> Slice(p.text, o.first, o.last), page |-> p.page]
        /\ Tokens(p.text) <= Target => o.first = 1 /\ o.last = Tokens(p.text)
Before(o, q)   == o.paragraph < q.paragraph \/ (o.paragraph = q.paragraph /\ o.last < q.first)
Behind(o, n, d) == o.paragraph < n \/ (o.paragraph = n /\ o.last <= d)
Held(all, os, m, k) ==
    \/ \E a \in 1 .. Len(os) : os[a].paragraph = m /\ k \in os[a].first .. os[a].last
    \/ \E i \in 1 .. k, j \in k .. Tokens(all[m].text) : Slice(all[m].text, i, j) = Blank

PartsHold(all, n, d, fs, os) ==
    /\ Len(os) = Len(fs)
    /\ \A a \in 1 .. Len(os) : Part(all, os[a], fs[a]) /\ Behind(os[a], n, d)
    /\ \A a, b \in 1 .. Len(os) : a < b => Before(os[a], os[b])
    /\ \A m \in 1 .. Len(all) : \A k \in 1 .. Tokens(all[m].text) :
          (m < n \/ (m = n /\ k <= d)) => Held(all, os, m, k)

TextHolds(all, ps, d, fs, os) ==
    /\ Len(ps) <= Len(all) /\ \A i \in 1 .. Len(ps) : ps[i] = all[Len(all) - Len(ps) + i]
    /\ ps = <<>> => d = 0
    /\ ps # <<>> => d < Tokens(ps[1].text) /\ (d = 0 \/ Tokens(ps[1].text) > Target)
    /\ PartsHold(all, Len(all) - Len(ps) + 1, d, fs, os)

TextInv ==
    stage \in {"split", "chunk", "embed"} =>
        TextHolds(Paragraphs(source), paragraphs, done, fragments, origin)

(* Only the pieces of a PDF have a page; pages grow through a list.          *)
Paged(s, f)  == f.page = NoPage <=> s.kind # "pdf"
Paging(s, l) ==
    /\ \A i \in 1 .. Len(l) : Paged(s, l[i])
    /\ \A i, j \in 1 .. Len(l) : i <= j => l[i].page <= l[j].page

(* A draft within its size if it has several pieces, none of whose pages is after a fragment to come. *)
Whole(d, s, fs, n) ==
    /\ d = NoChunk \/ d.lead < Len(d.pieces)
    /\ Len(d.pieces) > 1 => TokenCount(d.pieces) <= Maximum
    /\ \A k \in 1 .. Len(d.pieces) :
          /\ Paged(s, d.pieces[k])
          /\ \A m \in n + 1 .. Len(fs) : d.pieces[k].page <= fs[m].page

(* c begins with the end of b, and has no page before those of b. *)
Follows(b, c) ==
    /\ c.lead > 0 => Repeats(b, c)
    /\ \A k \in 1 .. Len(c.pieces) : \E m \in 1 .. Len(b.pieces) : b.pieces[m].page <= c.pieces[k].page

Last(cs) == cs[Len(cs)]
Chained(cs, d) ==
    /\ \A i \in 2 .. Len(cs) : Follows(cs[i - 1], cs[i])
    /\ cs # <<>> => cs[1].lead = 0
    /\ cs = <<>> => d.lead = 0
    /\ cs # <<>> => Follows(Last(cs), d)

(* The new pieces of d are the fragments after a, up to b. *)
Holds(d, fs, a, b) ==
    /\ d.lead <= Len(d.pieces) /\ Len(d.pieces) - d.lead = b - a
    /\ \A k \in 1 .. b - a : d.pieces[d.lead + k] = fs[a + k]
Starts(cs, fs, n, start) ==
    /\ start \in [0 .. Len(cs) -> 0 .. n] /\ start[0] = 0
    /\ \A i \in 1 .. Len(cs) : start[i - 1] <= start[i] /\ Holds(cs[i], fs, start[i - 1], start[i])
Covered(cs, d, fs, n) == \E start : Starts(cs, fs, n, start) /\ Holds(d, fs, start[Len(cs)], n)

ChunksHold ==
    /\ \A i \in 1 .. Len(chunks) : chunks[i] # NoChunk /\ Whole(chunks[i], source, fragments, next)
    /\ Whole(current, source, fragments, next)
    /\ Chained(chunks, current)
    /\ Covered(chunks, current, fragments, next)

IndexInv == IndexTypes /\ StagesInOrder /\ TextInv /\ ChunksHold

-----------------------------------------------------------------------------
(* Drafts. *)
LEMMA NoChunkHolds ==
    /\ NoChunk \in Drafts /\ NoChunk.lead = 0 /\ NoChunk.pieces = <<>> /\ Len(NoChunk.pieces) = 0
    /\ \A s, fs, n : Whole(NoChunk, s, fs, n)
    /\ \A b : Follows(b, NoChunk)
    /\ \A fs, n : n \in Nat => Holds(NoChunk, fs, n, n)
<1>1. NoChunk \in Drafts /\ NoChunk.lead = 0 /\ NoChunk.pieces = <<>> /\ Len(NoChunk.pieces) = 0
    BY DEF NoChunk, Drafts
<1>3. \A s, fs, n : Whole(NoChunk, s, fs, n)
    BY <1>1 DEF Whole
<1>4. \A b : Follows(b, NoChunk)
    BY <1>1 DEF Follows
<1>5. \A fs, n : n \in Nat => Holds(NoChunk, fs, n, n)
    BY <1>1 DEF Holds
<1> QED BY <1>1, <1>3, <1>4, <1>5

(* A fragment is added to a draft that has room for it. *)
LEMMA DraftGrows ==
    ASSUME NEW d \in Drafts, NEW f \in Fragments
    PROVE  LET e == [d EXCEPT !.pieces = Append(@, f)]
           IN  /\ e \in Drafts /\ e.lead = d.lead /\ e.pieces = Append(d.pieces, f)
               /\ Len(e.pieces) = Len(d.pieces) + 1
               /\ e.pieces[Len(d.pieces) + 1] = f /\ e # NoChunk
               /\ \A k \in 1 .. Len(d.pieces) : e.pieces[k] = d.pieces[k]
<1> DEFINE e == [d EXCEPT !.pieces = Append(@, f)]
<1>1. d.pieces \in Seq(Fragments) /\ d.lead \in Nat
    BY DEF Drafts
<1>2. e.pieces = Append(d.pieces, f) /\ e.lead = d.lead /\ e \in Drafts
    BY <1>1 DEF Drafts
<1>3. /\ Len(e.pieces) = Len(d.pieces) + 1 /\ e.pieces[Len(d.pieces) + 1] = f
      /\ \A k \in 1 .. Len(d.pieces) : e.pieces[k] = d.pieces[k]
    BY <1>1, <1>2, AppendProperties
<1>4. e # NoChunk
    BY <1>1, <1>2 DEF NoChunk
<1> QED BY <1>2, <1>3, <1>4

LEMMA GrowingHolds ==
    ASSUME NEW d \in Drafts, NEW fs \in Seq(Fragments), NEW n \in 0 .. Len(fs) - 1,
           NEW a \in 0 .. n, Holds(d, fs, a, n)
    PROVE  Holds([d EXCEPT !.pieces = Append(@, fs[n + 1])], fs, a, n + 1)
<1> DEFINE e == [d EXCEPT !.pieces = Append(@, fs[n + 1])]
           l == Len(d.pieces)
<1>1. /\ e.lead = d.lead /\ Len(e.pieces) = l + 1 /\ e.pieces[l + 1] = fs[n + 1]
      /\ \A k \in 1 .. l : e.pieces[k] = d.pieces[k]
    BY DraftGrows
<1>2. l \in Nat /\ d.lead \in Nat /\ d.lead <= l /\ l - d.lead = n - a
    BY DEF Holds, Drafts
<1> HIDE DEF e, l
<1>3. ASSUME NEW k \in 1 .. n + 1 - a PROVE e.pieces[e.lead + k] = fs[a + k]
  <2>1. CASE k = n + 1 - a
    <3>1. d.lead + k = l + 1 /\ a + k = n + 1
        BY <1>2, <2>1
    <3> QED BY <1>1, <3>1
  <2>2. CASE k # n + 1 - a
    <3>1. k \in 1 .. n - a /\ d.lead + k \in 1 .. l
        BY <1>2, <2>2
    <3>2. d.pieces[d.lead + k] = fs[a + k]
        BY <3>1 DEF Holds
    <3> QED BY <1>1, <3>1, <3>2
  <2> QED BY <2>1, <2>2
<1>4. e.lead <= Len(e.pieces) /\ Len(e.pieces) - e.lead = n + 1 - a
    BY <1>1, <1>2
<1>5. Holds(e, fs, a, n + 1)
    BY <1>3, <1>4 DEF Holds
<1> QED BY <1>5 DEF e

LEMMA GrowingFollows ==
    ASSUME NEW b \in Drafts, NEW d \in Drafts, NEW f \in Fragments, Follows(b, d),
           d.lead <= Len(d.pieces),
           \E m \in 1 .. Len(b.pieces) : b.pieces[m].page <= f.page
    PROVE  Follows(b, [d EXCEPT !.pieces = Append(@, f)])
<1> DEFINE e == [d EXCEPT !.pieces = Append(@, f)]
           l == Len(d.pieces)
<1>1. /\ e.lead = d.lead /\ Len(e.pieces) = l + 1 /\ e.pieces[l + 1] = f
      /\ e.pieces = Append(d.pieces, f)
      /\ \A k \in 1 .. l : e.pieces[k] = d.pieces[k]
    BY DraftGrows
<1>2. l \in Nat /\ d.lead \in Nat /\ d.pieces \in Seq(Fragments)
    BY DEF Drafts
<1> HIDE DEF e
<1>3. /\ SubSeq(e.pieces, 1, e.lead) = SubSeq(d.pieces, 1, d.lead)
      /\ SubSeq(e.pieces, 2, e.lead) = SubSeq(d.pieces, 2, d.lead)
  <2> PICK s \in Seq(Fragments), k \in Nat : s = d.pieces /\ k = d.lead
      BY <1>2
  <2>1. Len(s) = l /\ k <= l
      BY <1>2 DEF l
  <2>2. \A i \in 1 .. k : Append(s, f)[i] = s[i]
      BY <2>1
  <2>3. Append(s, f) \in Seq(Fragments) /\ Len(Append(s, f)) = l + 1 /\ l \in Nat
      BY <1>2, <2>1
  <2>4. SubSeq(Append(s, f), 1, k) = SubSeq(s, 1, k)
      BY <2>1, <2>2, <2>3
  <2>5. SubSeq(Append(s, f), 2, k) = SubSeq(s, 2, k)
      BY <2>1, <2>2, <2>3
  <2> QED BY <1>1, <2>4, <2>5
<1> HIDE DEF l
<1>4. d.lead > 0 => Repeats(b, e)
    BY <1>1, <1>3 DEF Follows, Repeats
<1>5. ASSUME NEW k \in 1 .. l + 1
      PROVE  \E m \in 1 .. Len(b.pieces) : b.pieces[m].page <= e.pieces[k].page
  <2>1. k = l + 1 \/ k \in 1 .. l
      BY <1>2
  <2>2. k = l + 1 => e.pieces[k] = f
      BY <1>1
  <2>3. k \in 1 .. l => \E m \in 1 .. Len(b.pieces) : b.pieces[m].page <= e.pieces[k].page
      BY <1>1 DEF Follows, l
  <2> QED BY <2>1, <2>2, <2>3
<1> QED BY <1>1, <1>4, <1>5 DEF Follows, e

LEMMA RepeatsTheEnd ==
    ASSUME NEW b, NEW d, NEW o, b.pieces \in Seq(Fragments), RepeatsEnd(o, b.pieces),
           d.pieces \in Seq(Fragments), d.lead = Len(o), d.lead > 0, d.lead <= Len(d.pieces),
           SubSeq(d.pieces, 1, d.lead) = o, \A k \in 1 .. Len(o) : d.pieces[k] = o[k]
    PROVE  Repeats(b, d)
<1> DEFINE l == Len(o)
           rest == SubSeq(d.pieces, 2, d.lead)
           n == Len(b.pieces) - l
<1>1. /\ o \in Seq(Fragments) /\ l <= Len(b.pieces) /\ l \in Nat \ {0} /\ Len(b.pieces) \in Nat
      /\ \A k \in 1 .. l : o[k].page = b.pieces[n + k].page
      /\ \A k \in 2 .. l : o[k] = b.pieces[n + k]
  <2>1. o \in Seq(Fragments)
      BY DEF RepeatsEnd
  <2> QED BY <2>1 DEF RepeatsEnd
<1>2. rest \in Seq(Fragments) /\ Len(rest) = l - 1 /\ \A i \in 1 .. l - 1 : rest[i] = o[i + 1]
  <2>1. \A i \in 2 .. l : i \in 1 .. Len(d.pieces) /\ d.pieces[i] \in Fragments
    <3>1. \A i \in 1 .. Len(d.pieces) : d.pieces[i] \in Fragments
        OBVIOUS
    <3>2. \A i \in 2 .. l : i \in 1 .. Len(d.pieces)
        BY <1>1
    <3> QED BY <3>1, <3>2
  <2>2. /\ rest \in Seq(Fragments) /\ Len(rest) = IF 2 <= l THEN l - 2 + 1 ELSE 0
        /\ \A i \in 1 .. l - 2 + 1 : rest[i] = d.pieces[2 + i - 1]
    <3>1. rest = SubSeq(d.pieces, 2, l) /\ 2 \in Int /\ l \in Int
        BY <1>1
    <3> HIDE DEF rest, l
    <3> QED BY <2>1, <3>1, SubSeqProperties
  <2>5. l \in Nat \ {0}
      BY <1>1
  <2> HIDE DEF rest, l
  <2>3. Len(rest) = l - 1 /\ l - 2 + 1 = l - 1
      BY <2>2, <2>5
  <2>4. ASSUME NEW i \in 1 .. l - 1 PROVE rest[i] = o[i + 1]
    <3>1. 2 + i - 1 = i + 1 /\ i + 1 \in 1 .. l
        BY <2>5
    <3>2. rest[i] = d.pieces[i + 1]
        BY <2>2, <2>3, <3>1
    <3>3. d.pieces[i + 1] = o[i + 1]
        BY <3>1 DEF l
    <3> QED BY <3>2, <3>3
  <2> QED BY <2>2, <2>3, <2>4
<1> HIDE DEF rest
<1>3. IsEnd(rest, b.pieces, l - 1)
  <2>1. ASSUME NEW i \in 1 .. l - 1 PROVE rest[i] = b.pieces[Len(b.pieces) - (l - 1) + i]
    <3> DEFINE q == Len(b.pieces)
    <3>0. q \in Nat /\ l \in Nat \ {0} /\ n = q - l
        BY <1>1
    <3> HIDE DEF q, l, n
    <3>1. i + 1 \in 2 .. l /\ n + (i + 1) = q - (l - 1) + i
        BY <3>0
    <3>2. o[i + 1] = b.pieces[n + (i + 1)] /\ rest[i] = o[i + 1]
        BY <1>1, <1>2, <3>1
    <3> QED BY <3>1, <3>2 DEF q
  <2> QED BY <1>2, <2>1 DEF IsEnd
<1>4. PICK m \in 1 .. Size(b.pieces[n + 1]), r \in Nat :
          /\ o[1].text = LastText(b.pieces[n + 1], m)
          /\ \A t \in Seq(Fragments) : IsEnd(t, b.pieces, l - 1) => TextTokens(t) = r
          /\ \/ m + r = Overlap
             \/ /\ m + r < Overlap /\ m = Size(b.pieces[n + 1])
                /\ \/ n = 0
                   \/ LastText(b.pieces[n], Lesser(Size(b.pieces[n]), Overlap - (m + r))) = Blank
    BY DEF RepeatsEnd
<1>5. TextTokens(rest) = r
    BY <1>2, <1>3, <1>4
<1>6. n >= 0 /\ Len(b.pieces) - d.lead = n
    BY <1>1
<1> HIDE DEF n, l
<1>7. o[1].text = Slice(b.pieces[n + 1].text, Size(b.pieces[n + 1]) - m + 1, Size(b.pieces[n + 1]))
    BY <1>4 DEF LastText
<1>8. \/ m + r = Overlap
      \/ /\ m + r < Overlap /\ m = Size(b.pieces[n + 1])
         /\ \/ n = 0
            \/ LET s == Lesser(Size(b.pieces[n]), Overlap - (m + r))
               IN  Slice(b.pieces[n].text, Size(b.pieces[n]) - s + 1, Size(b.pieces[n])) = Blank
    BY <1>4 DEF LastText
<1>9. d.lead = l
    BY DEF l
<1> QED BY <1>1, <1>5, <1>6, <1>7, <1>8, <1>9 DEF Repeats, rest

(* The draft that is begun with fragment f after the draft c. *)
LEMMA BeginsAfter ==
    ASSUME NEW c \in Drafts, NEW f \in Fragments
    PROVE  LET d == After(c, f)
           IN  /\ d \in Drafts /\ d.lead + 1 = Len(d.pieces) /\ d.pieces[d.lead + 1] = f
               /\ d # NoChunk /\ (Len(d.pieces) > 1 => TokenCount(d.pieces) <= Maximum)
               /\ d.lead > 0 => Repeats(c, d)
               /\ \A k \in 1 .. d.lead : \E m \in 1 .. Len(c.pieces) : d.pieces[k].page = c.pieces[m].page
<1> DEFINE o == OverlapOf(c.pieces)
           d == After(c, f)
<1>1. RepeatsEnd(o, c.pieces)
  <2>1. c.pieces \in Seq(Fragments)
      BY DEF Drafts
  <2> QED BY <2>1, OverlapFacts
<1>2. c.pieces \in Seq(Fragments) /\ Len(c.pieces) \in Nat
    BY DEF Drafts
<1> HIDE DEF o
<1>5. /\ o \in Seq(Fragments) /\ Len(o) <= Len(c.pieces) /\ Len(o) \in Nat
      /\ \A k \in 1 .. Len(o) : o[k].page = c.pieces[Len(c.pieces) - Len(o) + k].page
  <2>1. o \in Seq(Fragments) /\ Len(o) <= Len(c.pieces)
        /\ \A k \in 1 .. Len(o) : o[k].page = c.pieces[Len(c.pieces) - Len(o) + k].page
      BY <1>1 DEF RepeatsEnd
  <2> QED BY <2>1
<1>3. CASE TokenCount(o \o <<f>>) > Maximum
  <2>1. d = [pieces |-> <<f>>, lead |-> 0]
      BY <1>3 DEF After, o
  <2>2. <<f>> \in Seq(Fragments) /\ Len(<<f>>) = 1
      OBVIOUS
  <2>4. d \in Drafts
      BY <2>1, <2>2 DEF Drafts
  <2>5. d.lead = 0 /\ d.pieces = <<f>>
      BY <2>1
  <2>6. NoChunk.pieces # <<f>>
      BY NoChunkHolds, <2>2
  <2>3. d \in Drafts /\ d.lead = 0 /\ d.pieces = <<f>> /\ d # NoChunk
    <3> HIDE DEF d
    <3> QED BY <2>4, <2>5, <2>6
  <2> HIDE DEF d
  <2> QED BY <2>2, <2>3 DEF d
<1>4. CASE ~(TokenCount(o \o <<f>>) > Maximum)
  <2> DEFINE p == o \o <<f>>
  <2>1. d = [pieces |-> p, lead |-> Len(o)]
      BY <1>4 DEF After, o
  <2>2. /\ p \in Seq(Fragments) /\ Len(p) = Len(o) + 1 /\ p[Len(o) + 1] = f
        /\ \A k \in 1 .. Len(o) : p[k] = o[k]
        /\ SubSeq(p, 1, Len(o)) = o
    <3>1. <<f>> \in Seq(Fragments) /\ Len(<<f>>) = 1 /\ <<f>>[1] = f
        OBVIOUS
    <3>2. /\ p \in Seq(Fragments) /\ Len(p) = Len(o) + 1
          /\ \A k \in 1 .. Len(o) + 1 : p[k] = IF k <= Len(o) THEN o[k] ELSE <<f>>[k - Len(o)]
        BY <1>5, <3>1, ConcatProperties
    <3> HIDE DEF p
    <3>3. p[Len(o) + 1] = f /\ \A k \in 1 .. Len(o) : p[k] = o[k]
      <4> DEFINE n == Len(o)
      <4>1. n \in Nat
          BY <1>5
      <4>2. /\ n + 1 \in 1 .. n + 1 /\ ~(n + 1 <= n) /\ n + 1 - n = 1
            /\ \A k \in 1 .. n : k \in 1 .. n + 1 /\ k <= n
        <5> HIDE DEF n
        <5> QED BY <4>1
      <4>3. p[n + 1] = <<f>>[1]
          BY <3>2, <4>2
      <4>4. \A k \in 1 .. n : p[k] = o[k]
          BY <3>2, <4>2
      <4> QED BY <3>1, <4>3, <4>4
    <3>4. SubSeq(p, 1, Len(o)) = o
      <4>1. /\ SubSeq(p, 1, Len(o)) \in Seq(Fragments) /\ Len(SubSeq(p, 1, Len(o))) = Len(o)
            /\ \A k \in 1 .. Len(o) : SubSeq(p, 1, Len(o))[k] = p[k]
          BY <1>5, <3>2
      <4> HIDE DEF p
      <4> QED BY <1>5, <3>3, <4>1, SeqEqual
    <3> QED BY <3>2, <3>3, <3>4
  <2> HIDE DEF p
  <2>3. TokenCount(p) <= Maximum
    <3>1. TokenCount(p) \in Nat /\ Maximum \in Nat
        BY <2>2, TokensAreCounted, ChunkingSettings
    <3> QED BY <1>4, <3>1 DEF p
  <2>4. d \in Drafts /\ d.lead = Len(o) /\ d.pieces = p
      BY <1>5, <2>1, <2>2 DEF Drafts
  <2>5. d # NoChunk
      BY <1>5, <2>2, <2>4 DEF NoChunk
  <2> HIDE DEF d
  <2>6. d.lead > 0 => Repeats(c, d)
    <3>1. SubSeq(d.pieces, 1, d.lead) = o /\ d.pieces \in Seq(Fragments)
          /\ \A k \in 1 .. Len(o) : d.pieces[k] = o[k]
        BY <2>2, <2>4
    <3>2. d.lead = Len(o) /\ d.lead <= Len(d.pieces)
        BY <1>5, <2>2, <2>4
    <3> QED BY <1>1, <1>2, <3>1, <3>2, RepeatsTheEnd
  <2>7. ASSUME NEW k \in 1 .. d.lead
        PROVE  \E m \in 1 .. Len(c.pieces) : d.pieces[k].page = c.pieces[m].page
    <3>1. Len(c.pieces) - Len(o) + k \in 1 .. Len(c.pieces)
        BY <1>2, <1>5, <2>4
    <3>2. d.pieces[k].page = c.pieces[Len(c.pieces) - Len(o) + k].page
        BY <1>5, <2>2, <2>4
    <3> QED BY <3>1, <3>2
  <2> QED BY <1>5, <2>2, <2>3, <2>4, <2>5, <2>6, <2>7 DEF d
<1> QED BY <1>3, <1>4

LEMMA BeginningFollows ==
    ASSUME NEW c \in Drafts, NEW f \in Fragments, c.pieces # <<>>,
           \A m \in 1 .. Len(c.pieces) : c.pieces[m].page <= f.page
    PROVE  Follows(c, After(c, f))
<1> DEFINE d == After(c, f)
<1>1. /\ d \in Drafts /\ d.lead + 1 = Len(d.pieces) /\ d.pieces[d.lead + 1] = f
      /\ d.lead > 0 => Repeats(c, d)
      /\ \A k \in 1 .. d.lead : \E m \in 1 .. Len(c.pieces) : d.pieces[k].page = c.pieces[m].page
    BY BeginsAfter
<1> HIDE DEF d
<1>2. Len(c.pieces) \in Nat \ {0} /\ d.lead \in Nat
      /\ \A m \in 1 .. Len(c.pieces) : c.pieces[m].page \in Nat
  <2>1. c.pieces \in Seq(Fragments) /\ d.lead \in Nat
      BY <1>1 DEF Drafts
  <2>2. \A m \in 1 .. Len(c.pieces) : c.pieces[m] \in Fragments
      BY <2>1
  <2>3. Len(c.pieces) \in Nat \ {0}
      BY <2>1
  <2> QED BY <2>1, <2>2, <2>3 DEF Fragments
<1>3. ASSUME NEW k \in 1 .. Len(d.pieces)
      PROVE  \E m \in 1 .. Len(c.pieces) : c.pieces[m].page <= d.pieces[k].page
  <2>1. CASE k = d.lead + 1
    <3>1. 1 \in 1 .. Len(c.pieces)
        BY <1>2
    <3> QED BY <1>1, <2>1, <3>1
  <2>2. CASE k # d.lead + 1
    <3>1. k \in 1 .. d.lead
        BY <1>1, <1>2, <2>2
    <3>2. PICK m \in 1 .. Len(c.pieces) : d.pieces[k].page = c.pieces[m].page
        BY <1>1, <3>1
    <3> QED BY <1>2, <3>2
  <2> QED BY <2>1, <2>2
<1> QED BY <1>1, <1>3 DEF Follows, d

LEMMA BeginningHolds ==
    ASSUME NEW c \in Drafts, NEW fs \in Seq(Fragments), NEW n \in 0 .. Len(fs) - 1
    PROVE  Holds(After(c, fs[n + 1]), fs, n, n + 1)
<1> DEFINE f == fs[n + 1]
           d == After(c, f)
<1>1. f \in Fragments
    OBVIOUS
<1> HIDE DEF f
<1>2. d.lead + 1 = Len(d.pieces) /\ d.pieces[d.lead + 1] = f /\ d \in Drafts
    BY <1>1, BeginsAfter
<1> HIDE DEF d
<1>3. d.lead \in Nat
    BY <1>2 DEF Drafts
<1>4. \A k \in 1 .. (n + 1) - n : k = 1
    OBVIOUS
<1>5. (n + 1) - n = 1 /\ d.lead <= Len(d.pieces) /\ Len(d.pieces) - d.lead = 1
    BY <1>2, <1>3
<1>6. \A k \in 1 .. (n + 1) - n : d.pieces[d.lead + k] = fs[n + k]
  <2> TAKE k \in 1 .. (n + 1) - n
  <2>1. k = 1
      BY <1>4
  <2>2. d.pieces[d.lead + 1] = fs[n + 1]
      BY <1>2 DEF f
  <2> QED BY ONLY <2>1, <2>2
<1>7. Len(d.pieces) - d.lead = (n + 1) - n
    BY ONLY <1>5
<1>8. Holds(d, fs, n, n + 1)
    BY ONLY <1>5, <1>6, <1>7 DEF Holds
<1> QED BY <1>8 DEF d, f

(* A chunk is closed: another draft begins after it. *)
LEMMA ClosingChains ==
    ASSUME NEW cs \in Seq(Drafts), NEW c \in Drafts, NEW d, Chained(cs, c), Follows(c, d)
    PROVE  Chained(Append(cs, c), d)
<1> DEFINE t == Append(cs, c)
<1>1. /\ t \in Seq(Drafts) /\ Len(t) = Len(cs) + 1 /\ Len(cs) \in Nat /\ t # <<>>
      /\ t[Len(cs) + 1] = c /\ \A i \in 1 .. Len(cs) : t[i] = cs[i]
    BY AppendProperties
<1>2. cs = <<>> <=> Len(cs) = 0
    OBVIOUS
<1> HIDE DEF t
<1>3. ASSUME NEW i \in 2 .. Len(t) PROVE Follows(t[i - 1], t[i])
  <2>1. CASE i = Len(t)
    <3>1. i - 1 = Len(cs) /\ i = Len(cs) + 1 /\ Len(cs) \in 1 .. Len(cs)
        BY <1>1, <2>1
    <3>2. t[i - 1] = Last(cs) /\ t[i] = c
        BY <1>1, <3>1 DEF Last
    <3>3. cs # <<>>
        BY <1>2, <3>1
    <3> QED BY <3>2, <3>3 DEF Chained
  <2>2. CASE i # Len(t)
    <3>1. i \in 2 .. Len(cs) /\ i \in 1 .. Len(cs) /\ i - 1 \in 1 .. Len(cs)
        BY <1>1, <2>2
    <3> QED BY <1>1, <3>1 DEF Chained
  <2> QED BY <2>1, <2>2
<1>4. t[1].lead = 0
  <2>1. CASE cs = <<>>
      BY <1>1, <1>2, <2>1 DEF Chained
  <2>2. CASE cs # <<>>
    <3>1. 1 \in 1 .. Len(cs)
        BY <1>1, <1>2, <2>2
    <3> QED BY <1>1, <2>2, <3>1 DEF Chained
  <2> QED BY <2>1, <2>2
<1>5. Last(t) = c
    BY <1>1 DEF Last
<1> QED BY <1>1, <1>3, <1>4, <1>5 DEF Chained, t

LEMMA ClosingCovers ==
    ASSUME NEW cs \in Seq(Drafts), NEW c, NEW fs, NEW n \in Nat, NEW b, b \in Nat, n <= b, NEW d,
           Covered(cs, c, fs, n), Holds(d, fs, n, b)
    PROVE  Covered(Append(cs, c), d, fs, b)
<1> DEFINE t == Append(cs, c)
           l == Len(cs)
<1>1. Len(t) = l + 1 /\ l \in Nat /\ t[l + 1] = c /\ \A i \in 1 .. l : t[i] = cs[i]
    OBVIOUS
<1>2. PICK start : Starts(cs, fs, n, start) /\ Holds(c, fs, start[l], n)
    BY DEF Covered
<1>3. /\ start \in [0 .. l -> 0 .. n] /\ start[0] = 0
      /\ \A i \in 1 .. l : start[i - 1] <= start[i] /\ Holds(cs[i], fs, start[i - 1], start[i])
    BY <1>2 DEF Starts
<1> HIDE DEF t, l
<1> DEFINE place == [i \in 0 .. l + 1 |-> IF i <= l THEN start[i] ELSE n]
<1>4. place \in [0 .. l + 1 -> 0 .. b] /\ place[0] = 0 /\ place[l + 1] = n
      /\ \A i \in 0 .. l : place[i] = start[i]
  <2>1. \A i \in 0 .. l + 1 : (IF i <= l THEN start[i] ELSE n) \in 0 .. b
    <3>1. \A i \in 0 .. l : start[i] \in 0 .. b
        BY <1>1, <1>3
    <3> QED BY <1>1, <3>1
  <2> QED BY <1>1, <1>3, <2>1
<1> HIDE DEF place
<1>5. ASSUME NEW i \in 1 .. l + 1
      PROVE  place[i - 1] <= place[i] /\ Holds(t[i], fs, place[i - 1], place[i])
  <2>1. CASE i = l + 1
    <3>1. i - 1 = l /\ l \in 0 .. l
        BY <1>1, <2>1
    <3>2. place[i - 1] = start[l] /\ place[i] = n /\ start[l] \in 0 .. n /\ t[i] = c
        BY <1>1, <1>3, <1>4, <2>1, <3>1
    <3> QED BY <1>2, <3>2
  <2>2. CASE i # l + 1
    <3>1. i \in 1 .. l /\ i \in 0 .. l /\ i - 1 \in 0 .. l
        BY <1>1, <2>2
    <3>2. place[i - 1] = start[i - 1] /\ place[i] = start[i] /\ t[i] = cs[i]
        BY <1>1, <1>4, <3>1
    <3> QED BY <1>3, <3>1, <3>2
  <2> QED BY <2>1, <2>2
<1>6. Starts(t, fs, b, place) /\ place[Len(t)] = n
    BY <1>1, <1>4, <1>5 DEF Starts
<1> QED BY <1>6 DEF Covered, t
LEMMA NothingHolds ==
    /\ Chained(<<>>, NoChunk) /\ \A fs : Covered(<<>>, NoChunk, fs, 0)
<1>1. Len(<<>>) = 0
    OBVIOUS
<1>2. Chained(<<>>, NoChunk)
    BY <1>1, NoChunkHolds DEF Chained
<1>3. ASSUME NEW fs PROVE Covered(<<>>, NoChunk, fs, 0)
  <2> DEFINE start == [i \in 0 .. 0 |-> 0]
  <2>1. start \in [0 .. 0 -> 0 .. 0] /\ start[0] = 0
      OBVIOUS
  <2>2. Starts(<<>>, fs, 0, start)
      BY <1>1, <2>1 DEF Starts
  <2>3. Holds(NoChunk, fs, start[Len(<<>>)], 0)
      BY <1>1, <2>1, NoChunkHolds
  <2> QED BY <2>2, <2>3 DEF Covered
<1> QED BY <1>2, <1>3

(* A draft stays whole as the fragments to come become fewer, as one of     *)
(* them is added to it, and when it is begun with one of them.              *)
LEMMA WholeLater ==
    ASSUME NEW d, NEW s, NEW fs, NEW n \in Nat, Whole(d, s, fs, n)
    PROVE  Whole(d, s, fs, n + 1)
<1>1. \A m \in n + 1 + 1 .. Len(fs) : m \in n + 1 .. Len(fs)
  <2>1. ASSUME NEW m \in n + 1 + 1 .. Len(fs) PROVE m \in n + 1 .. Len(fs)
      OBVIOUS
  <2> QED BY <2>1
<1> QED BY <1>1 DEF Whole

LEMMA WholeGrows ==
    ASSUME NEW d \in Drafts, NEW s, NEW fs \in Seq(Fragments), NEW n \in 0 .. Len(fs) - 1,
           Whole(d, s, fs, n), Paging(s, fs),
           d = NoChunk \/ TokenCount(Append(d.pieces, fs[n + 1])) <= Target
    PROVE  Whole([d EXCEPT !.pieces = Append(@, fs[n + 1])], s, fs, n + 1)
<1> DEFINE f == fs[n + 1]
           e == [d EXCEPT !.pieces = Append(@, f)]
           l == Len(d.pieces)
<1>1. n + 1 \in 1 .. Len(fs) /\ f \in Fragments /\ Paged(s, f)
      /\ \A m \in n + 1 + 1 .. Len(fs) : f.page <= fs[m].page
    BY DEF Paging
<1>2. /\ e.lead = d.lead /\ e.pieces = Append(d.pieces, f) /\ Len(e.pieces) = l + 1
      /\ e.pieces[l + 1] = f /\ \A k \in 1 .. l : e.pieces[k] = d.pieces[k]
    BY <1>1, DraftGrows
<1>3. l \in Nat /\ d.lead \in Nat /\ d.pieces \in Seq(Fragments)
    BY DEF Drafts
<1>4. e.lead < Len(e.pieces)
  <2>1. d.lead <= l
      BY <1>3, NoChunkHolds DEF Whole
  <2> HIDE DEF e, l
  <2> QED BY <1>2, <1>3, <2>1
<1>5. Len(e.pieces) > 1 => TokenCount(e.pieces) <= Maximum
  <2>1. CASE d = NoChunk
    <3>1. Len(e.pieces) = 1
        BY <1>2, <2>1, NoChunkHolds
    <3> QED BY <3>1
  <2>2. CASE TokenCount(Append(d.pieces, f)) <= Target
    <3>1. Append(d.pieces, f) \in Seq(Fragments)
        BY <1>1, <1>3
    <3>2. TokenCount(Append(d.pieces, f)) \in Nat
        BY <3>1, TokensAreCounted
    <3> QED BY <1>2, <2>2, <3>2, ChunkingSettings
  <2> QED BY <2>1, <2>2
<1>6. \A m \in n + 1 + 1 .. Len(fs) : m \in n + 1 .. Len(fs)
    OBVIOUS
<1> HIDE DEF e, f, l
<1>7. ASSUME NEW k \in 1 .. Len(e.pieces)
      PROVE  /\ Paged(s, e.pieces[k])
             /\ \A m \in n + 1 + 1 .. Len(fs) : e.pieces[k].page <= fs[m].page
  <2>1. CASE k = l + 1
      BY <1>1, <1>2, <2>1
  <2>2. CASE k # l + 1
    <3>1. k \in 1 .. l
        BY <1>2, <1>3, <2>2
    <3> QED BY <1>2, <1>6, <3>1 DEF Whole, l
  <2> QED BY <2>1, <2>2
<1>8. Whole(e, s, fs, n + 1)
    BY <1>4, <1>5, <1>7 DEF Whole
<1> QED BY <1>8 DEF e, f

LEMMA WholeBegins ==
    ASSUME NEW d \in Drafts, NEW s, NEW fs \in Seq(Fragments), NEW n \in 0 .. Len(fs) - 1,
           Whole(d, s, fs, n), Paging(s, fs)
    PROVE  Whole(After(d, fs[n + 1]), s, fs, n + 1)
<1> DEFINE f == fs[n + 1]
           e == After(d, f)
<1>1. n + 1 \in 1 .. Len(fs) /\ f \in Fragments /\ Paged(s, f)
      /\ \A m \in n + 1 + 1 .. Len(fs) : f.page <= fs[m].page
    BY DEF Paging
<1>2. /\ e \in Drafts /\ e.lead + 1 = Len(e.pieces) /\ e.pieces[e.lead + 1] = f
      /\ Len(e.pieces) > 1 => TokenCount(e.pieces) <= Maximum
      /\ \A k \in 1 .. e.lead : \E m \in 1 .. Len(d.pieces) : e.pieces[k].page = d.pieces[m].page
    BY <1>1, BeginsAfter
<1>3. \A m \in n + 1 + 1 .. Len(fs) : m \in n + 1 .. Len(fs)
    OBVIOUS
<1> HIDE DEF e, f
<1>4. e.lead \in Nat
    BY <1>2 DEF Drafts
<1>5. ASSUME NEW k \in 1 .. Len(e.pieces)
      PROVE  /\ Paged(s, e.pieces[k])
             /\ \A m \in n + 1 + 1 .. Len(fs) : e.pieces[k].page <= fs[m].page
  <2>1. CASE k = e.lead + 1
      BY <1>1, <1>2, <2>1
  <2>2. CASE k # e.lead + 1
    <3>1. k \in 1 .. e.lead
        BY <1>2, <1>4, <2>2
    <3>2. PICK i \in 1 .. Len(d.pieces) : e.pieces[k].page = d.pieces[i].page
        BY <1>2, <3>1
    <3> QED BY <1>3, <3>2 DEF Whole, Paged
  <2> QED BY <2>1, <2>2
<1>6. e.lead < Len(e.pieces)
    BY <1>2, <1>4
<1>7. Whole(e, s, fs, n + 1)
    BY <1>2, <1>5, <1>6 DEF Whole
<1> QED BY <1>7 DEF e, f

(* The text is cut from token d of paragraph n to the token last. *)
LEMMA CutHolds ==
    ASSUME NEW all \in Seq(Fragments), NEW n \in 1 .. Len(all), NEW d \in Nat,
           NEW fs \in Seq(Fragments), NEW os \in Seq(Origins), PartsHold(all, n, d, fs, os),
           NEW p, p = all[n], NEW last, last = Lesser(d + Target, Tokens(p.text)),
           d < Tokens(p.text), d = 0 \/ Tokens(p.text) > Target,
           NEW text, text = Slice(p.text, d + 1, last),
           NEW f, f = [text |-> text, page |-> p.page],
           NEW o, o = [paragraph |-> n, first |-> d + 1, last |-> last]
    PROVE  /\ last \in d + 1 .. Tokens(p.text) /\ o \in Origins
           /\ text # Blank =>
                 f \in Fragments /\ PartsHold(all, n, last, Append(fs, f), Append(os, o))
           /\ text = Blank => PartsHold(all, n, last, fs, os)
<1>0. Target \in Nat \ {0} /\ n \in Nat
    BY ChunkingSettings
<1>1. p \in Fragments /\ p.text \in Texts /\ p.page \in Nat /\ Tokens(p.text) \in Nat
  <2>1. p \in Fragments
      OBVIOUS
  <2> QED BY <2>1, Encoding DEF Fragments
<1>2. last \in d + 1 .. Tokens(p.text) /\ last \in Nat /\ last < d + 1 + Target
      /\ (Tokens(p.text) <= Target => d = 0 /\ last = Tokens(p.text))
  <2> DEFINE t == Tokens(p.text)
  <2>1. t \in Nat /\ last = Lesser(d + Target, t) /\ d < t /\ (d = 0 \/ t > Target)
      BY <1>1
  <2> HIDE DEF t
  <2>2. last \in d + 1 .. t /\ last \in Nat /\ last < d + 1 + Target /\ (t <= Target => d = 0 /\ last = t)
      BY <1>0, <2>1 DEF Lesser
  <2> QED BY <2>2 DEF t
<1>3. o \in Origins /\ o.paragraph = n /\ o.first = d + 1 /\ o.last = last
    BY <1>0, <1>2 DEF Origins
<1>4. text \in Texts
  <2>1. d + 1 \in 1 .. Tokens(p.text) /\ last \in 1 .. Tokens(p.text)
      BY <1>1, <1>2
  <2> QED BY <1>1, <2>1, Encoding
<1>5. /\ Len(os) = Len(fs) /\ Len(os) \in Nat
      /\ \A a \in 1 .. Len(os) : Part(all, os[a], fs[a]) /\ Behind(os[a], n, d) /\ os[a] \in Origins
      /\ \A a, b \in 1 .. Len(os) : a < b => Before(os[a], os[b])
      /\ \A m \in 1 .. Len(all) : \A k \in 1 .. Tokens(all[m].text) :
            (m < n \/ (m = n /\ k <= d)) => Held(all, os, m, k)
  <2>1. \A a \in 1 .. Len(os) : os[a] \in Origins
      OBVIOUS
  <2> QED BY <2>1 DEF PartsHold
<1>6. \A a \in 1 .. Len(os) : Behind(os[a], n, last) /\ Before(os[a], o)
  <2> SUFFICES ASSUME NEW a \in 1 .. Len(os) PROVE Behind(os[a], n, last) /\ Before(os[a], o)
      OBVIOUS
  <2>1. os[a].paragraph \in Nat /\ os[a].last \in Nat
      BY <1>5 DEF Origins
  <2>2. os[a].paragraph < n \/ (os[a].paragraph = n /\ os[a].last <= d)
      BY <1>5 DEF Behind
  <2> QED BY <1>2, <1>3, <2>1, <2>2 DEF Behind, Before
<1>7. Part(all, o, f) /\ Behind(o, n, last)
  <2>1. Behind(o, n, last)
      BY <1>2, <1>3 DEF Behind
  <2>2. 1 <= d + 1 /\ d + 1 <= last /\ last <= Tokens(p.text) /\ (d = 0 => d + 1 = 1)
      BY <1>1, <1>2
  <2> QED BY <1>2, <1>3, <2>1, <2>2 DEF Part
<1>8. CASE text = Blank
  <2>1. ASSUME NEW m \in 1 .. Len(all), NEW k \in 1 .. Tokens(all[m].text),
               m < n \/ (m = n /\ k <= last)
        PROVE  Held(all, os, m, k)
    <3>1. CASE m < n \/ (m = n /\ k <= d)
        BY <1>5, <3>1
    <3>2. CASE m = n /\ k > d
      <4>1. d + 1 \in 1 .. k /\ last \in k .. Tokens(p.text)
          BY <1>0, <1>1, <1>2, <2>1, <3>2
      <4> QED BY <1>8, <3>2, <4>1 DEF Held
    <3>3. k \in Nat
        OBVIOUS
    <3> QED BY <2>1, <3>1, <3>2, <3>3
  <2>2. PartsHold(all, n, last, fs, os)
      BY <1>5, <1>6, <2>1 DEF PartsHold
  <2> QED BY <1>2, <1>3, <1>8, <2>2
<1>9. CASE text # Blank
  <2> DEFINE gs == Append(fs, f)
             qs == Append(os, o)
             l  == Len(os)
  <2>1. f \in Fragments
      BY <1>1, <1>4, <1>9 DEF Fragments
  <2>2. /\ Len(gs) = l + 1 /\ gs[l + 1] = f /\ \A a \in 1 .. l : gs[a] = fs[a]
      BY <1>5
  <2>3. /\ Len(qs) = l + 1 /\ qs[l + 1] = o /\ \A a \in 1 .. l : qs[a] = os[a]
      BY <1>5
  <2>4. l \in Nat /\ \A a \in 1 .. l + 1 : a \in 1 .. l \/ a = l + 1
      BY <1>5
  <2> HIDE DEF gs, qs
  <2>5. \A a \in 1 .. l + 1 : Part(all, qs[a], gs[a]) /\ Behind(qs[a], n, last)
      BY <1>5, <1>6, <1>7, <2>2, <2>3, <2>4
  <2>6. ASSUME NEW a \in 1 .. l + 1, NEW b \in 1 .. l + 1, a < b PROVE Before(qs[a], qs[b])
    <3>1. a \in 1 .. l
        BY <2>4, <2>6
    <3> QED BY <1>5, <1>6, <2>3, <2>4, <2>6, <3>1
  <2>7. ASSUME NEW m \in 1 .. Len(all), NEW k \in 1 .. Tokens(all[m].text),
               m < n \/ (m = n /\ k <= last)
        PROVE  Held(all, qs, m, k)
    <3>1. CASE m < n \/ (m = n /\ k <= d)
      <4>1. Held(all, os, m, k)
          BY <1>5, <3>1
      <4>2. \A a \in 1 .. l : a \in 1 .. l + 1 /\ qs[a] = os[a]
          BY <2>3, <2>4
      <4> QED BY <2>3, <4>1, <4>2 DEF Held
    <3>2. CASE m = n /\ k > d
      <4>1. l + 1 \in 1 .. Len(qs) /\ qs[l + 1].paragraph = m
          BY <1>3, <2>3, <2>4, <3>2
      <4>2. k \in d + 1 .. last
          BY <1>2, <2>7, <3>2
      <4> QED BY <1>3, <2>3, <4>1, <4>2 DEF Held
    <3>3. k \in Nat
        OBVIOUS
    <3> QED BY <2>7, <3>1, <3>2, <3>3
  <2>8. PartsHold(all, n, last, gs, qs)
    <3>1. Len(qs) = Len(gs) /\ Len(qs) = l + 1
        BY <2>2, <2>3
    <3> HIDE DEF l
    <3> QED BY <2>5, <2>6, <2>7, <3>1 DEF PartsHold
  <2> QED BY <1>2, <1>3, <1>9, <2>1, <2>8 DEF gs, qs
<1> QED BY <1>8, <1>9

(* Paragraph n is split to its end. *)
LEMMA EndHolds ==
    ASSUME NEW all \in Seq(Fragments), NEW n \in 1 .. Len(all),
           NEW fs, NEW os \in Seq(Origins), PartsHold(all, n, Tokens(all[n].text), fs, os)
    PROVE  PartsHold(all, n + 1, 0, fs, os)
<1>1. ASSUME NEW a \in 1 .. Len(os) PROVE Behind(os[a], n + 1, 0)
  <2>1. os[a] \in Origins
      OBVIOUS
  <2>2. os[a].paragraph \in Nat /\ n \in Nat /\ Behind(os[a], n, Tokens(all[n].text))
      BY <2>1 DEF Origins, PartsHold
  <2> QED BY <2>2 DEF Behind
<1>2. ASSUME NEW m \in 1 .. Len(all), NEW k \in 1 .. Tokens(all[m].text),
             m < n + 1 \/ (m = n + 1 /\ k <= 0)
      PROVE  m < n \/ (m = n /\ k <= Tokens(all[n].text))
  <2>1. all[m] \in Fragments
      OBVIOUS
  <2>2. Tokens(all[m].text) \in Nat
      BY <2>1, Encoding DEF Fragments
  <2>3. m < n \/ m = n
      BY <1>2
  <2> QED BY <2>2, <2>3
<1>3. \A m \in 1 .. Len(all) : \A k \in 1 .. Tokens(all[m].text) :
          (m < n + 1 \/ (m = n + 1 /\ k <= 0)) => Held(all, os, m, k)
  <2> SUFFICES ASSUME NEW m \in 1 .. Len(all), NEW k \in 1 .. Tokens(all[m].text),
                      m < n + 1 \/ (m = n + 1 /\ k <= 0)
               PROVE  Held(all, os, m, k)
      OBVIOUS
  <2>1. m < n \/ (m = n /\ k <= Tokens(all[n].text))
      BY <1>2
  <2> QED BY <2>1 DEF PartsHold
<1> QED BY <1>1, <1>3 DEF PartsHold

(* The fragments have the pages of their paragraphs. *)
LEMMA FragmentsArePaged ==
    ASSUME NEW s \in Sources, NEW n, NEW d, NEW fs \in Seq(Fragments), NEW os \in Seq(Origins),
           PartsHold(Paragraphs(s), n, d, fs, os)
    PROVE  Paging(s, fs)
<1> DEFINE all == Paragraphs(s)
<1>1. /\ all \in Seq(Fragments)
      /\ \A i, j \in 1 .. Len(all) : i <= j => all[i].page <= all[j].page
      /\ \A i \in 1 .. Len(all) : all[i].page = NoPage <=> s.kind # "pdf"
    BY ParagraphsAreListed
<1> HIDE DEF all
<1>2. /\ Len(os) = Len(fs)
      /\ \A a \in 1 .. Len(fs) : os[a].paragraph \in 1 .. Len(all) /\ fs[a].page = all[os[a].paragraph].page
      /\ \A a, b \in 1 .. Len(fs) : a < b => Before(os[a], os[b])
  <2>1. /\ Len(os) = Len(fs) /\ \A a \in 1 .. Len(os) : Part(all, os[a], fs[a])
        /\ \A a, b \in 1 .. Len(os) : a < b => Before(os[a], os[b])
      BY DEF PartsHold, all
  <2>2. \A a \in 1 .. Len(os) :
            os[a].paragraph \in 1 .. Len(all) /\ fs[a].page = all[os[a].paragraph].page
    <3> SUFFICES ASSUME NEW a \in 1 .. Len(os)
                 PROVE  os[a].paragraph \in 1 .. Len(all) /\ fs[a].page = all[os[a].paragraph].page
        OBVIOUS
    <3> DEFINE o == os[a]
               f == fs[a]
    <3>1. Part(all, o, f)
        BY <2>1
    <3> HIDE DEF o, f
    <3>2. o.paragraph \in 1 .. Len(all) /\ f.page = all[o.paragraph].page
        BY <3>1 DEF Part
    <3> QED BY <3>2 DEF o, f
  <2> QED BY <2>1, <2>2
<1>3. \A i \in 1 .. Len(fs) : Paged(s, fs[i])
    BY <1>1, <1>2 DEF Paged
<1>4. ASSUME NEW i \in 1 .. Len(fs), NEW j \in 1 .. Len(fs), i <= j PROVE fs[i].page <= fs[j].page
  <2>1. i = j \/ Before(os[i], os[j])
      BY <1>2, <1>4
  <2>2. os[i].paragraph \in 1 .. Len(all) /\ os[j].paragraph \in 1 .. Len(all)
      BY <1>2
  <2>3. os[i].paragraph <= os[j].paragraph
      BY <2>1, <2>2 DEF Before
  <2> QED BY <1>1, <1>2, <2>2, <2>3
<1> QED BY <1>3, <1>4 DEF Paging

-----------------------------------------------------------------------------
(* The indexing keeps its invariant. *)
LEMMA IndexBegins == IndexingInit => IndexInv
<1> SUFFICES ASSUME IndexingInit PROVE IndexInv
    OBVIOUS
<1>1. IndexTypes
    BY NoChunkHolds DEF IndexingInit, IndexTypes, Stages
<1>2. StagesInOrder
    BY DEF IndexingInit, StagesInOrder
<1>3. TextInv
    BY DEF IndexingInit, TextInv
<1>4. ChunksHold
    BY NoChunkHolds, NothingHolds DEF IndexingInit, ChunksHold
<1> QED BY <1>1, <1>2, <1>3, <1>4 DEF IndexInv

LEMMA IndexStays == IndexInv /\ UNCHANGED indexing => IndexInv'
BY DEF indexing, IndexInv, IndexTypes, StagesInOrder, TextInv, ChunksHold

LEMMA ExtractKeeps == IndexInv /\ Extract => IndexInv'
<1> SUFFICES ASSUME IndexInv, Extract PROVE IndexInv'
    OBVIOUS
<1>1. /\ source \in Sources /\ fragments = <<>> /\ origin = <<>> /\ paragraphs = <<>> /\ done = 0
      /\ next = 0 /\ chunks = <<>> /\ current = NoChunk
    BY DEF IndexInv, IndexTypes, StagesInOrder, Extract
<1>2. /\ UNCHANGED <<source, done, fragments, origin, next, current, chunks>>
      /\ \/ stage' = "split" /\ paragraphs' = Paragraphs(source)
         \/ stage' = "failed" /\ paragraphs' = paragraphs
    BY DEF Extract
<1>3. Paragraphs(source) \in Seq(Fragments)
    BY <1>1, ParagraphsAreListed
<1>4. IndexTypes'
  <2>1. paragraphs' \in Seq(Fragments) /\ stage' \in Stages
      BY <1>2, <1>3 DEF IndexInv, IndexTypes, Stages
  <2> QED BY <1>2, <2>1 DEF IndexInv, IndexTypes
<1>5. StagesInOrder'
    BY <1>1, <1>2 DEF StagesInOrder
<1>6. TextInv'
  <2>1. CASE stage' = "failed"
      BY <2>1 DEF TextInv
  <2>2. CASE stage' = "split" /\ paragraphs' = Paragraphs(source)
    <3> DEFINE all == Paragraphs(source)
    <3>1. all \in Seq(Fragments)
        BY <1>3
    <3> HIDE DEF all
    <3>2. PartsHold(all, 1, 0, <<>>, <<>>)
      <4>1. Len(<<>>) = 0 /\ \A a \in 1 .. 0 : FALSE
          OBVIOUS
      <4>2. \A m \in 1 .. Len(all) : \A k \in 1 .. Tokens(all[m].text) : ~(m < 1 \/ (m = 1 /\ k <= 0))
          OBVIOUS
      <4> QED BY <4>1, <4>2 DEF PartsHold
    <3>3. all # <<>> => 0 < Tokens(all[1].text)
      <4> SUFFICES ASSUME all # <<>> PROVE 0 < Tokens(all[1].text)
          OBVIOUS
      <4>1. all[1] \in Fragments
          BY <3>1
      <4>2. Size(all[1]) \in Nat \ {0}
          BY <4>1, SizesAreNumbers
      <4> QED BY <4>2 DEF Size
    <3>4. /\ Len(all) - Len(all) + 1 = 1 /\ Len(all) <= Len(all)
          /\ \A i \in 1 .. Len(all) : Len(all) - Len(all) + i = i
        BY <3>1
    <3>5. TextHolds(all, all, 0, <<>>, <<>>)
        BY <3>2, <3>3, <3>4 DEF TextHolds
    <3> QED BY <1>1, <1>2, <2>2, <3>5 DEF TextInv, all
  <2> QED BY <1>2, <2>1, <2>2
<1>7. ChunksHold'
    BY <1>2 DEF IndexInv, ChunksHold
<1> QED BY <1>4, <1>5, <1>6, <1>7 DEF IndexInv

(* While the text is split there is no chunk yet. *)
LEMMA SplittingHolds ==
    IndexInv /\ stage = "split" /\ UNCHANGED <<source, next, current, chunks>>
        => next = 0 /\ chunks = <<>> /\ current = NoChunk /\ ChunksHold'
<1> SUFFICES ASSUME IndexInv, stage = "split", UNCHANGED <<source, next, current, chunks>>
             PROVE  next = 0 /\ chunks = <<>> /\ current = NoChunk /\ ChunksHold'
    OBVIOUS
<1>1. next = 0 /\ chunks = <<>> /\ current = NoChunk
    BY DEF IndexInv, StagesInOrder
<1>2. chunks' = <<>> /\ current' = NoChunk /\ next' = 0 /\ Len(<<>>) = 0
    BY <1>1
<1>3. \A i \in 1 .. Len(chunks') : FALSE
    BY <1>2
<1>4. Whole(current', source', fragments', next') /\ Chained(chunks', current')
      /\ Covered(chunks', current', fragments', next')
    BY <1>2, NoChunkHolds, NothingHolds
<1> QED BY <1>1, <1>3, <1>4 DEF ChunksHold

LEMMA CutKeeps == IndexInv /\ Cut => IndexInv'
<1> SUFFICES ASSUME IndexInv, Cut PROVE IndexInv'
    OBVIOUS
<1> DEFINE all  == Paragraphs(source)
           n    == Len(all) - Len(paragraphs) + 1
           p    == Head(paragraphs)
           last == Lesser(done + Target, Tokens(p.text))
           text == Slice(p.text, done + 1, last)
           f    == [text |-> text, page |-> p.page]
           o    == [paragraph |-> n, first |-> done + 1, last |-> last]
<1>1. /\ UNCHANGED <<source, stage, next, current, chunks>> /\ stage = "split" /\ paragraphs # <<>>
      /\ source \in Sources /\ paragraphs \in Seq(Fragments) /\ done \in Nat
      /\ fragments \in Seq(Fragments) /\ origin \in Seq(Origins)
    BY DEF Cut, IndexInv, IndexTypes
<1>2. next = 0 /\ chunks = <<>> /\ current = NoChunk /\ ChunksHold'
    BY <1>1, SplittingHolds
<1>3. /\ \/ text # Blank /\ fragments' = Append(fragments, f) /\ origin' = Append(origin, o)
         \/ text = Blank /\ fragments' = fragments /\ origin' = origin
      /\ \/ last = Tokens(p.text) /\ paragraphs' = Tail(paragraphs) /\ done' = 0
         \/ last # Tokens(p.text) /\ paragraphs' = paragraphs /\ done' = last
    BY DEF Cut, Kept, AtEnd, Number
<1>4. TextHolds(all, paragraphs, done, fragments, origin) /\ all \in Seq(Fragments)
    BY <1>1, ParagraphsAreListed DEF IndexInv, TextInv
<1>5. UNCHANGED source /\ all' = all
    BY <1>1
<1> HIDE DEF all
<1>6. /\ p = paragraphs[1] /\ Len(paragraphs) \in Nat \ {0} /\ Len(all) \in Nat
      /\ Len(paragraphs) <= Len(all) /\ p = all[Len(all) - Len(paragraphs) + 1]
      /\ done < Tokens(p.text) /\ (done = 0 \/ Tokens(p.text) > Target)
      /\ PartsHold(all, n, done, fragments, origin)
      /\ \A i \in 1 .. Len(paragraphs) : paragraphs[i] = all[Len(all) - Len(paragraphs) + i]
  <2>1. Head(paragraphs) = paragraphs[1] /\ Len(paragraphs) \in Nat \ {0}
      BY <1>1
  <2>2. Len(all) \in Nat /\ 1 \in 1 .. Len(paragraphs)
      BY <1>4, <2>1
  <2> QED BY <1>1, <1>4, <2>1, <2>2 DEF TextHolds
<1>7. n \in 1 .. Len(all) /\ p = all[n]
    BY <1>6
<1> HIDE DEF n, p
<1>8. /\ last \in done + 1 .. Tokens(p.text) /\ o \in Origins
      /\ text # Blank => f \in Fragments /\ PartsHold(all, n, last, Append(fragments, f), Append(origin, o))
      /\ text = Blank => PartsHold(all, n, last, fragments, origin)
    BY <1>1, <1>4, <1>6, <1>7, CutHolds
<1> HIDE DEF last, text, f, o
<1>9. /\ fragments' \in Seq(Fragments) /\ origin' \in Seq(Origins)
      /\ PartsHold(all, n, last, fragments', origin') /\ Len(origin') = Len(fragments')
  <2>1. PartsHold(all, n, last, fragments', origin')
      BY <1>3, <1>8
  <2>2. Len(origin') = Len(fragments')
      BY <2>1 DEF PartsHold
  <2>3. fragments' \in Seq(Fragments) /\ origin' \in Seq(Origins)
    <3>1. CASE text # Blank /\ fragments' = Append(fragments, f) /\ origin' = Append(origin, o)
        BY <1>1, <1>8, <3>1
    <3>2. CASE text = Blank /\ fragments' = fragments /\ origin' = origin
        BY <1>1, <3>2
    <3> QED BY <1>3, <3>1, <3>2
  <2> QED BY <2>1, <2>2, <2>3
<1>10. ASSUME last = Tokens(p.text), paragraphs' = Tail(paragraphs), done' = 0
      PROVE  paragraphs' \in Seq(Fragments) /\ done' \in Nat
             /\ TextHolds(all, paragraphs', done', fragments', origin')
  <2>1. /\ paragraphs' \in Seq(Fragments) /\ Len(paragraphs') = Len(paragraphs) - 1
        /\ \A i \in 1 .. Len(paragraphs') : paragraphs'[i] = paragraphs[i + 1]
      BY <1>1, <1>10, HeadTailProperties
  <2>2. PartsHold(all, n + 1, 0, fragments', origin')
      BY <1>4, <1>7, <1>9, <1>10, EndHolds
  <2>3. Len(paragraphs') <= Len(all) /\ Len(all) - Len(paragraphs') + 1 = n + 1
      BY <1>6, <2>1 DEF n
  <2>4. ASSUME NEW i \in 1 .. Len(paragraphs')
        PROVE  paragraphs'[i] = all[Len(all) - Len(paragraphs') + i]
    <3>1. i + 1 \in 1 .. Len(paragraphs) /\ Len(all) - Len(paragraphs) + (i + 1) = Len(all) - Len(paragraphs') + i
        BY <1>6, <2>1
    <3> QED BY <1>6, <2>1, <3>1
  <2>5. paragraphs' # <<>> => 0 < Tokens(paragraphs'[1].text)
    <3> SUFFICES ASSUME paragraphs' # <<>> PROVE 0 < Tokens(paragraphs'[1].text)
        OBVIOUS
    <3>1. paragraphs'[1] \in Fragments
        BY <2>1
    <3>2. Size(paragraphs'[1]) \in Nat \ {0}
        BY <3>1, SizesAreNumbers
    <3> QED BY <3>2 DEF Size
  <2>6. TextHolds(all, paragraphs', 0, fragments', origin')
      BY <2>2, <2>3, <2>4, <2>5 DEF TextHolds
  <2> QED BY <1>10, <2>1, <2>6
<1>11. ASSUME last # Tokens(p.text), paragraphs' = paragraphs, done' = last
      PROVE  paragraphs' \in Seq(Fragments) /\ done' \in Nat
             /\ TextHolds(all, paragraphs', done', fragments', origin')
  <2>1. last < Tokens(p.text) /\ last \in Nat /\ Tokens(p.text) > Target
    <3> DEFINE t == Tokens(p.text)
    <3>1. t \in Nat
      <4>1. p \in Fragments
          BY <1>4, <1>7
      <4> QED BY <4>1, Encoding DEF Fragments
    <3>2. last \in done + 1 .. t /\ last # t /\ last = Lesser(done + Target, t)
        BY <1>8, <1>11 DEF last
    <3> HIDE DEF t
    <3>3. last < t /\ last \in Nat /\ t > Target
        BY <1>1, <3>1, <3>2, ChunkingSettings DEF Lesser
    <3> QED BY <3>3 DEF t
  <2>2. TextHolds(all, paragraphs', last, fragments', origin')
      BY <1>1, <1>6, <1>9, <1>11, <2>1 DEF TextHolds, n
  <2> QED BY <1>1, <1>11, <2>1, <2>2
<1>12. paragraphs' \in Seq(Fragments) /\ done' \in Nat
       /\ TextHolds(all, paragraphs', done', fragments', origin')
    BY <1>3, <1>10, <1>11
<1>13. IndexTypes'
  <2>1. next' \in 0 .. Len(fragments')
      BY <1>1, <1>2, <1>9
  <2> QED BY <1>1, <1>9, <1>12, <2>1 DEF IndexInv, IndexTypes
<1>14. StagesInOrder'
    BY <1>1, <1>2 DEF StagesInOrder
<1>15. TextInv'
    BY <1>1, <1>5, <1>12 DEF TextInv, all
<1> QED BY <1>2, <1>13, <1>14, <1>15 DEF IndexInv

LEMMA EndSplitKeeps == IndexInv /\ EndSplit => IndexInv'
<1> SUFFICES ASSUME IndexInv, EndSplit PROVE IndexInv'
    OBVIOUS
<1>1. /\ UNCHANGED <<source, paragraphs, done, fragments, origin, next, current, chunks>>
      /\ stage = "split" /\ stage' = "chunk"
    BY DEF EndSplit
<1>2. ChunksHold'
    BY <1>1, SplittingHolds
<1>3. IndexTypes' /\ StagesInOrder'
    BY <1>1 DEF IndexInv, IndexTypes, StagesInOrder, Stages
<1>4. TextInv'
    BY <1>1 DEF IndexInv, TextInv
<1> QED BY <1>2, <1>3, <1>4 DEF IndexInv

LEMMA PackKeeps == IndexInv /\ Pack => IndexInv'
<1> SUFFICES ASSUME IndexInv, Pack PROVE IndexInv'
    OBVIOUS
<1> DEFINE f == fragments[next + 1]
           e == [current EXCEPT !.pieces = Append(@, f)]
<1>1. /\ UNCHANGED <<source, stage, paragraphs, done, fragments, origin>> /\ next' = next + 1 /\ stage = "chunk"
      /\ next \in 0 .. Len(fragments) - 1 /\ next \in Nat /\ Len(fragments) \in Nat
      /\ fragments \in Seq(Fragments) /\ current \in Drafts /\ chunks \in Seq(Drafts)
    BY DEF Pack, IndexInv, IndexTypes
<1>2. /\ \A i \in 1 .. Len(chunks) : chunks[i] # NoChunk /\ Whole(chunks[i], source, fragments, next)
      /\ Whole(current, source, fragments, next) /\ Paging(source, fragments)
      /\ Chained(chunks, current) /\ Covered(chunks, current, fragments, next)
  <2>1. Paging(source, fragments)
    <3>1. PartsHold(Paragraphs(source), Len(Paragraphs(source)) - Len(paragraphs) + 1, done, fragments, origin)
        BY <1>1 DEF IndexInv, TextInv, TextHolds
    <3>2. source \in Sources /\ fragments \in Seq(Fragments) /\ origin \in Seq(Origins)
        BY DEF IndexInv, IndexTypes
    <3> QED BY <3>1, <3>2, FragmentsArePaged
  <2> QED BY <2>1 DEF IndexInv, ChunksHold
<1>3. f \in Fragments /\ next + 1 \in 1 .. Len(fragments) /\ next + 1 \in next + 1 .. Len(fragments)
    BY <1>1
<1>4. \A i \in 1 .. Len(chunks) : Whole(chunks[i], source, fragments, next + 1)
    BY <1>1, <1>2, WholeLater
<1>5. \A d \in Drafts : Whole(d, source, fragments, next) /\ d # NoChunk
          => /\ d.pieces # <<>> /\ d.lead <= Len(d.pieces) /\ Len(d.pieces) \in Nat \ {0}
             /\ \A m \in 1 .. Len(d.pieces) : d.pieces[m].page <= f.page
  <2> SUFFICES ASSUME NEW d \in Drafts, Whole(d, source, fragments, next), d # NoChunk
               PROVE  /\ d.pieces # <<>> /\ d.lead <= Len(d.pieces) /\ Len(d.pieces) \in Nat \ {0}
                      /\ \A m \in 1 .. Len(d.pieces) : d.pieces[m].page <= f.page
      OBVIOUS
  <2>1. d.pieces \in Seq(Fragments) /\ d.lead \in Nat /\ d.lead < Len(d.pieces)
      BY DEF Drafts, Whole
  <2>2. d.pieces # <<>> /\ d.lead <= Len(d.pieces) /\ Len(d.pieces) \in Nat \ {0}
      BY <2>1
  <2>3. \A m \in 1 .. Len(d.pieces) : d.pieces[m].page <= f.page
      BY <1>3 DEF Whole
  <2> QED BY <2>2, <2>3
<1>6. CASE current = NoChunk \/ TokenCount(e.pieces) <= Target
  <2>1. current' = e /\ chunks' = chunks
      BY <1>6 DEF Pack, Fragment
  <2>2. e \in Drafts /\ e.lead = current.lead /\ e.pieces = Append(current.pieces, f)
      BY <1>1, <1>3, DraftGrows
  <2>3. Whole(e, source, fragments, next + 1)
      BY <1>1, <1>2, <1>6, <2>2, WholeGrows
  <2>4. Chained(chunks, e)
    <3>1. ASSUME chunks # <<>> PROVE Follows(Last(chunks), e)
      <4>1. Len(chunks) \in 1 .. Len(chunks) /\ Last(chunks) \in Drafts /\ Last(chunks) # NoChunk
            /\ Whole(Last(chunks), source, fragments, next)
          BY <1>1, <1>2, <3>1 DEF Last
      <4>2. Follows(Last(chunks), current)
          BY <1>2, <3>1 DEF Chained
      <4>3. \E m \in 1 .. Len(Last(chunks).pieces) : Last(chunks).pieces[m].page <= f.page
        <5>1. 1 \in 1 .. Len(Last(chunks).pieces)
            BY <1>5, <4>1
        <5> QED BY <1>5, <4>1, <5>1
      <4>4. current.lead <= Len(current.pieces)
          BY <1>1, <1>2, <1>5, NoChunkHolds
      <4> HIDE DEF e
      <4> QED BY <1>1, <1>3, <4>1, <4>2, <4>3, <4>4, GrowingFollows DEF e
    <3> HIDE DEF e
    <3> QED BY <1>2, <2>2, <3>1 DEF Chained
  <2>5. Covered(chunks, e, fragments, next + 1)
    <3> DEFINE l == Len(chunks)
    <3>1. PICK start : Starts(chunks, fragments, next, start) /\ Holds(current, fragments, start[l], next)
        BY <1>2 DEF Covered
    <3>2. start \in [0 .. l -> 0 .. next] /\ l \in 0 .. l
        BY <1>1, <3>1 DEF Starts
    <3>3. start \in [0 .. l -> 0 .. next + 1] /\ start[l] \in 0 .. next
        BY <1>1, <3>2
    <3>4. Starts(chunks, fragments, next + 1, start)
        BY <3>1, <3>3 DEF Starts
    <3>5. Holds(e, fragments, start[l], next + 1)
        BY <1>1, <3>1, <3>3, GrowingHolds
    <3> HIDE DEF e
    <3> QED BY <3>4, <3>5 DEF Covered
  <2> HIDE DEF e
  <2>6. ChunksHold'
      BY <1>1, <1>2, <1>4, <2>1, <2>3, <2>4, <2>5 DEF ChunksHold
  <2>7. IndexTypes'
      BY <1>1, <2>1, <2>2 DEF IndexInv, IndexTypes
  <2>8. StagesInOrder' /\ TextInv'
      BY <1>1 DEF IndexInv, StagesInOrder, TextInv
  <2> QED BY <2>6, <2>7, <2>8 DEF IndexInv
<1>7. CASE ~(current = NoChunk \/ TokenCount(e.pieces) <= Target)
  <2> DEFINE d == After(current, f)
  <2>1. current' = d /\ chunks' = Append(chunks, current)
      BY <1>7 DEF Pack, Fragment
  <2> HIDE DEF e
  <2>2. d \in Drafts
      BY <1>1, <1>3, BeginsAfter
  <2>3. Follows(current, d)
    <3>1. current.pieces # <<>> /\ \A m \in 1 .. Len(current.pieces) : current.pieces[m].page <= f.page
        BY <1>1, <1>2, <1>5, <1>7
    <3> QED BY <1>1, <1>3, <3>1, BeginningFollows
  <2>4. Whole(d, source, fragments, next + 1)
      BY <1>1, <1>2, WholeBegins
  <2>5. Whole(current, source, fragments, next + 1)
      BY <1>1, <1>2, WholeLater
  <2>6. Holds(d, fragments, next, next + 1)
      BY <1>1, BeginningHolds
  <2> HIDE DEF d
  <2>7. Chained(chunks', d)
      BY <1>1, <1>2, <2>1, <2>3, ClosingChains
  <2>8. Covered(chunks', d, fragments, next + 1)
    <3>1. next + 1 \in Nat /\ next <= next + 1
        BY <1>1
    <3> QED BY <1>1, <1>2, <2>1, <2>6, <3>1, ClosingCovers
  <2>9. \A i \in 1 .. Len(chunks') : chunks'[i] # NoChunk /\ Whole(chunks'[i], source, fragments, next + 1)
    <3>1. \A i \in 1 .. Len(chunks') : chunks'[i] = current \/ (i \in 1 .. Len(chunks) /\ chunks'[i] = chunks[i])
        BY <1>1, <2>1
    <3> QED BY <1>2, <1>4, <1>7, <2>5, <3>1
  <2>10. ChunksHold'
      BY <1>1, <2>1, <2>4, <2>7, <2>8, <2>9 DEF ChunksHold
  <2>11. IndexTypes'
    <3>1. chunks' \in Seq(Drafts)
        BY <1>1, <2>1
    <3> QED BY <1>1, <2>1, <2>2, <3>1 DEF IndexInv, IndexTypes
  <2>12. StagesInOrder' /\ TextInv'
      BY <1>1 DEF IndexInv, StagesInOrder, TextInv
  <2> QED BY <2>10, <2>11, <2>12 DEF IndexInv
<1> QED BY <1>6, <1>7

LEMMA CloseKeeps == IndexInv /\ Close => IndexInv'
<1> SUFFICES ASSUME IndexInv, Close PROVE IndexInv'
    OBVIOUS
<1>1. /\ UNCHANGED <<source, paragraphs, done, fragments, origin, next>> /\ current' = NoChunk
      /\ stage' \in {"failed", "embed"} /\ stage = "chunk"
      /\ next \in Nat /\ fragments \in Seq(Fragments) /\ current \in Drafts /\ chunks \in Seq(Drafts)
    BY DEF Close, IndexInv, IndexTypes
<1>2. /\ \A i \in 1 .. Len(chunks) : chunks[i] # NoChunk /\ Whole(chunks[i], source, fragments, next)
      /\ Whole(current, source, fragments, next)
      /\ Chained(chunks, current) /\ Covered(chunks, current, fragments, next)
    BY DEF IndexInv, ChunksHold
<1>3. StagesInOrder' /\ TextInv'
    BY <1>1 DEF IndexInv, StagesInOrder, TextInv
<1>4. Whole(NoChunk, source, fragments, next)
    BY NoChunkHolds
<1>5. CASE current = NoChunk
  <2>1. chunks' = chunks
      BY <1>5 DEF Close
  <2>2. ChunksHold'
      BY <1>1, <1>2, <1>5, <2>1 DEF ChunksHold
  <2>3. IndexTypes'
      BY <1>1, <2>1, NoChunkHolds DEF IndexInv, IndexTypes, Stages
  <2> QED BY <1>3, <2>2, <2>3 DEF IndexInv
<1>6. CASE current # NoChunk
  <2>1. chunks' = Append(chunks, current)
      BY <1>6 DEF Close
  <2>2. Chained(chunks', NoChunk)
      BY <1>1, <1>2, <2>1, ClosingChains, NoChunkHolds
  <2>3. Covered(chunks', NoChunk, fragments, next)
    <3>1. next <= next /\ Holds(NoChunk, fragments, next, next)
        BY <1>1, NoChunkHolds
    <3> QED BY <1>1, <1>2, <2>1, <3>1, ClosingCovers
  <2>4. \A i \in 1 .. Len(chunks') : chunks'[i] # NoChunk /\ Whole(chunks'[i], source, fragments, next)
    <3>1. \A i \in 1 .. Len(chunks') : chunks'[i] = current \/ (i \in 1 .. Len(chunks) /\ chunks'[i] = chunks[i])
        BY <1>1, <2>1
    <3> QED BY <1>2, <1>6, <3>1
  <2>5. ChunksHold'
      BY <1>1, <1>4, <2>2, <2>3, <2>4 DEF ChunksHold
  <2>6. IndexTypes'
    <3>1. chunks' \in Seq(Drafts)
        BY <1>1, <2>1
    <3> QED BY <1>1, <3>1, NoChunkHolds DEF IndexInv, IndexTypes, Stages
  <2> QED BY <1>3, <2>5, <2>6 DEF IndexInv
<1> QED BY <1>5, <1>6

LEMMA IndexStep == IndexInv /\ IndexingNext => IndexInv'
<1>1. IndexInv /\ (ExtractFails \/ Embed) => IndexInv'
    BY DEF ExtractFails, Embed, IndexInv, IndexTypes, Stages, StagesInOrder, TextInv, ChunksHold
<1> QED BY <1>1, ExtractKeeps, CutKeeps, EndSplitKeeps, PackKeeps, CloseKeeps DEF IndexingNext
-----------------------------------------------------------------------------
(* The chunks cover the document. *)
LEMMA NewIsHeld ==
    ASSUME NEW d \in Drafts, NEW fs \in Seq(Fragments), NEW a \in Nat, NEW b \in a .. Len(fs),
           Holds(d, fs, a, b)
    PROVE  New(d) = SubSeq(fs, a + 1, b)
<1> DEFINE s == SubSeq(d.pieces, d.lead + 1, Len(d.pieces))
           t == SubSeq(fs, a + 1, b)
           l == Len(d.pieces)
<1>1. d.pieces \in Seq(Fragments) /\ d.lead \in Nat /\ l \in Nat /\ d.lead <= l /\ l - d.lead = b - a
    BY DEF Drafts, Holds
<1>2. \A k \in 1 .. b - a : d.pieces[d.lead + k] = fs[a + k]
    BY DEF Holds
<1>3. \A i \in d.lead + 1 .. l : d.pieces[i] \in Fragments
    BY <1>1
<1>4. \A i \in a + 1 .. b : fs[i] \in Fragments
    OBVIOUS
<1>5. /\ s \in Seq(Fragments) /\ Len(s) = b - a
      /\ \A i \in 1 .. b - a : s[i] = d.pieces[d.lead + i]
  <2>1. /\ s \in Seq(Fragments) /\ Len(s) = IF d.lead + 1 <= l THEN l - (d.lead + 1) + 1 ELSE 0
        /\ \A i \in 1 .. l - (d.lead + 1) + 1 : s[i] = d.pieces[d.lead + 1 + i - 1]
    <3> DEFINE m == d.lead + 1
               q == d.pieces
    <3>1. m \in Int /\ l \in Int /\ s = SubSeq(q, m, l) /\ \A i \in m .. l : q[i] \in Fragments
        BY <1>1, <1>3
    <3> HIDE DEF m, q, s, l
    <3>2. /\ s \in Seq(Fragments) /\ Len(s) = IF m <= l THEN l - m + 1 ELSE 0
          /\ \A i \in 1 .. l - m + 1 : s[i] = q[m + i - 1]
        BY <3>1, SubSeqProperties
    <3> QED BY <3>2 DEF m, q
  <2> HIDE DEF s, l
  <2>2. l - (d.lead + 1) + 1 = b - a /\ Len(s) = b - a
      BY <1>1, <2>1
  <2>3. \A i \in 1 .. b - a : d.lead + 1 + i - 1 = d.lead + i
      BY <1>1
  <2> QED BY <2>1, <2>2, <2>3
<1>6. /\ t \in Seq(Fragments) /\ Len(t) = b - a /\ \A i \in 1 .. b - a : t[i] = fs[a + i]
  <2>1. /\ t \in Seq(Fragments) /\ Len(t) = IF a + 1 <= b THEN b - (a + 1) + 1 ELSE 0
        /\ \A i \in 1 .. b - (a + 1) + 1 : t[i] = fs[a + 1 + i - 1]
    <3>1. a + 1 \in Int /\ b \in Int
        OBVIOUS
    <3> QED BY <1>4, <3>1, SubSeqProperties
  <2> HIDE DEF t
  <2>2. b - (a + 1) + 1 = b - a /\ Len(t) = b - a
      BY <2>1
  <2>3. \A i \in 1 .. b - a : a + 1 + i - 1 = a + i
      OBVIOUS
  <2> QED BY <2>1, <2>2, <2>3
<1> HIDE DEF s, t
<1>7. \A i \in 1 .. b - a : s[i] = t[i]
    BY <1>2, <1>5, <1>6
<1>8. s = t
    BY <1>5, <1>6, <1>7, SeqEqual
<1> QED BY <1>8 DEF New, s, t

LEMMA Bounded ==
    ASSUME NEW s, NEW n \in Nat, \A i \in 1 .. n : s[i] \in Nat
    PROVE  \E b \in Nat : \A i \in 1 .. n : s[i] <= b
<1> DEFINE T == {k \in 0 .. n : \E b \in Nat : \A i \in 1 .. k : s[i] <= b}
<1>1. 0 \in T
  <2>1. \A i \in 1 .. 0 : s[i] <= 0
      OBVIOUS
  <2> QED BY <2>1
<1>2. ASSUME NEW k \in 0 .. n - 1, k \in T PROVE k + 1 \in T
  <2>1. PICK b \in Nat : \A i \in 1 .. k : s[i] <= b
      BY <1>2
  <2> DEFINE c == IF s[k + 1] <= b THEN b ELSE s[k + 1]
  <2>2. s[k + 1] \in Nat /\ \A i \in 1 .. k : s[i] \in Nat
      OBVIOUS
  <2>3. c \in Nat /\ \A i \in 1 .. k + 1 : s[i] <= c
      BY <2>1, <2>2
  <2> HIDE DEF c
  <2> QED BY <2>3
<1>3. n \in T
  <2> HIDE DEF T
  <2>1. \A k \in 0 .. n : k \in T
      BY <1>1, <1>2, Induction
  <2> QED BY <2>1
<1> QED BY <1>3

(* A page is a number; a chunk that has pages has a first and a last one. *)
LEMMA FirstAndLast ==
    ASSUME NEW d \in Drafts, Pages(d) # {}
    PROVE  /\ PageRange(d)[1] \in Pages(d) /\ PageRange(d)[2] \in Pages(d)
           /\ \A p \in Pages(d) : p \in Nat /\ PageRange(d)[1] <= p /\ p <= PageRange(d)[2]
<1> DEFINE S == Pages(d)
           l == Len(d.pieces)
<1>1. d.pieces \in Seq(Fragments) /\ DOMAIN d.pieces = 1 .. l /\ l \in Nat
    BY DEF Drafts
<1>2. \A i \in 1 .. l : d.pieces[i].page \in Nat
  <2>1. \A f \in Fragments : f.page \in Nat
      BY DEF Fragments
  <2>2. \A i \in 1 .. l : d.pieces[i] \in Fragments
      BY <1>1
  <2> QED BY <2>1, <2>2
<1>3. S \in SUBSET Nat /\ \A p \in S : \E i \in 1 .. l : p = d.pieces[i].page
    BY <1>1, <1>2 DEF Pages
<1> DEFINE g == [i \in 1 .. l |-> d.pieces[i].page]
<1>4. PICK b \in Nat : \A i \in 1 .. l : g[i] <= b
  <2>1. \A i \in 1 .. l : g[i] \in Nat
      BY <1>2
  <2> HIDE DEF g
  <2> QED BY <1>1, <2>1, Bounded
<1>5. \A p \in S : p <= b
    BY <1>3, <1>4
<1> HIDE DEF S
<1>6. \E p \in S : \A q \in S : p <= q
    BY <1>3, LeastNumber DEF S
<1>7. \E p \in S : \A q \in S : p >= q
  <2> DEFINE B == {n \in Nat : \A q \in S : q <= n}
  <2>1. PICK n \in B : \A m \in B : n <= m
    <3>1. B \in SUBSET Nat /\ b \in B
        BY <1>3, <1>5
    <3> HIDE DEF B
    <3> QED BY <3>1, LeastNumber
  <2>2. n \in S
    <3> SUFFICES ASSUME n \notin S PROVE FALSE
        OBVIOUS
    <3>1. n \in Nat /\ \A q \in S : q \in Nat /\ q <= n /\ q # n
        BY <1>3, <2>1
    <3>2. PICK q \in S : TRUE
        BY DEF S
    <3>3. n - 1 \in B
        BY <3>1, <3>2
    <3> QED BY <2>1, <3>1, <3>3
  <2> QED BY <1>3, <2>1, <2>2
<1> DEFINE lo == CHOOSE p \in S : \A q \in S : p <= q
           hi == CHOOSE p \in S : \A q \in S : p >= q
<1>8. lo \in S /\ \A q \in S : lo <= q
    BY <1>6
<1>9. hi \in S /\ \A q \in S : hi >= q
    BY <1>7
<1>10. PageRange(d) = <<lo, hi>>
    BY DEF PageRange, S
<1> HIDE DEF lo, hi
<1> QED BY <1>3, <1>8, <1>9, <1>10 DEF S

LEMMA PagesAreBetween ==
    ASSUME NEW s, NEW fs, NEW n, NEW b \in Drafts, NEW c \in Drafts,
           Whole(b, s, fs, n), Whole(c, s, fs, n), Follows(b, c), Pages(c) # {}
    PROVE  PageRange(c)[1] \in PageRange(b)[1] .. PageRange(c)[2]
<1>1. \A d \in Drafts : d.pieces \in Seq(Fragments) /\ DOMAIN d.pieces = 1 .. Len(d.pieces)
    BY DEF Drafts
<1>2. /\ PageRange(c)[1] \in Pages(c) /\ PageRange(c)[1] \in Nat
      /\ PageRange(c)[1] <= PageRange(c)[2] /\ PageRange(c)[2] \in Nat
    BY FirstAndLast
<1>3. PICK k \in 1 .. Len(c.pieces) : PageRange(c)[1] = c.pieces[k].page /\ c.pieces[k].page # NoPage
    BY <1>1, <1>2 DEF Pages
<1>4. PICK m \in 1 .. Len(b.pieces) : b.pieces[m].page <= c.pieces[k].page
    BY DEF Follows
<1>5. b.pieces[m].page \in Pages(b)
  <2>1. s.kind = "pdf"
      BY <1>3 DEF Whole, Paged
  <2>2. b.pieces[m].page # NoPage
      BY <2>1 DEF Whole, Paged
  <2> QED BY <1>1, <2>2 DEF Pages
<1>6. PageRange(b)[1] \in Nat /\ PageRange(b)[1] <= b.pieces[m].page /\ b.pieces[m].page \in Nat
    BY <1>5, FirstAndLast
<1> QED BY <1>2, <1>3, <1>4, <1>6

LEMMA IndexIsCovered == IndexInv => ChunksCoverTheDocument
<1> SUFFICES ASSUME IndexInv PROVE ChunksCoverTheDocument
    OBVIOUS
<1> DEFINE packed == Append(chunks, current)
           l == Len(chunks)
<1>1. /\ next \in Nat /\ next <= Len(fragments) /\ fragments \in Seq(Fragments)
      /\ current \in Drafts /\ chunks \in Seq(Drafts) /\ l \in Nat /\ DOMAIN chunks = 1 .. l
      /\ Len(fragments) \in Nat
    BY DEF IndexInv, IndexTypes
<1>2. /\ \A i \in 1 .. l : chunks[i] # NoChunk /\ Whole(chunks[i], source, fragments, next)
      /\ Whole(current, source, fragments, next)
      /\ Chained(chunks, current) /\ Covered(chunks, current, fragments, next)
    BY DEF IndexInv, ChunksHold
<1>3. /\ packed \in Seq(Drafts) /\ Len(packed) = l + 1 /\ DOMAIN packed = 1 .. l + 1
      /\ packed[l + 1] = current /\ \A i \in 1 .. l : packed[i] = chunks[i]
    BY <1>1
<1>4. \A i \in 1 .. l + 1 : i = l + 1 \/ i \in 1 .. l
    BY <1>1
<1> HIDE DEF packed, l
<1>5. \E start \in [0 .. Len(packed) -> 0 .. next] :
          /\ start[0] = 0 /\ start[Len(packed)] = next
          /\ \A i \in DOMAIN packed :
                /\ start[i - 1] <= start[i]
                /\ New(packed[i]) = SubSeq(fragments, start[i - 1] + 1, start[i])
  <2>1. PICK first : Starts(chunks, fragments, next, first) /\ Holds(current, fragments, first[l], next)
      BY <1>2 DEF Covered, l
  <2>2. /\ first \in [0 .. l -> 0 .. next] /\ first[0] = 0
        /\ \A i \in 1 .. l : first[i - 1] <= first[i] /\ Holds(chunks[i], fragments, first[i - 1], first[i])
      BY <2>1 DEF Starts, l
  <2> DEFINE start == [i \in 0 .. l + 1 |-> IF i <= l THEN first[i] ELSE next]
  <2>3. start \in [0 .. l + 1 -> 0 .. next] /\ start[0] = 0 /\ start[l + 1] = next
        /\ \A i \in 0 .. l : start[i] = first[i]
    <3>1. \A i \in 0 .. l + 1 : (IF i <= l THEN first[i] ELSE next) \in 0 .. next
        BY <1>1, <2>2
    <3> QED BY <1>1, <2>2, <3>1
  <2> HIDE DEF start
  <2>4. ASSUME NEW i \in 1 .. l + 1
        PROVE  start[i - 1] <= start[i] /\ New(packed[i]) = SubSeq(fragments, start[i - 1] + 1, start[i])
    <3> DEFINE d == packed[i]
               a == start[i - 1]
               b == start[i]
    <3>1. d \in Drafts /\ i - 1 \in 0 .. l + 1 /\ i \in 0 .. l + 1
        BY <1>1, <1>3
    <3>2. a \in 0 .. next /\ b \in 0 .. next
        BY <2>3, <3>1
    <3>3. a <= b /\ Holds(d, fragments, a, b)
      <4>1. CASE i = l + 1
        <5>1. i - 1 = l /\ l \in 0 .. l
            BY <1>1, <4>1
        <5>2. a = first[l] /\ b = next /\ d = current
            BY <1>3, <2>3, <4>1, <5>1
        <5> QED BY <2>1, <3>2, <5>2
      <4>2. CASE i \in 1 .. l
        <5>1. i - 1 \in 0 .. l /\ i \in 0 .. l
            BY <1>1, <4>2
        <5>2. a = first[i - 1] /\ b = first[i] /\ d = chunks[i]
            BY <1>3, <2>3, <4>2, <5>1
        <5> QED BY <2>2, <4>2, <5>2
      <4> QED BY <1>4, <4>1, <4>2
    <3> HIDE DEF a, b, d
    <3>4. a \in Nat /\ b \in a .. Len(fragments)
        BY <1>1, <3>2, <3>3
    <3>5. New(d) = SubSeq(fragments, a + 1, b)
        BY <1>1, <3>1, <3>3, <3>4, NewIsHeld
    <3> QED BY <3>3, <3>5 DEF a, b, d
  <2> QED BY <1>3, <2>3, <2>4
<1>6. ASSUME stage \in {"split", "chunk", "embed"}, NEW i \in DOMAIN packed
      PROVE  \/ TokenCount(packed[i].pieces) <= Maximum
             \/ \E a \in DOMAIN fragments : packed[i].pieces = <<fragments[a]>> /\ IsCut(a)
  <2> DEFINE d == packed[i]
             m == Len(d.pieces)
  <2>1. d \in Drafts /\ Whole(d, source, fragments, next)
      BY <1>2, <1>3, <1>4
  <2>2. d.pieces \in Seq(Fragments) /\ m \in Nat /\ d.lead \in Nat
    <3> HIDE DEF d
    <3>1. d.pieces \in Seq(Fragments) /\ d.lead \in Nat
        BY <2>1 DEF Drafts
    <3> QED BY <3>1
  <2> HIDE DEF d
  <2>3. CASE m > 1
      BY <2>1, <2>3 DEF Whole, d
  <2>4. CASE m = 0
    <3>1. d.pieces = <<>>
        BY <2>2, <2>4
    <3> QED BY <3>1, FewPieces, ChunkingSettings DEF d
  <2>5. CASE m = 1
    <3>1. d.lead = 0
        BY <2>1, <2>2, <2>5, NoChunkHolds DEF Whole
    <3>2. d.pieces = <<d.pieces[1]>>
        BY <2>2, <2>5
    <3>3. PICK start \in [0 .. Len(packed) -> 0 .. next] :
              New(packed[i]) = SubSeq(fragments, start[i - 1] + 1, start[i])
        BY <1>5
    <3>4. New(d) = d.pieces
        BY <2>2, <2>5, <3>1 DEF New
    <3>5. PICK a \in DOMAIN fragments : d.pieces[1] = fragments[a]
      <4> DEFINE x == start[i - 1]
                 y == start[i]
      <4>1. x \in 0 .. next /\ y \in 0 .. next
        <5>1. i \in 0 .. Len(packed) /\ i - 1 \in 0 .. Len(packed)
            BY <1>1, <1>3
        <5> QED BY <3>3, <5>1
      <4> HIDE DEF x, y
      <4>2. d.pieces = SubSeq(fragments, x + 1, y)
          BY <3>3, <3>4 DEF d, x, y
      <4>3. \A j \in x + 1 .. y : fragments[j] \in Fragments /\ j \in DOMAIN fragments
        <5>1. \A j \in x + 1 .. y : j \in 1 .. Len(fragments)
            BY <1>1, <4>1
        <5> QED BY <1>1, <5>1
      <4>4. /\ Len(SubSeq(fragments, x + 1, y)) = IF x + 1 <= y THEN y - (x + 1) + 1 ELSE 0
            /\ \A j \in 1 .. y - (x + 1) + 1 : SubSeq(fragments, x + 1, y)[j] = fragments[x + 1 + j - 1]
        <5>1. x + 1 \in Int /\ y \in Int
            BY <1>1, <4>1
        <5> QED BY <4>3, <5>1, SubSeqProperties
      <4>5. x + 1 <= y /\ y - (x + 1) + 1 = 1
          BY <1>1, <2>5, <4>1, <4>2, <4>4
      <4>6. d.pieces[1] = fragments[x + 1] /\ x + 1 \in DOMAIN fragments
        <5>1. 1 \in 1 .. y - (x + 1) + 1 /\ x + 1 + 1 - 1 = x + 1 /\ x + 1 \in x + 1 .. y
            BY <1>1, <4>1, <4>5
        <5> QED BY <4>2, <4>3, <4>4, <5>1
      <4> QED BY <4>6
    <3>6. CASE IsCut(a)
        BY <3>2, <3>5, <3>6 DEF d
    <3>7. CASE ~IsCut(a)
      <4> DEFINE f == fragments[a]
                 p == Paragraphs(source)[origin[a].paragraph]
      <4>1. /\ Part(Paragraphs(source), origin[a], f)
            /\ Paragraphs(source) \in Seq(Fragments)
        <5>1. a \in 1 .. Len(origin)
            BY <1>1, <1>6 DEF IndexInv, TextInv, TextHolds, PartsHold
        <5> QED BY <1>6, <5>1, ParagraphsAreListed DEF IndexInv, IndexTypes, TextInv, TextHolds, PartsHold
      <4>2. p \in Fragments
          BY <4>1 DEF Part
      <4>3. p.text \in Texts /\ Tokens(p.text) \in Nat
          BY <4>2, Encoding DEF Fragments
      <4>4. Tokens(p.text) <= Target
          BY <3>7, <4>3, ChunkingSettings DEF IsCut
      <4>5. f.text = Slice(p.text, 1, Tokens(p.text))
          BY <4>1, <4>4 DEF Part
      <4>6. f.text = p.text
          BY <4>3, <4>5, Encoding
      <4>7. Size(f) <= Maximum /\ f \in Fragments
          BY <1>1, <4>3, <4>4, <4>6, ChunkingSettings DEF Size
      <4>8. TokenCount(d.pieces) = Size(f)
        <5>1. d.pieces = <<f>>
            BY <3>2, <3>5
        <5> QED BY <4>7, <5>1, FewPieces
      <4> QED BY <4>7, <4>8 DEF d
    <3> QED BY <3>6, <3>7
  <2>6. m = 0 \/ m = 1 \/ m > 1
    <3> HIDE DEF m
    <3> QED BY <2>2
  <2> QED BY <2>3, <2>4, <2>5, <2>6
<1>7. ASSUME NEW i \in 1 .. l
      PROVE  /\ New(chunks[i]) # <<>>
             /\ chunks[i].lead > 0 => Repeats(chunks[i - 1], chunks[i])
             /\ i > 1 /\ Pages(chunks[i]) # {} =>
                   PageRange(chunks[i])[1] \in PageRange(chunks[i - 1])[1] .. PageRange(chunks[i])[2]
  <2> DEFINE d == chunks[i]
  <2>1. d \in Drafts /\ d.lead < Len(d.pieces) /\ d.lead \in Nat /\ d.pieces \in Seq(Fragments)
    <3>1. d \in Drafts /\ d # NoChunk /\ Whole(d, source, fragments, next)
        BY <1>1, <1>2
    <3> HIDE DEF d
    <3>2. d.lead < Len(d.pieces)
        BY <3>1 DEF Whole
    <3>3. d.lead \in Nat /\ d.pieces \in Seq(Fragments)
        BY <3>1 DEF Drafts
    <3> QED BY <3>1, <3>2, <3>3
  <2>2. New(d) # <<>>
    <3> HIDE DEF d
    <3>1. Len(d.pieces) \in Nat
        BY <2>1
    <3>2. Len(New(d)) = Len(d.pieces) - d.lead
      <4>1. \A j \in d.lead + 1 .. Len(d.pieces) : d.pieces[j] \in Fragments
          BY <2>1, <3>1
      <4>2. d.lead + 1 \in Int /\ Len(d.pieces) \in Int /\ d.lead + 1 <= Len(d.pieces)
          BY <2>1, <3>1
      <4>3. Len(SubSeq(d.pieces, d.lead + 1, Len(d.pieces))) = Len(d.pieces) - (d.lead + 1) + 1
          BY <4>1, <4>2, SubSeqProperties
      <4> QED BY <2>1, <3>1, <4>3 DEF New
    <3>3. Len(<<>>) = 0
        OBVIOUS
    <3> QED BY <2>1, <3>1, <3>2, <3>3
  <2>3. CASE i = 1
    <3>1. chunks # <<>>
        BY <1>1, <2>3 DEF l
    <3>2. d.lead = 0
        BY <1>2, <2>3, <3>1 DEF Chained
    <3> QED BY <2>2, <2>3, <3>2
  <2>4. CASE i # 1
    <3>1. i \in 2 .. l /\ i - 1 \in 1 .. l
        BY <1>1, <2>4
    <3>2. Follows(chunks[i - 1], d)
        BY <1>2, <3>1 DEF Chained, l
    <3>3. chunks[i - 1] \in Drafts /\ Whole(chunks[i - 1], source, fragments, next)
          /\ Whole(d, source, fragments, next)
        BY <1>1, <1>2, <3>1
    <3>4. d.lead > 0 => Repeats(chunks[i - 1], d)
        BY <3>2 DEF Follows
    <3>5. Pages(d) # {} => PageRange(d)[1] \in PageRange(chunks[i - 1])[1] .. PageRange(d)[2]
      <4> HIDE DEF d
      <4> QED BY <2>1, <3>2, <3>3, PagesAreBetween
    <3> QED BY <2>2, <3>4, <3>5
  <2> QED BY <2>3, <2>4
<1>8. \A i \in DOMAIN chunks :
          /\ New(chunks[i]) # <<>>
          /\ chunks[i].lead > 0 => Repeats(chunks[i - 1], chunks[i])
          /\ i > 1 /\ Pages(chunks[i]) # {} =>
                PageRange(chunks[i])[1] \in PageRange(chunks[i - 1])[1] .. PageRange(chunks[i])[2]
    BY <1>1, <1>7
<1> HIDE DEF packed
<1>9. Append(chunks, current) = packed
    BY DEF packed
<1> QED BY <1>5, <1>6, <1>8, <1>9 DEF ChunksCoverTheDocument

(* The fragments cover the text. *)
LEMMA TextIsCovered == IndexInv => FragmentsCoverTheText
<1> SUFFICES ASSUME IndexInv, stage \in {"split", "chunk", "embed"} PROVE FragmentsCoverTheText
    BY DEF FragmentsCoverTheText
<1> DEFINE all == Paragraphs(source)
           isSplit(n, k) == n < Number \/ (n = Number /\ k <= done)
<1>1. /\ PartsHold(all, Number, done, fragments, origin)
      /\ all \in Seq(Fragments) /\ DOMAIN all = 1 .. Len(all)
      /\ DOMAIN origin = 1 .. Len(origin) /\ DOMAIN fragments = 1 .. Len(fragments)
  <2>1. source \in Sources /\ fragments \in Seq(Fragments) /\ origin \in Seq(Origins)
      BY DEF IndexInv, IndexTypes
  <2> QED BY <2>1, ParagraphsAreListed DEF IndexInv, TextInv, TextHolds, Number
<1> HIDE DEF all
<1>2. ASSUME NEW n \in DOMAIN all, NEW k \in 1 .. Tokens(all[n].text), isSplit(n, k)
      PROVE  \/ \E o \in Range(origin) : o.paragraph = n /\ k \in o.first .. o.last
             \/ \E i \in 1 .. k, j \in k .. Tokens(all[n].text) : Slice(all[n].text, i, j) = Blank
  <2>1. Held(all, origin, n, k)
      BY <1>1, <1>2 DEF PartsHold
  <2> QED BY <1>1, <2>1 DEF Held, Range
<1>3. \A a, b \in DOMAIN origin : a < b =>
          \/ origin[a].paragraph < origin[b].paragraph
          \/ origin[a].paragraph = origin[b].paragraph /\ origin[a].last < origin[b].first
    BY <1>1 DEF PartsHold, Before
<1>4. \A a \in DOMAIN fragments :
          LET o == origin[a]
              p == all[o.paragraph]
          IN  /\ fragments[a] = [text |-> Slice(p.text, o.first, o.last), page |-> p.page]
              /\ o.first <= o.last /\ o.last < o.first + Target
    BY <1>1 DEF PartsHold, Part
<1> QED BY <1>2, <1>3, <1>4 DEF FragmentsCoverTheText, all
-----------------------------------------------------------------------------
(* Rankings. *)
Listing(s) == s \in Seq(Chunks) /\ IsInjective(s)

LEMMA Beginning ==
    ASSUME NEW T, NEW s \in Seq(T), IsInjective(s), NEW m \in 0 .. Len(s)
    PROVE  LET r == SubSeq(s, 1, m)
           IN  /\ r \in Seq(T) /\ IsInjective(r) /\ Len(r) = m
               /\ Range(r) \in SUBSET Range(s)
               /\ \A x \in Range(s) : x \in Range(r) <=> RankIn(s, x) <= m
<1> DEFINE r == SubSeq(s, 1, m)
<1>1. /\ r \in Seq(T) /\ Len(r) = m /\ DOMAIN r = 1 .. m /\ \A i \in 1 .. m : r[i] = s[i]
      /\ DOMAIN s = 1 .. Len(s) /\ Len(s) \in Nat
    OBVIOUS
<1>2. \A i \in 1 .. m : i \in DOMAIN s
    BY <1>1
<1>3. \A i \in DOMAIN s : RankIn(s, s[i]) = i
    BY RankOf
<1> HIDE DEF r
<1>4. IsInjective(r)
    BY <1>1, <1>2 DEF IsInjective
<1>5. Range(r) \in SUBSET Range(s)
    BY <1>1, <1>2 DEF Range
<1>6. ASSUME NEW x \in Range(s) PROVE x \in Range(r) <=> RankIn(s, x) <= m
  <2>1. PICK i \in DOMAIN s : x = s[i]
      BY DEF Range
  <2>2. RankIn(s, x) = i /\ i \in 1 .. Len(s)
      BY <1>1, <1>3, <2>1
  <2>3. ASSUME i <= m PROVE x \in Range(r)
    <3>1. i \in DOMAIN r /\ r[i] = x
        BY <1>1, <2>1, <2>2, <2>3
    <3> QED BY <3>1 DEF Range
  <2>4. ASSUME x \in Range(r) PROVE i <= m
    <3>1. PICK j \in DOMAIN r : x = r[j]
        BY <2>4 DEF Range
    <3>2. j \in 1 .. m /\ x = s[j] /\ j \in DOMAIN s
        BY <1>1, <1>2, <3>1
    <3>3. RankIn(s, x) = j
        BY <1>3, <3>2
    <3> QED BY <2>2, <3>2, <3>3
  <2> QED BY <2>2, <2>3, <2>4
<1> QED BY <1>1, <1>4, <1>5, <1>6 DEF r

LEMMA RangeIsFinite ==
    ASSUME NEW T, NEW s \in Seq(T)
    PROVE  IsFiniteSet(Range(s))
<1>1. Len(s) \in Nat /\ DOMAIN s = 1 .. Len(s) /\ s \in [1 .. Len(s) -> T]
    OBVIOUS
<1>2. s \in Surjection(1 .. Len(s), Range(s))
    BY <1>1 DEF Surjection, Range
<1>3. IsFiniteSet(1 .. Len(s))
    BY <1>1, FirstNumbers
<1> QED BY <1>2, <1>3, FS_Surjection

-----------------------------------------------------------------------------
(* Scores. *)
LEMMA Product ==
    /\ \A a, b, n \in Nat : a <= b => a * n <= b * n
    /\ \A a, m, n \in Nat : a > 0 /\ m < n => a * m < a * n
OBVIOUS

LEMMA ScoreOfRank ==
    ASSUME NEW r \in 1 .. Candidates
    PROVE  /\ K + r \in Nat \ {0} /\ Scale \div (K + r) \in Nat \ {0}
           /\ (Scale \div (K + r)) * (K + r) = Scale
<1>1. K + r \in Nat \ {0} /\ Scale \in Nat \ {0} /\ (Scale \div (K + r)) * (K + r) = Scale
    BY RankingSettings
<1>2. Scale \div (K + r) \in Nat
    BY <1>1
<1>3. Scale \div (K + r) # 0
  <2> SUFFICES ASSUME Scale \div (K + r) = 0 PROVE FALSE
      OBVIOUS
  <2>1. 0 * (K + r) = 0
      BY <1>1
  <2> QED BY <1>1, <2>1
<1> QED BY <1>1, <1>2, <1>3

LEMMA HigherScore ==
    ASSUME NEW q \in 1 .. Candidates, NEW r \in 1 .. Candidates, q < r
    PROVE  Scale \div (K + q) > Scale \div (K + r)
<1> DEFINE a == Scale \div (K + q)
           b == Scale \div (K + r)
           m == K + q
           n == K + r
<1>1. m \in Nat \ {0} /\ a \in Nat \ {0} /\ a * m = Scale
    BY ScoreOfRank
<1>2. n \in Nat \ {0} /\ b \in Nat \ {0} /\ b * n = Scale
    BY ScoreOfRank
<1>3. m < n
  <2>1. K \in Nat /\ Candidates \in Nat
      BY RankingSettings
  <2> QED BY <2>1
<1> HIDE DEF a, b, m, n
<1>4. ASSUME a <= b PROVE FALSE
  <2>1. a * m <= b * m /\ b * m < b * n
      BY <1>1, <1>2, <1>3, <1>4, Product
  <2>2. a * m \in Nat /\ b * m \in Nat /\ b * n \in Nat
      BY <1>1, <1>2
  <2> QED BY <1>1, <1>2, <2>1, <2>2
<1>5. a > b
    BY <1>1, <1>2, <1>4
<1> QED BY <1>5 DEF a, b

LEMMA HalfScore ==
    ASSUME NEW q \in 1 .. Candidates, NEW r \in 1 .. Candidates, Candidates <= K
    PROVE  2 * (Scale \div (K + q)) > Scale \div (K + r)
<1> DEFINE a == Scale \div (K + q)
           b == Scale \div (K + r)
           m == K + q
           n == K + r
<1>1. /\ m \in Nat \ {0} /\ a \in Nat \ {0} /\ a * m = Scale
      /\ n \in Nat \ {0} /\ b \in Nat \ {0} /\ b * n = Scale
      /\ K \in Nat /\ m <= 2 * K /\ K < n
    BY ScoreOfRank, RankingSettings
<1> HIDE DEF a, b, m, n
<1>2. ASSUME 2 * a <= b PROVE FALSE
  <2>1. a * m <= a * (2 * K)
      BY <1>1
  <2>2. a * (2 * K) = (2 * a) * K
      BY <1>1
  <2>3. (2 * a) * K <= b * K /\ b * K < b * n
      BY <1>1, <1>2, Product
  <2> DEFINE x == a * m
             y == (2 * a) * K
             z == b * K
             t == b * n
  <2>4. x <= y /\ y <= z /\ z < t /\ x = t /\ x \in Nat /\ y \in Nat /\ z \in Nat /\ t \in Nat
      BY <1>1, <2>1, <2>2, <2>3
  <2> HIDE DEF x, y, z, t
  <2> QED BY <2>4
<1> QED BY <1>1, <1>2 DEF a, b

LEMMA ShareOfChunk ==
    ASSUME NEW s, Listing(s), Len(s) <= Candidates
    PROVE  /\ \A c : Share(s, c) \in Nat
           /\ \A c \in Range(s) : RankIn(s, c) \in 1 .. Candidates
           /\ \A c \in Range(s) : Share(s, c) = Scale \div (K + RankIn(s, c)) /\ Share(s, c) > 0
           /\ \A c, d : Ahead(s, c, d) => Share(s, c) > Share(s, d)
           /\ \A c, d : Level(s, c, d) => Share(s, c) = Share(s, d)
<1>1. \A c \in Range(s) : RankIn(s, c) \in 1 .. Candidates
  <2>1. Len(s) \in Nat
      BY DEF Listing
  <2>2. \A c \in Range(s) : RankIn(s, c) \in 1 .. Len(s)
      BY RankOf DEF Listing
  <2> QED BY <2>1, <2>2, RankingSettings
<1>2. ASSUME NEW c \in Range(s)
      PROVE  Share(s, c) = Scale \div (K + RankIn(s, c)) /\ Share(s, c) \in Nat \ {0}
    BY <1>1, ScoreOfRank DEF Share
<1>3. \A c : c \notin Range(s) => Share(s, c) = 0
    BY DEF Share
<1>4. \A c : Share(s, c) \in Nat
    BY <1>2, <1>3
<1>5. ASSUME NEW c, NEW d, Ahead(s, c, d) PROVE Share(s, c) > Share(s, d)
  <2>1. c \in Range(s)
      BY <1>5 DEF Ahead
  <2>2. CASE d \in Range(s)
      BY <1>1, <1>2, <1>5, <2>1, <2>2, HigherScore DEF Ahead
  <2>3. CASE d \notin Range(s)
      BY <1>2, <1>3, <2>1, <2>3
  <2> QED BY <2>2, <2>3
<1> QED BY <1>1, <1>2, <1>3, <1>4, <1>5 DEF Level

(* The candidates, the better first. *)
LEMMA FusedInOrder ==
    ASSUME Listing(vector), Len(vector) <= Candidates, Listing(keyword), Len(keyword) <= Candidates
    PROVE  /\ Lists(Fused, Met) /\ Listing(Fused)
           /\ \A c, d \in Met : Score(c) > Score(d) => RankIn(Fused, c) < RankIn(Fused, d)
<1> DEFINE before == [c \in Met |-> Better(c)]
<1>1. \A c \in Met : Score(c) \in Nat
    BY ShareOfChunk DEF Score
<1>2. \A c \in Met : MetAt(c) \in Nat
  <2>1. /\ \A c \in Range(vector) : RankIn(vector, c) \in Nat
        /\ \A c \in Range(keyword) : RankIn(keyword, c) \in Nat
        /\ Len(vector) \in Nat
      BY RankOf DEF Listing
  <2> QED BY <2>1 DEF MetAt, Met
<1>3. ASSUME NEW c \in Met, NEW d \in Met, MetAt(c) = MetAt(d) PROVE c = d
  <2>1. /\ \A x \in Range(vector) : RankIn(vector, x) \in 1 .. Len(vector) /\ vector[RankIn(vector, x)] = x
        /\ \A x \in Range(keyword) : RankIn(keyword, x) \in 1 .. Len(keyword) /\ keyword[RankIn(keyword, x)] = x
        /\ Len(vector) \in Nat /\ Len(keyword) \in Nat
      BY RankOf DEF Listing
  <2>2. c \in Range(vector) \/ c \in Range(keyword)
      BY DEF Met
  <2>3. d \in Range(vector) \/ d \in Range(keyword)
      BY DEF Met
  <2>4. CASE c \in Range(vector)
      BY <1>3, <2>1, <2>3, <2>4 DEF MetAt
  <2>5. CASE c \notin Range(vector)
      BY <1>3, <2>1, <2>2, <2>3, <2>5 DEF MetAt
  <2> QED BY <2>4, <2>5
<1>4. IsFiniteSet(Met) /\ Met \in SUBSET Chunks
  <2>1. IsFiniteSet(Range(vector)) /\ IsFiniteSet(Range(keyword))
      BY RangeIsFinite DEF Listing
  <2>2. Range(vector) \in SUBSET Chunks /\ Range(keyword) \in SUBSET Chunks
      BY DEF Listing, Range
  <2> QED BY <2>1, <2>2, FS_Union DEF Met
<1>5. \A c, d \in Met : c \in before[d] <=>
          Score(c) > Score(d) \/ (Score(c) = Score(d) /\ MetAt(c) < MetAt(d))
    BY DEF Better
<1>6. \A c \in Met : before[c] \in SUBSET Met
    BY DEF Better
<1> HIDE DEF before
<1>7. Linear(Met, before)
  <2>1. \A c \in Met : c \notin before[c]
      BY <1>1, <1>2, <1>5
  <2>2. ASSUME NEW c \in Met, NEW d \in Met PROVE c = d \/ c \in before[d] \/ d \in before[c]
    <3>1. Score(c) \in Nat /\ Score(d) \in Nat /\ MetAt(c) \in Nat /\ MetAt(d) \in Nat
        BY <1>1, <1>2
    <3>2. \/ Score(c) > Score(d) \/ Score(d) > Score(c)
          \/ Score(c) = Score(d) /\ (MetAt(c) < MetAt(d) \/ MetAt(d) < MetAt(c) \/ MetAt(c) = MetAt(d))
        BY <3>1
    <3> QED BY <1>3, <1>5, <3>2
  <2>3. ASSUME NEW c \in Met, NEW d \in Met, c \in before[d] PROVE before[c] \in SUBSET before[d]
    <3> SUFFICES ASSUME NEW x \in Met, x \in before[c] PROVE x \in before[d]
        BY <1>6
    <3>1. /\ Score(c) \in Nat /\ Score(d) \in Nat /\ Score(x) \in Nat
          /\ MetAt(c) \in Nat /\ MetAt(d) \in Nat /\ MetAt(x) \in Nat
        BY <1>1, <1>2
    <3>2. /\ Score(c) > Score(d) \/ (Score(c) = Score(d) /\ MetAt(c) < MetAt(d))
          /\ Score(x) > Score(c) \/ (Score(x) = Score(c) /\ MetAt(x) < MetAt(c))
        BY <1>5, <2>3
    <3>3. Score(x) > Score(d) \/ (Score(x) = Score(d) /\ MetAt(x) < MetAt(d))
        BY <3>1, <3>2
    <3> QED BY <1>5, <3>3
  <2> QED BY <1>4, <1>6, <2>1, <2>2, <2>3 DEF Linear
<1>8. Fused = InOrder(Met, before)
    BY DEF Fused, before
<1>9. /\ Lists(Fused, Met)
      /\ \A c, d \in Met : c \in before[d] <=> RankIn(Fused, c) < RankIn(Fused, d)
    BY <1>7, <1>8, ListedInOrder
<1>10. Listing(Fused)
  <2>1. Fused \in Seq(Met) /\ IsInjective(Fused)
      BY <1>9 DEF Lists
  <2>2. Fused \in Seq(Chunks)
      BY <1>4, <2>1, SeqMonotonic
  <2> QED BY <2>1, <2>2 DEF Listing
<1> QED BY <1>5, <1>9, <1>10

(* The results are the first of their contents, as many as asked for. *)
Given(s) == SubSeq(Distinct(s), 1, Lesser(limit, Len(Distinct(s))))

LEMMA ResultsOfFused ==
    ASSUME NEW s, Listing(s), limit \in Nat
    PROVE  /\ Listing(Given(s)) /\ Range(Given(s)) \in SUBSET Range(s)
           /\ \A c \in Range(Given(s)) : IsFirst(s, c)
           /\ \A c \in Range(s) : IsFirst(s, c) =>
                 \/ c \in Range(Given(s))
                 \/ /\ Len(Given(s)) = limit
                    /\ \A d \in Range(Given(s)) : RankIn(s, d) < RankIn(s, c)
<1> DEFINE S == {c \in Range(s) : IsFirst(s, c)}
           t == Distinct(s)
           m == Lesser(limit, Len(t))
           r == SubSeq(t, 1, m)
<1>1. s \in Seq(Chunks) /\ IsInjective(s) /\ Range(s) \in SUBSET Chunks
    BY DEF Listing, Range
<1>2. Lists(t, S) /\ \A x, y \in S : RankIn(t, x) < RankIn(t, y) <=> RankIn(s, x) < RankIn(s, y)
  <2>1. S \in SUBSET Range(s)
      OBVIOUS
  <2>2. t = Among(s, S)
      BY DEF Distinct
  <2> HIDE DEF S, t
  <2> QED BY <1>1, <2>1, <2>2, AmongKeepsOrder
<1>3. S \in SUBSET Chunks /\ S \in SUBSET Range(s) /\ \A c \in S : IsFirst(s, c)
    BY <1>1
<1>4. \A c \in Range(s) : IsFirst(s, c) => c \in S
    OBVIOUS
<1> HIDE DEF S, t
<1>5. t \in Seq(S) /\ IsInjective(t) /\ Range(t) = S /\ Len(t) \in Nat
    BY <1>2 DEF Lists
<1>6. t \in Seq(Chunks)
    BY <1>3, <1>5, SeqMonotonic
<1>7. m \in 0 .. Len(t) /\ (m = limit \/ m = Len(t))
    BY <1>5 DEF Lesser
<1> HIDE DEF m
<1>8. /\ r \in Seq(Chunks) /\ IsInjective(r) /\ Len(r) = m /\ Range(r) \in SUBSET S
      /\ \A x \in S : x \in Range(r) <=> RankIn(t, x) <= m
    BY <1>5, <1>6, <1>7, Beginning
<1>9. \A x \in S : RankIn(t, x) \in 1 .. Len(t)
    BY <1>5, RankOf
<1> HIDE DEF r
<1>10. ASSUME NEW c \in S, c \notin Range(r)
       PROVE  Len(r) = limit /\ \A d \in Range(r) : RankIn(s, d) < RankIn(s, c)
  <2>1. ~(RankIn(t, c) <= m) /\ RankIn(t, c) \in 1 .. Len(t)
      BY <1>8, <1>9, <1>10
  <2>2. m = limit
      BY <1>5, <1>7, <2>1
  <2>3. ASSUME NEW d \in Range(r) PROVE RankIn(s, d) < RankIn(s, c)
    <3>1. d \in S /\ RankIn(t, d) <= m /\ RankIn(t, d) \in 1 .. Len(t)
        BY <1>8, <1>9
    <3>2. RankIn(t, d) < RankIn(t, c)
        BY <1>5, <1>7, <2>1, <3>1
    <3> QED BY <1>2, <3>1, <3>2
  <2> QED BY <1>8, <2>2, <2>3
<1>11. Given(s) = r
    BY DEF Given, r, m, t
<1> QED BY <1>3, <1>4, <1>8, <1>10, <1>11 DEF Listing

-----------------------------------------------------------------------------
(* The inductive invariant of the query.                                    *)
QueryTypes ==
    /\ query \in QuerySteps /\ limit \in Limits \cup {0} /\ seen \in 0 .. Len(results)
    /\ \A s \in {vector, keyword, fused, results, context} : Listing(s)
    /\ Len(vector) <= Candidates /\ Len(keyword) <= Candidates

StepsInOrder ==
    /\ query = "idle" => vector = <<>> /\ keyword = <<>>
    /\ query # "idle" => stage = "indexed" /\ limit \in Limits
    /\ query \in {"idle", "fuse"} => fused = <<>> /\ results = <<>>
    /\ query \notin {"idle", "fuse"} => fused = Fused /\ results = Given(Fused)
    /\ query \in {"idle", "fuse", "answer"} => context = <<>> /\ seen = 0

(* Of the first n results in r, s has in their order those that are not too long. *)
Selects(s, r, n) ==
    /\ Used(s) <= MaximumTokens /\ Len(s) <= MaximumChunks
    /\ \A i, j \in DOMAIN s : i < j => RankIn(r, s[i]) < RankIn(r, s[j])
    /\ \A c \in Range(s) : c \in Range(r) /\ RankIn(r, c) <= n /\ Length(c) <= MaximumTokens
    /\ \A i \in 1 .. n : r[i] \in Range(s) \/ Length(r[i]) > MaximumTokens

SelectionEnds ==
    /\ seen < Len(results) => Stops(context, results[seen + 1])
    /\ query = "no_context" <=> context = <<>>

QueryInv ==
    /\ QueryTypes /\ StepsInOrder
    /\ query \in {"select", "selected", "no_context"} => Selects(context, results, seen)
    /\ query \in {"selected", "no_context"} => SelectionEnds

LEMMA LengthsAreNumbers ==
    ASSUME IndexTypes
    PROVE  /\ \A c \in Chunks : Length(c) \in Nat
           /\ Used(<<>>) = 0
           /\ \A s \in Seq(Chunks), c \in Chunks :
                 Used(s) \in Nat /\ Used(Append(s, c)) = Used(s) + Length(c)
<1>1. ASSUME NEW c \in Chunks PROVE Length(c) \in Nat
  <2>1. chunks[c] \in Drafts
      BY DEF IndexTypes, Chunks
  <2>2. chunks[c].pieces \in Seq(Fragments)
      BY <2>1 DEF Drafts
  <2> QED BY <2>2, TokensAreCounted DEF Length
<1>2. Used(<<>>) = 0
  <2> DEFINE t == [i \in DOMAIN <<>> |-> Length(<<>>[i])]
  <2>1. t \in Seq(Nat) /\ Len(t) = 0
      OBVIOUS
  <2> HIDE DEF t
  <2>2. PICK f \in [0 .. Len(t) -> Nat] : f[0] = 0 /\ Total(t) = f[Len(t)]
      BY <2>1, TotalSums
  <2> QED BY <2>1, <2>2 DEF Used, t
<1>3. ASSUME NEW s \in Seq(Chunks), NEW c \in Chunks
      PROVE  Used(s) \in Nat /\ Used(Append(s, c)) = Used(s) + Length(c)
  <2> DEFINE a == Append(s, c)
             t == [i \in DOMAIN s |-> Length(s[i])]
             u == [i \in DOMAIN a |-> Length(a[i])]
  <2>1. DOMAIN s = 1 .. Len(s) /\ Len(s) \in Nat /\ \A i \in 1 .. Len(s) : s[i] \in Chunks
      OBVIOUS
  <2>2. /\ a \in Seq(Chunks) /\ DOMAIN a = 1 .. Len(s) + 1
        /\ a[Len(s) + 1] = c /\ \A i \in 1 .. Len(s) : a[i] = s[i]
      BY <2>1
  <2>3. t \in [1 .. Len(s) -> Nat] /\ \A i \in 1 .. Len(s) : t[i] = Length(s[i])
      BY <1>1, <2>1
  <2>4. Used(s) = Total(t) /\ Used(a) = Total(u)
      BY DEF Used
  <2> HIDE DEF a
  <2>5. /\ u \in [1 .. Len(s) + 1 -> Nat] /\ u[Len(s) + 1] = Length(c)
        /\ \A i \in 1 .. Len(s) : u[i] = t[i]
      BY <1>1, <2>1, <2>2, <2>3
  <2> HIDE DEF t, u
  <2>6. t \in Seq(Nat) /\ Len(t) = Len(s) /\ Length(c) \in Nat
      BY <1>1, <2>1, <2>3
  <2>7. u = Append(t, Length(c))
      BY <2>1, <2>3, <2>5, <2>6
  <2>8. Total(t) \in Nat /\ Total(u) = Total(t) + Length(c)
      BY <2>6, <2>7, TotalIsNatural, TotalAppend
  <2> QED BY <2>4, <2>8 DEF a
<1> QED BY <1>1, <1>2, <1>3

(* One turn of the loop. *)
LEMMA SelectsMore ==
    ASSUME IndexTypes, NEW s, NEW r, NEW n \in Nat, Listing(s), Listing(r), Selects(s, r, n),
           n < Len(r), ~Stops(s, r[n + 1])
    PROVE  LET t == IF Length(r[n + 1]) > MaximumTokens THEN s ELSE Append(s, r[n + 1])
           IN  Listing(t) /\ Selects(t, r, n + 1)
<1> DEFINE c == r[n + 1]
<1>1. /\ s \in Seq(Chunks) /\ IsInjective(s) /\ r \in Seq(Chunks) /\ IsInjective(r)
      /\ Len(r) \in Nat /\ Len(s) \in Nat /\ DOMAIN s = 1 .. Len(s) /\ DOMAIN r = 1 .. Len(r)
    BY DEF Listing
<1>2. n + 1 \in DOMAIN r /\ c \in Chunks
    BY <1>1
<1>3. c \in Range(r) /\ RankIn(r, c) = n + 1
    BY <1>1, <1>2, RankOf DEF Range
<1>4. /\ Length(c) \in Nat /\ Used(s) \in Nat /\ Used(Append(s, c)) = Used(s) + Length(c)
      /\ MaximumTokens \in Nat /\ MaximumChunks \in Nat
    BY <1>1, <1>2, LengthsAreNumbers, RankingSettings
<1>5. \A x \in Range(r) : RankIn(r, x) \in Nat
    BY <1>1, RankOf
<1>6. \A i \in 1 .. n + 1 : i \in 1 .. n \/ i = n + 1
    OBVIOUS
<1> HIDE DEF c
<1>7. CASE Length(c) > MaximumTokens
  <2>1. \A x \in Range(s) : x \in Range(r) /\ RankIn(r, x) <= n + 1 /\ Length(x) <= MaximumTokens
      BY <1>5 DEF Selects
  <2>2. \A i \in 1 .. n + 1 : r[i] \in Range(s) \/ Length(r[i]) > MaximumTokens
      BY <1>6, <1>7 DEF Selects, c
  <2>3. Selects(s, r, n + 1)
      BY <2>1, <2>2 DEF Selects
  <2> QED BY <1>7, <2>3 DEF c
<1>8. CASE ~(Length(c) > MaximumTokens)
  <2> DEFINE t == Append(s, c)
  <2>1. /\ t \in Seq(Chunks) /\ Len(t) = Len(s) + 1 /\ DOMAIN t = 1 .. Len(s) + 1
        /\ t[Len(s) + 1] = c /\ \A i \in 1 .. Len(s) : t[i] = s[i]
      BY <1>1, <1>2 DEF c
  <2>2. Used(t) <= MaximumTokens /\ Len(t) <= MaximumChunks
    <3>1. ~(Len(s) >= MaximumChunks) /\ ~(Used(s) + Length(c) > MaximumTokens)
        BY <1>4, <1>8 DEF Stops, c
    <3> QED BY <1>1, <1>4, <2>1, <3>1
  <2> HIDE DEF t
  <2>3. \A i \in DOMAIN t : i \in 1 .. Len(s) \/ i = Len(s) + 1
      BY <2>1
  <2>4. Range(t) = Range(s) \cup {c}
    <3>1. \A x \in Range(t) : x \in Range(s) \cup {c}
        BY <1>1, <2>1, <2>3 DEF Range
    <3>2. \A x \in Range(s) : x \in Range(t)
        BY <1>1, <2>1 DEF Range
    <3>3. c \in Range(t)
      <4>1. Len(s) + 1 \in DOMAIN t
          BY <1>1, <2>1
      <4> QED BY <2>1, <4>1 DEF Range
    <3> QED BY <3>1, <3>2, <3>3
  <2>5. \A i \in 1 .. Len(s) : s[i] \in Range(s) /\ s[i] \in Range(r) /\ RankIn(r, s[i]) <= n
    <3>1. \A i \in 1 .. Len(s) : s[i] \in Range(s)
        BY <1>1 DEF Range
    <3> QED BY <3>1 DEF Selects
  <2>6. IsInjective(t)
    <3> SUFFICES ASSUME NEW i \in DOMAIN t, NEW j \in DOMAIN t, t[i] = t[j] PROVE i = j
        BY DEF IsInjective
    <3>1. \A k \in 1 .. Len(s) : t[k] # c
        BY <1>3, <2>1, <2>5
    <3>2. CASE i \in 1 .. Len(s) /\ j \in 1 .. Len(s)
        BY <1>1, <2>1, <3>2 DEF IsInjective
    <3> QED BY <2>1, <2>3, <3>1, <3>2
  <2>7. ASSUME NEW i \in DOMAIN t, NEW j \in DOMAIN t, i < j
        PROVE  RankIn(r, t[i]) < RankIn(r, t[j])
    <3>1. i \in 1 .. Len(s)
        BY <1>1, <2>1, <2>7
    <3>2. CASE j \in 1 .. Len(s)
        BY <1>1, <2>1, <2>7, <3>1, <3>2 DEF Selects
    <3>3. CASE j = Len(s) + 1
        BY <1>3, <1>5, <2>1, <2>5, <3>1, <3>3
    <3> QED BY <2>3, <3>2, <3>3
  <2>8. ASSUME NEW x \in Range(t)
        PROVE  x \in Range(r) /\ RankIn(r, x) <= n + 1 /\ Length(x) <= MaximumTokens
    <3>1. CASE x \in Range(s)
        BY <1>5, <3>1 DEF Selects
    <3>2. CASE x = c
        BY <1>3, <1>4, <1>8, <3>2
    <3> QED BY <2>4, <3>1, <3>2
  <2>9. \A i \in 1 .. n + 1 : r[i] \in Range(t) \/ Length(r[i]) > MaximumTokens
      BY <1>6, <2>4 DEF Selects, c
  <2>10. Listing(t) /\ Selects(t, r, n + 1)
      BY <2>1, <2>2, <2>6, <2>7, <2>8, <2>9 DEF Listing, Selects
  <2> QED BY <1>8, <2>10 DEF c, t
<1> QED BY <1>7, <1>8

-----------------------------------------------------------------------------
(* The query keeps its invariant.                                            *)
Inv == IndexInv /\ QueryInv

LEMMA EmptyListing == Listing(<<>>) /\ Range(<<>>) = {} /\ Len(<<>>) = 0
<1>1. <<>> \in Seq(Chunks) /\ DOMAIN <<>> = {} /\ Len(<<>>) = 0
    OBVIOUS
<1> QED BY <1>1 DEF Listing, IsInjective, Range

LEMMA IndexStaysWhole == UNCHANGED chunks => Chunks' = Chunks
BY DEF Chunks

LEMMA FusedStays == UNCHANGED <<vector, keyword>> => Fused' = Fused
BY DEF Fused, Met, Better, Score, Share, MetAt

LEMMA QueryBegins == Init => QueryInv
<1> SUFFICES ASSUME Init PROVE QueryInv
    OBVIOUS
<1>1. /\ query = "idle" /\ vector = <<>> /\ keyword = <<>> /\ limit = 0
      /\ fused = <<>> /\ results = <<>> /\ seen = 0 /\ context = <<>>
    BY DEF Init
<1>2. QueryTypes
    BY <1>1, EmptyListing, RankingSettings DEF QueryTypes, QuerySteps
<1>3. StepsInOrder
    BY <1>1 DEF StepsInOrder
<1> QED BY <1>1, <1>2, <1>3 DEF QueryInv

LEMMA IndexingKeepsQuery == Inv /\ IndexingNext /\ UNCHANGED querying => QueryInv'
<1> SUFFICES ASSUME Inv, IndexingNext, UNCHANGED querying PROVE QueryInv'
    OBVIOUS
<1>1. stage # "indexed"
    BY DEF IndexingNext, Extract, ExtractFails, Cut, EndSplit, Pack, Close, Embed
<1>2. query = "idle" /\ UNCHANGED <<query, vector, keyword, limit, fused, results, seen, context>>
    BY <1>1 DEF Inv, QueryInv, StepsInOrder, querying
<1>3. /\ vector = <<>> /\ keyword = <<>> /\ fused = <<>> /\ results = <<>> /\ seen = 0
      /\ context = <<>> /\ limit \in Limits \cup {0}
    BY <1>2 DEF Inv, QueryInv, StepsInOrder, QueryTypes
<1>4. \A s \in {vector', keyword', fused', results', context'} : s = <<>>
    BY <1>2, <1>3
<1>5. Listing(<<>>)'
    BY EmptyListing DEF Listing, Chunks, IsInjective
<1>6. QueryTypes'
    BY <1>2, <1>3, <1>4, <1>5, EmptyListing, RankingSettings DEF QueryTypes, QuerySteps
<1>7. StepsInOrder'
    BY <1>2, <1>3 DEF StepsInOrder
<1> QED BY <1>2, <1>6, <1>7 DEF QueryInv

LEMMA SearchKeeps == Inv /\ Search => QueryInv'
<1> SUFFICES ASSUME Inv, Search PROVE QueryInv'
    OBVIOUS
<1>1. /\ stage' = "indexed" /\ query = "idle" /\ query' = "fuse" /\ limit' \in Limits
      /\ vector' \in Rankings /\ keyword' \in Rankings
      /\ UNCHANGED <<chunks, fused, results, seen, context>>
    BY DEF Search, indexing
<1>2. fused = <<>> /\ results = <<>> /\ seen = 0 /\ context = <<>>
    BY <1>1 DEF Inv, QueryInv, StepsInOrder
<1>3. Chunks' = Chunks
    BY <1>1, IndexStaysWhole
<1>4. ASSUME NEW s \in Rankings PROVE Listing(s) /\ Len(s) <= Candidates
  <2>1. PICK n \in 0 .. Candidates : s \in [1 .. n -> Chunks] /\ IsInjective(s)
      BY DEF Rankings
  <2>2. s \in Seq(Chunks) /\ Len(s) = n
      BY <2>1
  <2> QED BY <2>1, <2>2, RankingSettings DEF Listing
<1>5. \A s \in {vector', keyword', fused', results', context'} : Listing(s)
    BY <1>1, <1>2, <1>4, EmptyListing
<1>6. QueryTypes'
    BY <1>1, <1>2, <1>3, <1>4, <1>5 DEF QueryTypes, QuerySteps, Listing
<1>7. StepsInOrder'
    BY <1>1, <1>2 DEF StepsInOrder
<1> QED BY <1>1, <1>6, <1>7 DEF QueryInv

LEMMA FuseKeeps == Inv /\ Fuse => QueryInv'
<1> SUFFICES ASSUME Inv, Fuse PROVE QueryInv'
    OBVIOUS
<1>1. /\ query = "fuse" /\ query' = "answer" /\ fused' = Fused /\ results' = Given(Fused)
      /\ UNCHANGED <<stage, chunks, vector, keyword, limit, seen, context>>
    BY DEF Fuse, Given, indexing
<1>2. /\ context = <<>> /\ seen = 0 /\ stage = "indexed" /\ limit \in Limits
      /\ Listing(vector) /\ Listing(keyword) /\ Len(vector) <= Candidates /\ Len(keyword) <= Candidates
    BY <1>1 DEF Inv, QueryInv, StepsInOrder, QueryTypes
<1>3. limit \in Nat
    BY <1>2, RankingSettings
<1>4. Listing(Fused)
    BY <1>2, FusedInOrder
<1>5. Listing(Given(Fused))
    BY <1>3, <1>4, ResultsOfFused
<1>6. Chunks' = Chunks
    BY <1>1, IndexStaysWhole
<1>7. \A s \in {vector', keyword', fused', results', context'} : Listing(s)
    BY <1>1, <1>2, <1>4, <1>5, EmptyListing
<1>8. seen' = 0 /\ Len(results') \in Nat
    BY <1>1, <1>2, <1>5 DEF Listing
<1>9. QueryTypes'
    BY <1>1, <1>2, <1>6, <1>7, <1>8 DEF QueryTypes, QuerySteps, Listing
<1>10. Fused' = Fused /\ Given(Fused)' = Given(Fused)
  <2>1. Fused' = Fused
      BY <1>1, FusedStays
  <2> QED BY <1>1, <2>1 DEF Given, Distinct, IsFirst, Content
<1>11. StepsInOrder'
    BY <1>1, <1>2, <1>10 DEF StepsInOrder
<1> QED BY <1>1, <1>9, <1>11 DEF QueryInv

(* The steps that answer from the results leave them as they are. *)
LEMMA ResultsStay ==
    ASSUME Inv, UNCHANGED <<stage, chunks, vector, keyword, limit, fused, results>>,
           query \notin {"idle", "fuse"}, query' \in QuerySteps \ {"idle", "fuse"},
           seen' \in 0 .. Len(results), Listing(context'),
           query' = "answer" => context' = <<>> /\ seen' = 0
    PROVE  QueryTypes' /\ StepsInOrder'
<1>1. Chunks' = Chunks
    BY IndexStaysWhole
<1>2. \A s \in {vector', keyword', fused', results', context'} : Listing(s)
    BY DEF Inv, QueryInv, QueryTypes
<1>3. QueryTypes'
    BY <1>1, <1>2 DEF Inv, QueryInv, QueryTypes, Listing
<1>4. Fused' = Fused /\ Given(Fused)' = Given(Fused)
  <2>1. Fused' = Fused
      BY FusedStays
  <2> QED BY <2>1 DEF Given, Distinct, IsFirst, Content
<1>5. StepsInOrder'
    BY <1>4 DEF Inv, QueryInv, StepsInOrder
<1> QED BY <1>3, <1>5

LEMMA AnswerKeeps == Inv /\ Answer => QueryInv'
<1> SUFFICES ASSUME Inv, Answer PROVE QueryInv'
    OBVIOUS
<1>1. /\ query = "answer" /\ query' \in {"abstained", "select"}
      /\ UNCHANGED <<stage, chunks, vector, keyword, limit, fused, results, seen, context>>
    BY DEF Answer, indexing
<1>2. context = <<>> /\ seen = 0 /\ seen \in 0 .. Len(results) /\ Listing(context) /\ IndexTypes
    BY <1>1 DEF Inv, IndexInv, QueryInv, StepsInOrder, QueryTypes
<1>3. QueryTypes' /\ StepsInOrder'
    BY <1>1, <1>2, ResultsStay DEF QuerySteps
<1>4. Selects(<<>>, results, 0)
  <2>1. Used(<<>>) = 0 /\ MaximumTokens \in Nat /\ MaximumChunks \in Nat
      BY <1>2, LengthsAreNumbers, RankingSettings
  <2>2. DOMAIN <<>> = {} /\ 1 .. 0 = {}
      OBVIOUS
  <2> QED BY <2>1, <2>2, EmptyListing DEF Selects
<1>5. Selects(context, results, seen)'
    BY <1>1, <1>2, <1>4 DEF Selects, Used, Length
<1> QED BY <1>1, <1>3, <1>5 DEF QueryInv

LEMMA SelectKeeps == Inv /\ Select => QueryInv'
<1> SUFFICES ASSUME Inv, Select PROVE QueryInv'
    OBVIOUS
<1>1. /\ query = "select" /\ query' = "select" /\ seen < Len(results) /\ seen' = seen + 1
      /\ ~Stops(context, results[seen + 1])
      /\ context' = IF Length(results[seen + 1]) > MaximumTokens THEN context
                    ELSE Append(context, results[seen + 1])
      /\ UNCHANGED <<stage, chunks, vector, keyword, limit, fused, results>>
    BY DEF Select, indexing
<1>2. /\ Listing(context) /\ Listing(results) /\ seen \in 0 .. Len(results) /\ IndexTypes
      /\ Selects(context, results, seen)
    BY <1>1 DEF Inv, IndexInv, QueryInv, QueryTypes
<1>3. Len(results) \in Nat /\ seen \in Nat /\ seen' \in 0 .. Len(results)
    BY <1>1, <1>2 DEF Listing
<1>4. Listing(context') /\ Selects(context', results, seen + 1)
    BY <1>1, <1>2, <1>3, SelectsMore
<1>5. QueryTypes' /\ StepsInOrder'
    BY <1>1, <1>3, <1>4, ResultsStay DEF QuerySteps
<1>6. Selects(context, results, seen)'
    BY <1>1, <1>4 DEF Selects, Used, Length
<1> QED BY <1>1, <1>5, <1>6 DEF QueryInv

LEMMA EndSelectKeeps == Inv /\ EndSelect => QueryInv'
<1> SUFFICES ASSUME Inv, EndSelect PROVE QueryInv'
    OBVIOUS
<1>1. /\ query = "select" /\ (seen < Len(results) => Stops(context, results[seen + 1]))
      /\ query' = IF context = <<>> THEN "no_context" ELSE "selected"
      /\ UNCHANGED <<stage, chunks, vector, keyword, limit, fused, results, seen, context>>
    BY DEF EndSelect, indexing
<1>2. Listing(context) /\ seen \in 0 .. Len(results) /\ Selects(context, results, seen)
    BY <1>1 DEF Inv, QueryInv, QueryTypes
<1>3. QueryTypes' /\ StepsInOrder'
    BY <1>1, <1>2, ResultsStay DEF QuerySteps
<1>4. Selects(context, results, seen)'
    BY <1>1, <1>2 DEF Selects, Used, Length
<1>5. SelectionEnds'
    BY <1>1 DEF SelectionEnds, Stops, Used, Length
<1> QED BY <1>1, <1>3, <1>4, <1>5 DEF QueryInv

LEMMA JudgeKeeps == Inv /\ Judge => QueryInv'
<1> SUFFICES ASSUME Inv, Judge PROVE QueryInv'
    OBVIOUS
<1>1. /\ query = "answer" /\ query' \in {"abstained", "judged"}
      /\ UNCHANGED <<stage, chunks, vector, keyword, limit, fused, results, seen>>
      /\ \E S \in SUBSET Range(results) : context' = Among(results, S)
  <2>1. PICK n \in 0 .. Len(vector) :
              context' = Among(results, {c \in Range(results) : Length(c) >= MinimumTokens /\ Related(c, n)})
      BY DEF Judge
  <2>2. {c \in Range(results) : Length(c) >= MinimumTokens /\ Related(c, n)} \in SUBSET Range(results)
      OBVIOUS
  <2>3. \E S \in SUBSET Range(results) : context' = Among(results, S)
      BY <2>1, <2>2
  <2> QED BY <2>3 DEF Judge, indexing
<1>2. /\ Listing(results) /\ seen \in 0 .. Len(results)
    BY <1>1 DEF Inv, QueryInv, QueryTypes
<1>3. Listing(context')
  <2>1. PICK S \in SUBSET Range(results) : context' = Among(results, S)
      BY <1>1
  <2>2. results \in Seq(Chunks) /\ IsInjective(results) /\ S \in SUBSET Chunks
      BY <1>2 DEF Listing, Range
  <2>3. Lists(Among(results, S), S)
      BY <2>2, AmongKeepsOrder
  <2>4. context' \in Seq(S) /\ IsInjective(context')
      BY <2>1, <2>3 DEF Lists
  <2>5. context' \in Seq(Chunks)
      BY <2>2, <2>4, SeqMonotonic
  <2> QED BY <2>4, <2>5 DEF Listing
<1>4. QueryTypes' /\ StepsInOrder'
    BY <1>1, <1>2, <1>3, ResultsStay DEF QuerySteps
<1> QED BY <1>1, <1>4 DEF QueryInv

LEMMA QueryStays == Inv /\ UNCHANGED vars => QueryInv'
<1> SUFFICES ASSUME Inv, UNCHANGED vars PROVE QueryInv'
    OBVIOUS
<1>1. UNCHANGED <<stage, chunks, query, vector, keyword, limit, fused, results, seen, context>>
    BY DEF vars, indexing, querying
<1>2. Chunks' = Chunks
    BY <1>1, IndexStaysWhole
<1>3. QueryTypes'
    BY <1>1, <1>2 DEF Inv, QueryInv, QueryTypes, Listing
<1>4. Fused' = Fused /\ Given(Fused)' = Given(Fused)
  <2>1. Fused' = Fused
      BY <1>1, FusedStays
  <2> QED BY <1>1, <2>1 DEF Given, Distinct, IsFirst, Content
<1>5. StepsInOrder'
    BY <1>1, <1>4 DEF Inv, QueryInv, StepsInOrder
<1>6. query \in {"select", "selected", "no_context"} => Selects(context, results, seen)'
    BY <1>1 DEF Inv, QueryInv, Selects, Used, Length
<1>7. query \in {"selected", "no_context"} => SelectionEnds'
    BY <1>1 DEF Inv, QueryInv, SelectionEnds, Stops, Used, Length
<1> QED BY <1>1, <1>3, <1>5, <1>6, <1>7 DEF QueryInv

(* The chunks cover what is packed of the document, in its order, while they *)
(* are built; then the request holds its rankings and the passages selected  *)
(* from the results so far (chunking.py, fusion.py, context_selection.py).   *)
THEOREM InductiveInvariant == Spec => []Inv
<1>1. Init => Inv
    BY IndexBegins, QueryBegins DEF Init, Inv
<1>2. Inv /\ [Next]_vars => Inv'
  <2> SUFFICES ASSUME Inv, [Next]_vars PROVE Inv'
      OBVIOUS
  <2>1. CASE IndexingNext /\ UNCHANGED querying
      BY <2>1, IndexStep, IndexingKeepsQuery DEF Inv
  <2>2. CASE Search
      BY <2>2, IndexStays, SearchKeeps DEF Inv, Search
  <2>3. CASE Fuse
      BY <2>3, IndexStays, FuseKeeps DEF Inv, Fuse
  <2>4. CASE Answer
      BY <2>4, IndexStays, AnswerKeeps DEF Inv, Answer
  <2>5. CASE Select
      BY <2>5, IndexStays, SelectKeeps DEF Inv, Select
  <2>6. CASE EndSelect
      BY <2>6, IndexStays, EndSelectKeeps DEF Inv, EndSelect
  <2>7. CASE Judge
      BY <2>7, IndexStays, JudgeKeeps DEF Inv, Judge
  <2>8. CASE UNCHANGED vars
      BY <2>8, IndexStays, QueryStays DEF Inv, vars
  <2> QED BY <2>1, <2>2, <2>3, <2>4, <2>5, <2>6, <2>7, <2>8 DEF Next
<1> QED BY <1>1, <1>2, PTL DEF Spec

-----------------------------------------------------------------------------
(* The properties. *)

(* Every variable has its type, and no ranking repeats a chunk (Ranking.tla). *)
THEOREM TypeSafety == Spec => []TypeOK
<1>1. Inv => TypeOK
  <2> SUFFICES ASSUME Inv PROVE TypeOK
      OBVIOUS
  <2>1. /\ source \in Sources /\ stage \in Stages /\ next \in 0 .. Len(fragments)
        /\ fragments \in Seq(Fragments) /\ origin \in Seq(Origins) /\ Len(origin) = Len(fragments)
      BY DEF Inv, IndexInv, IndexTypes
  <2>2. DOMAIN origin = DOMAIN fragments /\ \A i \in DOMAIN fragments : fragments[i].text \in Texts \ {Blank}
    <3>1. \A i \in DOMAIN fragments : fragments[i] \in Fragments
        BY <2>1
    <3> QED BY <2>1, <3>1 DEF Fragments
  <2>3. query \in QuerySteps /\ limit \in Limits \cup {0} /\ seen \in 0 .. Len(results)
      BY DEF Inv, QueryInv, QueryTypes
  <2>4. \A s \in {vector, keyword, fused, results, context} : IsInjective(s) /\ Range(s) \subseteq Chunks
    <3>1. \A s \in {vector, keyword, fused, results, context} : Listing(s)
        BY DEF Inv, QueryInv, QueryTypes
    <3>2. \A s \in Seq(Chunks) : Range(s) \subseteq Chunks
        BY DEF Range
    <3> QED BY <3>1, <3>2 DEF Listing
  <2> QED BY <2>1, <2>2, <2>3, <2>4 DEF TypeOK
<1> QED BY <1>1, InductiveInvariant, PTL

(* Every token of what has been split is in a fragment or in white space, and *)
(* the fragments are in the order of the text, none cut longer than the       *)
(* target (chunking.py _build_fragments).                                     *)
THEOREM TextSafety == Spec => []FragmentsCoverTheText
<1>1. Inv => FragmentsCoverTheText
    BY TextIsCovered DEF Inv
<1> QED BY <1>1, InductiveInvariant, PTL

(* The chunks hold every fragment once, in order; none is longer than the     *)
(* maximum but a single fragment cut from a longer paragraph; and what one    *)
(* repeats is the end of the chunk before (chunking.py chunk).                *)
THEOREM CoverSafety == Spec => []ChunksCoverTheDocument
<1>1. Inv => ChunksCoverTheDocument
    BY IndexIsCovered DEF Inv
<1> QED BY <1>1, InductiveInvariant, PTL

(* Scores of two searches. *)
LEMMA BothBeatOne ==
    ASSUME Listing(vector), Len(vector) <= Candidates, Listing(keyword), Len(keyword) <= Candidates,
           Candidates <= K, NEW c, NEW d,
           c \in Range(vector), c \in Range(keyword), d \notin Range(vector) \/ d \notin Range(keyword)
    PROVE  Score(c) > Score(d)
<1> DEFINE a1 == Share(vector, c)
           a2 == Share(keyword, c)
           b1 == Share(vector, d)
           b2 == Share(keyword, d)
<1>1. a1 \in Nat /\ a2 \in Nat /\ b1 \in Nat /\ b2 \in Nat /\ a1 > 0 /\ a2 > 0
    BY ShareOfChunk
<1>2. Score(c) = a1 + a2 /\ Score(d) = b1 + b2
    BY DEF Score
<1>3. ASSUME NEW s \in {vector, keyword}, d \in Range(s) PROVE 2 * a1 > Share(s, d) /\ 2 * a2 > Share(s, d)
  <2>1. /\ RankIn(s, d) \in 1 .. Candidates /\ Share(s, d) = Scale \div (K + RankIn(s, d))
        /\ RankIn(vector, c) \in 1 .. Candidates /\ a1 = Scale \div (K + RankIn(vector, c))
        /\ RankIn(keyword, c) \in 1 .. Candidates /\ a2 = Scale \div (K + RankIn(keyword, c))
      BY <1>3, ShareOfChunk
  <2>2. 2 * (Scale \div (K + RankIn(vector, c))) > Scale \div (K + RankIn(s, d))
      BY <2>1, HalfScore
  <2>3. 2 * (Scale \div (K + RankIn(keyword, c))) > Scale \div (K + RankIn(s, d))
      BY <2>1, HalfScore
  <2> HIDE DEF a1, a2
  <2> QED BY <2>1, <2>2, <2>3
<1>4. d \notin Range(vector) => b1 = 0
    BY DEF Share
<1>5. d \notin Range(keyword) => b2 = 0
    BY DEF Share
<1>6. d \in Range(vector) => 2 * a1 > b1 /\ 2 * a2 > b1
    BY <1>3
<1>7. d \in Range(keyword) => 2 * a1 > b2 /\ 2 * a2 > b2
    BY <1>3
<1> HIDE DEF a1, a2, b1, b2
<1>8. a1 + a2 > b1 + b2
  <2>1. CASE d \notin Range(vector)
      BY <1>1, <1>4, <1>5, <1>7, <2>1
  <2>2. CASE d \notin Range(keyword)
      BY <1>1, <1>4, <1>5, <1>6, <2>2
  <2> QED BY <2>1, <2>2
<1> QED BY <1>2, <1>8

LEMMA AheadBeatsBehind ==
    ASSUME Listing(vector), Len(vector) <= Candidates, Listing(keyword), Len(keyword) <= Candidates,
           NEW c, NEW d, Ahead(vector, c, d) \/ Ahead(keyword, c, d),
           Ahead(vector, c, d) \/ Level(vector, c, d), Ahead(keyword, c, d) \/ Level(keyword, c, d)
    PROVE  Score(c) > Score(d)
<1> DEFINE a1 == Share(vector, c)
           a2 == Share(keyword, c)
           b1 == Share(vector, d)
           b2 == Share(keyword, d)
<1>1. a1 \in Nat /\ a2 \in Nat /\ b1 \in Nat /\ b2 \in Nat
    BY ShareOfChunk
<1>2. Score(c) = a1 + a2 /\ Score(d) = b1 + b2
    BY DEF Score
<1>3. /\ Ahead(vector, c, d) => a1 > b1
      /\ Level(vector, c, d) => a1 = b1
    BY ShareOfChunk
<1>4. /\ Ahead(keyword, c, d) => a2 > b2
      /\ Level(keyword, c, d) => a2 = b2
    BY ShareOfChunk
<1> HIDE DEF a1, a2, b1, b2
<1>5. a1 + a2 > b1 + b2
    BY <1>1, <1>3, <1>4
<1> QED BY <1>2, <1>5

(* Some chunk of a content is the first of it. *)
LEMMA FirstExists ==
    ASSUME NEW s, Listing(s), NEW c \in Range(s)
    PROVE  \E d \in Range(s) : Content(d) = Content(c) /\ IsFirst(s, d) /\ RankIn(s, d) <= RankIn(s, c)
<1> DEFINE S == {x \in Range(s) : Content(x) = Content(c)}
           N == {RankIn(s, x) : x \in S}
<1>1. \A x \in Range(s) : RankIn(s, x) \in Nat
    BY RankOf DEF Listing
<1>2. N \in SUBSET Nat /\ N # {}
  <2>1. c \in S
      OBVIOUS
  <2> QED BY <1>1, <2>1
<1>3. PICK n \in N : \A m \in N : n <= m
  <2> HIDE DEF N
  <2> QED BY <1>2, LeastNumber
<1>4. PICK d \in S : n = RankIn(s, d)
    BY <1>3
<1>5. \A x \in S : RankIn(s, d) <= RankIn(s, x)
    BY <1>3, <1>4
<1>6. IsFirst(s, d)
    BY <1>4, <1>5 DEF IsFirst
<1>7. RankIn(s, d) <= RankIn(s, c)
    BY <1>5
<1> QED BY <1>4, <1>6, <1>7

(* The fused ranking keeps what the searches agree on, and its results have   *)
(* the best chunk of every content but those after the limit (fusion.py,      *)
(* retrieval/service.py search).                                              *)
THEOREM RankingSafety == Spec => []BestPassagesFirst
<1>1. Inv => BestPassagesFirst
  <2> SUFFICES ASSUME Inv, query \notin {"idle", "fuse"}
               PROVE
        /\ Range(fused) = Range(vector) \cup Range(keyword)
        /\ \A c, d \in Range(fused) :
              /\ Ahead(vector, c, d) \/ Ahead(keyword, c, d)
              /\ \A s \in {vector, keyword} : Ahead(s, c, d) \/ Level(s, c, d)
              => RankIn(fused, c) < RankIn(fused, d)
        /\ LET both == Range(vector) \cap Range(keyword)
           IN  Candidates <= K =>
                   \A c \in both, d \in Range(fused) \ both : RankIn(fused, c) < RankIn(fused, d)
        /\ \A c, d \in Range(results) : Content(c) = Content(d) => c = d
        /\ \A c \in Range(fused) :
              \/ \E d \in Range(results) :
                    Content(d) = Content(c) /\ RankIn(fused, d) <= RankIn(fused, c)
              \/ /\ Len(results) = limit
                 /\ \A d \in Range(results) : RankIn(fused, d) < RankIn(fused, c)
      BY DEF BestPassagesFirst
  <2>1. /\ Listing(vector) /\ Len(vector) <= Candidates /\ Listing(keyword) /\ Len(keyword) <= Candidates
        /\ fused = Fused /\ results = Given(fused) /\ limit \in Limits /\ Listing(fused)
      BY DEF Inv, QueryInv, QueryTypes, StepsInOrder
  <2>2. limit \in Nat
      BY <2>1, RankingSettings
  <2>3. /\ Range(fused) = Met
        /\ \A c, d \in Met : Score(c) > Score(d) => RankIn(fused, c) < RankIn(fused, d)
      BY <2>1, FusedInOrder DEF Lists
  <2>4. /\ Range(results) \in SUBSET Range(fused)
        /\ \A c \in Range(results) : IsFirst(fused, c)
        /\ \A c \in Range(fused) : IsFirst(fused, c) =>
              \/ c \in Range(results)
              \/ /\ Len(results) = limit
                 /\ \A d \in Range(results) : RankIn(fused, d) < RankIn(fused, c)
      BY <2>1, <2>2, ResultsOfFused
  <2>5. /\ \A c \in Range(fused) : RankIn(fused, c) \in Nat
        /\ \A c, d \in Range(fused) : RankIn(fused, c) = RankIn(fused, d) => c = d
    <3>1. fused \in Seq(Chunks) /\ IsInjective(fused)
        BY <2>1 DEF Listing
    <3>2. \A c \in Range(fused) : RankIn(fused, c) \in Nat /\ fused[RankIn(fused, c)] = c
        BY <3>1, RankOf
    <3> QED BY <3>2
  <2>6. Range(fused) = Range(vector) \cup Range(keyword)
      BY <2>3 DEF Met
  <2>7. ASSUME NEW c \in Range(fused), NEW d \in Range(fused),
               Ahead(vector, c, d) \/ Ahead(keyword, c, d),
               \A s \in {vector, keyword} : Ahead(s, c, d) \/ Level(s, c, d)
        PROVE  RankIn(fused, c) < RankIn(fused, d)
    <3>1. Score(c) > Score(d)
        BY <2>1, <2>7, AheadBeatsBehind
    <3> QED BY <2>3, <3>1
  <2>8. ASSUME Candidates <= K, NEW c \in Range(vector) \cap Range(keyword),
               NEW d \in Range(fused) \ (Range(vector) \cap Range(keyword))
        PROVE  RankIn(fused, c) < RankIn(fused, d)
    <3>1. Score(c) > Score(d)
        BY <2>1, <2>8, BothBeatOne
    <3> QED BY <2>3, <2>6, <3>1
  <2>9. ASSUME NEW c \in Range(results), NEW d \in Range(results), Content(c) = Content(d)
        PROVE  c = d
    <3>1. c \in Range(fused) /\ d \in Range(fused)
        BY <2>4
    <3>2. RankIn(fused, c) <= RankIn(fused, d) /\ RankIn(fused, d) <= RankIn(fused, c)
        BY <2>4, <2>9, <3>1 DEF IsFirst
    <3>3. RankIn(fused, c) \in Nat /\ RankIn(fused, d) \in Nat
        BY <2>5, <3>1
    <3> QED BY <2>5, <3>1, <3>2, <3>3
  <2>10. ASSUME NEW c \in Range(fused)
         PROVE  \/ \E d \in Range(results) :
                      Content(d) = Content(c) /\ RankIn(fused, d) <= RankIn(fused, c)
                \/ /\ Len(results) = limit
                   /\ \A d \in Range(results) : RankIn(fused, d) < RankIn(fused, c)
    <3>1. PICK e \in Range(fused) :
                Content(e) = Content(c) /\ IsFirst(fused, e) /\ RankIn(fused, e) <= RankIn(fused, c)
        BY <2>1, FirstExists
    <3>2. CASE e \in Range(results)
        BY <3>1, <3>2
    <3>3. CASE Len(results) = limit /\ \A d \in Range(results) : RankIn(fused, d) < RankIn(fused, e)
      <4>1. ASSUME NEW d \in Range(results) PROVE RankIn(fused, d) < RankIn(fused, c)
        <5>1. d \in Range(fused)
            BY <2>4
        <5>2. RankIn(fused, d) \in Nat /\ RankIn(fused, e) \in Nat /\ RankIn(fused, c) \in Nat
            BY <2>5, <5>1
        <5>3. RankIn(fused, d) < RankIn(fused, e) /\ RankIn(fused, e) <= RankIn(fused, c)
            BY <3>1, <3>3
        <5> QED BY <5>2, <5>3
      <4> QED BY <3>3, <4>1
    <3> QED BY <2>4, <3>1, <3>2, <3>3
  <2> QED BY <2>6, <2>7, <2>8, <2>9, <2>10
<1> QED BY <1>1, InductiveInvariant, PTL

(* The context is within its budget, in the order of the results, and leaves  *)
(* out what fits only for want of room (context_selection.py select).         *)
THEOREM ContextSafety == Spec => []ContextFitsTheBudget
<1>1. Inv => ContextFitsTheBudget
  <2> SUFFICES ASSUME Inv, query \in {"selected", "no_context"}
               PROVE
        /\ Used(context) <= MaximumTokens /\ Len(context) <= MaximumChunks
        /\ Range(context) \subseteq Range(results)
        /\ \A i, j \in DOMAIN context :
              i < j => RankIn(results, context[i]) < RankIn(results, context[j])
        /\ query = "no_context" <=> \A c \in Range(results) : Length(c) > MaximumTokens
        /\ \A c \in Range(results) \ Range(context) :
              \/ Length(c) > MaximumTokens \/ Len(context) = MaximumChunks
              \/ \E d \in Range(results) :
                    /\ RankIn(results, d) <= RankIn(results, c)
                    /\ Length(d) <= MaximumTokens /\ Used(context) + Length(d) > MaximumTokens
      BY DEF ContextFitsTheBudget
  <2>1. /\ Listing(results) /\ Listing(context) /\ seen \in 0 .. Len(results) /\ IndexTypes
        /\ Selects(context, results, seen) /\ SelectionEnds
      BY DEF Inv, IndexInv, QueryInv, QueryTypes
  <2>2. /\ results \in Seq(Chunks) /\ IsInjective(results) /\ context \in Seq(Chunks)
        /\ Len(results) \in Nat /\ Len(context) \in Nat /\ seen \in Nat
        /\ DOMAIN results = 1 .. Len(results)
      BY <2>1 DEF Listing
  <2>3. \A c \in Range(results) :
            RankIn(results, c) \in 1 .. Len(results) /\ results[RankIn(results, c)] = c /\ Length(c) \in Nat
    <3>1. \A c \in Range(results) : c \in Chunks
        BY <2>2 DEF Range
    <3> QED BY <2>1, <2>2, <3>1, RankOf, LengthsAreNumbers
  <2>4. MaximumTokens \in Nat /\ MaximumChunks \in Nat \ {0} /\ Used(<<>>) = 0
      BY <2>1, LengthsAreNumbers, RankingSettings
  <2>5. \A c \in Range(results) : RankIn(results, c) <= seen => c \in Range(context) \/ Length(c) > MaximumTokens
    <3> SUFFICES ASSUME NEW c \in Range(results), RankIn(results, c) <= seen
                 PROVE  c \in Range(context) \/ Length(c) > MaximumTokens
        OBVIOUS
    <3>1. RankIn(results, c) \in 1 .. seen /\ results[RankIn(results, c)] = c
        BY <2>2, <2>3
    <3> QED BY <2>1, <3>1 DEF Selects
  <2>6. ASSUME seen < Len(results)
        PROVE  LET d == results[seen + 1]
               IN  /\ d \in Range(results) /\ RankIn(results, d) = seen + 1
                   /\ \/ Len(context) >= MaximumChunks
                      \/ Length(d) <= MaximumTokens /\ Used(context) + Length(d) > MaximumTokens
    <3>1. seen + 1 \in DOMAIN results
        BY <2>2, <2>6
    <3>2. results[seen + 1] \in Range(results) /\ RankIn(results, results[seen + 1]) = seen + 1
        BY <2>2, <3>1, RankOf DEF Range
    <3> QED BY <2>1, <2>6, <3>2 DEF SelectionEnds, Stops
  <2>7. Used(context) <= MaximumTokens /\ Len(context) <= MaximumChunks
      BY <2>1 DEF Selects
  <2>8. \A c \in Range(context) : c \in Range(results) /\ Length(c) <= MaximumTokens
      BY <2>1 DEF Selects
  <2>9. \A i, j \in DOMAIN context : i < j => RankIn(results, context[i]) < RankIn(results, context[j])
      BY <2>1 DEF Selects
  <2>10. query = "no_context" <=> \A c \in Range(results) : Length(c) > MaximumTokens
    <3>1. ASSUME context = <<>>, NEW c \in Range(results) PROVE Length(c) > MaximumTokens
      <4>1. Range(context) = {} /\ Len(context) = 0 /\ Used(context) = 0
          BY <2>4, <3>1, EmptyListing
      <4>2. ~(seen < Len(results))
        <5> SUFFICES ASSUME seen < Len(results) PROVE FALSE
            OBVIOUS
        <5> DEFINE d == results[seen + 1]
        <5>1. /\ d \in Range(results)
              /\ Length(d) <= MaximumTokens /\ Used(context) + Length(d) > MaximumTokens
            BY <2>4, <2>6, <4>1
        <5>2. Length(d) \in Nat
            BY <2>3, <5>1
        <5> HIDE DEF d
        <5> QED BY <2>4, <4>1, <5>1, <5>2
      <4>3. RankIn(results, c) <= seen
          BY <2>2, <2>3, <4>2
      <4> QED BY <2>5, <4>1, <4>3
    <3>2. ASSUME context # <<>> PROVE \E c \in Range(results) : ~(Length(c) > MaximumTokens)
      <4>1. 1 \in DOMAIN context
          BY <2>2, <3>2
      <4>2. context[1] \in Range(context)
          BY <4>1 DEF Range
      <4>3. context[1] \in Range(results) /\ Length(context[1]) <= MaximumTokens
          BY <2>8, <4>2
      <4>4. Length(context[1]) \in Nat
          BY <2>3, <4>3
      <4> QED BY <2>4, <4>3, <4>4
    <3> QED BY <2>1, <3>1, <3>2 DEF SelectionEnds
  <2>11. ASSUME NEW c \in Range(results) \ Range(context)
         PROVE  \/ Length(c) > MaximumTokens \/ Len(context) = MaximumChunks
                \/ \E d \in Range(results) :
                      /\ RankIn(results, d) <= RankIn(results, c)
                      /\ Length(d) <= MaximumTokens /\ Used(context) + Length(d) > MaximumTokens
    <3>1. CASE RankIn(results, c) <= seen
        BY <2>5, <3>1
    <3>2. CASE ~(RankIn(results, c) <= seen)
      <4>1. seen < Len(results) /\ seen + 1 <= RankIn(results, c)
          BY <2>2, <2>3, <3>2
      <4>2. CASE Len(context) >= MaximumChunks
          BY <2>2, <2>4, <2>7, <4>2
      <4>3. CASE ~(Len(context) >= MaximumChunks)
          BY <2>6, <4>1, <4>3
      <4> QED BY <4>2, <4>3
    <3> QED BY <3>1, <3>2
  <2> QED BY <2>7, <2>8, <2>9, <2>10, <2>11
<1> QED BY <1>1, InductiveInvariant, PTL
=============================================================================

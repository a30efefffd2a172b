------------------------------- MODULE Lists -------------------------------
(***************************************************************************)
(* Sums and orders, by definitions that theorems can be proved about.      *)
(***************************************************************************)
EXTENDS Integers, Sequences, FiniteSets, Functions

(* The sum of a list of numbers. *)
Total(s) == LET sum[n \in 0 .. Len(s)] == IF n = 0 THEN 0 ELSE sum[n - 1] + s[n] IN sum[Len(s)]

(* The position of x in s. *)
RankIn(s, x) == CHOOSE i \in DOMAIN s : s[i] = x

(* The members of S as a list; before[x] are those that come before x. *)
InOrder(S, before) == [i \in 1 .. Cardinality(S) |-> CHOOSE x \in S : Cardinality(before[x]) = i - 1]

(* The members of S in the order they have in s. *)
Among(s, S) == InOrder(S, [x \in S |-> {y \in S : RankIn(s, y) < RankIn(s, x)}])

Lesser(a, b) == IF a <= b THEN a ELSE b
=============================================================================

------------------------ MODULE Administration_proofs ------------------------
(***************************************************************************)
(* The listings and the console of the administration, for any rows, page  *)
(* sizes, organizations, runs and numbers of changes and moves.            *)
(***************************************************************************)
EXTENDS Administration, FiniteSetTheorems, WellFoundedInduction, TLAPS

-----------------------------------------------------------------------------
(*                       The order of a listing                            *)

Keyed == key \in [Rows -> Nat]

(* The order of a listing is total: ids decide between equal keys. *)
LEMMA BeforeIsTotal ==
    ASSUME Keyed, NEW r \in Rows, NEW s \in Rows
    PROVE  /\ ~ Before(r, r)
           /\ r # s => Before(r, s) \/ Before(s, r)
           /\ Before(r, s) => ~ Before(s, r)
  BY PagesAssumption DEF Keyed, Before

LEMMA BeforeIsTransitive ==
    ASSUME Keyed, NEW r \in Rows, NEW s \in Rows, NEW t \in Rows,
           Before(r, s), Before(s, t)
    PROVE  Before(r, t)
<1>1. key[r] \in Nat /\ key[s] \in Nat /\ key[t] \in Nat /\ r \in Nat /\ s \in Nat /\ t \in Nat
  BY PagesAssumption DEF Keyed
<1> QED
  BY <1>1 DEF Before

(* Rows are finitely many, so some row of S has the fewest rows of S before *)
(* it, and some row the fewest after it.                                    *)
LEMMA FirstExists ==
    ASSUME Keyed, NEW S \in SUBSET Rows, S # {}
    PROVE  \E m \in S : \A s \in S : s = m \/ Before(m, s)
<1> DEFINE Preceding(r) == {s \in S : Before(s, r)}
           T == {Preceding(r) : r \in S}
<1>1. IsFiniteSet(S)
  BY FS_Subset, PagesAssumption
<1>2. T \subseteq FiniteSubsetsOf(S) /\ T # {}
  <2>1. ASSUME NEW r \in S PROVE Preceding(r) \in FiniteSubsetsOf(S)
    <3>1. Preceding(r) \in SUBSET S
      OBVIOUS
    <3>2. IsFiniteSet(Preceding(r))
      BY <1>1, <3>1, FS_Subset
    <3> QED
      BY <3>1, <3>2 DEF FiniteSubsetsOf
  <2> QED
    BY <2>1
<1>3. PICK P \in T : \A Q \in T : ~ (<<Q, P>> \in StrictSubsetOrdering(S))
  <2>1. IsWellFoundedOn(StrictSubsetOrdering(S), FiniteSubsetsOf(S))
    BY FS_StrictSubsetOrderingWellFounded
  <2> HIDE DEF T
  <2> QED
    BY <1>2, <2>1, WFMin
<1>4. PICK m \in S : P = Preceding(m)
  BY <1>3
<1>5. ASSUME NEW s \in S, Before(s, m) PROVE FALSE
  <2>1. Preceding(s) \subseteq Preceding(m)
    BY <1>5, BeforeIsTransitive
  <2>2. s \in Preceding(m) /\ s \notin Preceding(s)
    BY <1>5, BeforeIsTotal
  <2>3. <<Preceding(s), Preceding(m)>> \in StrictSubsetOrdering(S)
    BY <2>1, <2>2 DEF StrictSubsetOrdering
  <2> QED
    BY <1>3, <1>4, <2>3
<1> QED
  BY <1>5, BeforeIsTotal

LEMMA LastExists ==
    ASSUME Keyed, NEW S \in SUBSET Rows, S # {}
    PROVE  Last(S) \in S /\ \A s \in S : s = Last(S) \/ Before(s, Last(S))
<1> DEFINE Following(r) == {s \in S : Before(r, s)}
           T == {Following(r) : r \in S}
<1>1. IsFiniteSet(S)
  BY FS_Subset, PagesAssumption
<1>2. T \subseteq FiniteSubsetsOf(S) /\ T # {}
  <2>1. ASSUME NEW r \in S PROVE Following(r) \in FiniteSubsetsOf(S)
    <3>1. Following(r) \in SUBSET S
      OBVIOUS
    <3>2. IsFiniteSet(Following(r))
      BY <1>1, <3>1, FS_Subset
    <3> QED
      BY <3>1, <3>2 DEF FiniteSubsetsOf
  <2> QED
    BY <2>1
<1>3. PICK P \in T : \A Q \in T : ~ (<<Q, P>> \in StrictSubsetOrdering(S))
  <2>1. IsWellFoundedOn(StrictSubsetOrdering(S), FiniteSubsetsOf(S))
    BY FS_StrictSubsetOrderingWellFounded
  <2> HIDE DEF T
  <2> QED
    BY <1>2, <2>1, WFMin
<1>4. PICK m \in S : P = Following(m)
  BY <1>3
<1>5. ASSUME NEW s \in S, Before(m, s) PROVE FALSE
  <2>1. Following(s) \subseteq Following(m)
    BY <1>5, BeforeIsTransitive
  <2>2. s \in Following(m) /\ s \notin Following(s)
    BY <1>5, BeforeIsTotal
  <2>3. <<Following(s), Following(m)>> \in StrictSubsetOrdering(S)
    BY <2>1, <2>2 DEF StrictSubsetOrdering
  <2> QED
    BY <1>3, <1>4, <2>3
<1>6. \E r \in S : ~ \E s \in S : Before(r, s)
  BY <1>5
<1>7. Last(S) \in S /\ ~ \E s \in S : Before(Last(S), s)
  BY <1>6 DEF Last
<1> QED
  BY <1>7, BeforeIsTotal

-----------------------------------------------------------------------------
(*                             One page                                    *)

(* What is not among the first n rows comes after all that are. *)
LEMMA FirstIsPrefix ==
    ASSUME Keyed, NEW S \in SUBSET Rows, NEW n \in Nat,
           NEW r \in First(n, S), NEW s \in S \ First(n, S)
    PROVE  Before(r, s)
<1> DEFINE Preceding(t) == {u \in S : Before(u, t)}
<1>1. SUFFICES ASSUME ~ Before(r, s) PROVE FALSE
  OBVIOUS
<1>2. r \in S /\ s \in S /\ r # s
  BY DEF First
<1>3. Before(s, r)
  BY <1>1, <1>2, BeforeIsTotal
<1>4. Preceding(s) \in SUBSET Preceding(r)
  BY <1>2, <1>3, BeforeIsTransitive
<1>5. IsFiniteSet(Preceding(r))
  <2>1. Preceding(r) \in SUBSET Rows
    OBVIOUS
  <2> QED
    BY <2>1, FS_Subset, PagesAssumption
<1>6. /\ Cardinality(Preceding(s)) <= Cardinality(Preceding(r))
      /\ Cardinality(Preceding(r)) \in Nat /\ Cardinality(Preceding(s)) \in Nat
  BY <1>4, <1>5, FS_Subset, FS_CardinalityType
<1>7. Cardinality(Preceding(r)) < n /\ ~ (Cardinality(Preceding(s)) < n)
  BY <1>2 DEF First
<1> HIDE DEF Preceding
<1> QED
  BY <1>6, <1>7

(* If there are at most n of the first n + 1 rows, these are all rows. *)
LEMMA FewRowsAreAll ==
    ASSUME Keyed, NEW S \in SUBSET Rows, NEW n \in Nat,
           ~ (Cardinality(First(n + 1, S)) > n)
    PROVE  First(n + 1, S) = S /\ First(n, S) = S
<1> DEFINE F == First(n + 1, S)
           Preceding(t) == {u \in S : Before(u, t)}
<1>1. F \in SUBSET S /\ F \in SUBSET Rows
  BY DEF First
<1>2. IsFiniteSet(F) /\ Cardinality(F) \in Nat /\ Cardinality(F) <= n
  BY <1>1, FS_Subset, FS_CardinalityType, PagesAssumption
<1>3. F = S
  <2> SUFFICES ASSUME S \ F # {} PROVE FALSE
    BY <1>1
  <2>1. S \ F \in SUBSET Rows
    OBVIOUS
  <2>2. PICK m \in S \ F : \A s \in S \ F : s = m \/ Before(m, s)
    BY <2>1, FirstExists
  <2>3. Preceding(m) \in SUBSET F
    BY <2>2, BeforeIsTotal
  <2>4. Cardinality(Preceding(m)) <= Cardinality(F) /\ Cardinality(Preceding(m)) \in Nat
    BY <1>2, <2>3, FS_Subset, FS_CardinalityType
  <2>5. ~ (Cardinality(Preceding(m)) < n + 1)
    BY DEF First
  <2> HIDE DEF F, Preceding
  <2> QED
    BY <1>2, <2>4, <2>5
<1>4. ASSUME NEW r \in S PROVE r \in First(n, S)
  <2>1. Preceding(r) \in SUBSET S /\ r \notin Preceding(r)
    BY BeforeIsTotal
  <2>2. /\ Cardinality(Preceding(r)) <= Cardinality(S) /\ Cardinality(Preceding(r)) \in Nat
        /\ Cardinality(Preceding(r)) # Cardinality(S)
    BY <1>2, <1>3, <2>1, FS_Subset, FS_CardinalityType
  <2>3. Cardinality(S) \in Nat /\ Cardinality(S) <= n
    BY <1>2, <1>3
  <2>4. Cardinality(Preceding(r)) < n
    <3> HIDE DEF Preceding
    <3> QED
      BY <2>2, <2>3
  <2> QED
    BY <2>4 DEF First
<1> QED
  BY <1>3, <1>4 DEF First

(* The first page of rows that exist is not empty. *)
LEMMA FirstIsNotEmpty ==
    ASSUME Keyed, NEW S \in SUBSET Rows, S # {}, NEW n \in Nat \ {0}
    PROVE  First(n, S) # {}
<1>1. PICK m \in S : \A s \in S : s = m \/ Before(m, s)
  BY FirstExists
<1>2. {s \in S : Before(s, m)} = {}
  BY <1>1, BeforeIsTotal
<1>3. Cardinality({s \in S : Before(s, m)}) = 0
  BY <1>2, FS_EmptySet
<1> QED
  BY <1>1, <1>3 DEF First

(* The page of the first n rows is the same, read from the first n + 1. *)
LEMMA PageOfRows ==
    ASSUME Keyed, NEW S \in SUBSET Rows, NEW n \in Nat
    PROVE  First(n, First(n + 1, S)) = First(n, S)
<1> DEFINE F == First(n + 1, S)
<1>1. F \in SUBSET S /\ F \in SUBSET Rows
  BY DEF First
<1>2. ASSUME NEW r \in F PROVE {s \in F : Before(s, r)} = {s \in S : Before(s, r)}
  <2>1. ASSUME NEW s \in S, Before(s, r), s \notin F PROVE FALSE
    <3>1. Before(r, s)
      BY <2>1, FirstIsPrefix
    <3> QED
      BY <1>1, <2>1, <3>1, BeforeIsTotal
  <2> QED
    BY <1>1, <2>1
<1>3. ASSUME NEW r \in First(n, S) PROVE r \in F
  <2>1. r \in S /\ Cardinality({s \in S : Before(s, r)}) < n
    BY DEF First
  <2>2. {s \in S : Before(s, r)} \in SUBSET Rows
    OBVIOUS
  <2>3. Cardinality({s \in S : Before(s, r)}) \in Nat
    BY <2>2, FS_Subset, FS_CardinalityType, PagesAssumption
  <2> QED
    BY <2>1, <2>3 DEF First
<1>4. First(n, F) = {r \in F : Cardinality({s \in S : Before(s, r)}) < n}
  BY <1>2 DEF First
<1>5. First(n, S) = {r \in S : Cardinality({s \in S : Before(s, r)}) < n}
  BY DEF First
<1>6. First(n, F) = First(n, S)
  <2> HIDE DEF F
  <2> QED
    BY <1>1, <1>3, <1>4, <1>5
<1> QED
  BY <1>6

-----------------------------------------------------------------------------
(*                      What a reader has received                         *)

PagesTypes ==
    /\ listing \in Listings /\ limit \in Limits /\ Keyed /\ listed \subseteq Rows
    /\ parent \in BOOLEAN /\ changes \in 0 .. MaxChanges
    /\ reading \in {"idle", "open", "complete", "refused"}
    /\ pages \in Seq(SUBSET Rows)
    /\ cursor \in Rows \cup {NoRow}
    /\ reading = "open" => cursor \in Rows
    /\ reading # "open" => cursor = NoRow

PagesInOrder ==
    \A p, q \in DOMAIN pages : p < q =>
        \A r \in pages[p], s \in pages[q] : Before(r, s)

(* The cursor splits the rows: what was received is up to it, and what was  *)
(* there all the time was received or comes after it.                       *)
CursorSplits ==
    reading = "open" =>
        /\ \A r \in Received : r = cursor \/ Before(r, cursor)
        /\ \A r \in steady : r \in Received \/ Before(cursor, r)

Finished == reading = "complete" => steady \subseteq Received

NotStarted == reading = "idle" => pages = <<>> /\ steady = {}

PagesInv ==
    PagesTypes /\ PagesInOrder /\ CursorSplits /\ Finished /\ NotStarted /\ steady \subseteq listed

(* The cursor's condition leaves the listed rows after the cursor, in the   *)
(* order of the listing, ascending or descending.                           *)
LEMMA ListReadsTheRest ==
    ASSUME PagesTypes, List
    PROVE  ReadPage({r \in listed : cursor = NoRow \/ Before(cursor, r)})
<1> DEFINE Left == {r \in listed : cursor = NoRow \/ Before(cursor, r)}
<1>1. CASE listing \in Ascending
  <2>1. NewerRows = Left
    BY <1>1 DEF NewerRows, Newer, Before, Keyed, PagesTypes
  <2>2. ReadPage(NewerRows)
    BY <1>1 DEF List, Ascending, Ranked, ListAnswerRuns, ListRetrievalRuns, ListEvaluationRuns,
                ListFailedVersions, ListAuditEvents, ListCases, ListResults, ListCitations
  <2> QED
    BY <2>1, <2>2
<1>2. CASE listing \notin Ascending
  <2>1. OlderRows = Left
    BY <1>2 DEF OlderRows, Older, Before, Keyed, PagesTypes
  <2>2. ReadPage(OlderRows)
    BY <1>2 DEF List, Ascending, Ranked, ListAnswerRuns, ListRetrievalRuns, ListEvaluationRuns,
                ListFailedVersions, ListAuditEvents, ListCases, ListResults, ListCitations
  <2> QED
    BY <2>1, <2>2
<1> QED
  BY <1>1, <1>2

(* What a page adds, given what was left to read. *)
LEMMA PageOfTheRest ==
    ASSUME PagesTypes, NEW left \in SUBSET Rows, ReadPage(left)
    PROVE  \E page \in SUBSET left :
              /\ pages' = Append(pages, page)
              /\ \/ /\ reading' = "complete" /\ cursor' = NoRow /\ page = left
                 \/ /\ reading' = "open" /\ cursor' \in page
                    /\ \A r \in page : r = cursor' \/ Before(r, cursor')
                    /\ \A s \in left \ page : Before(cursor', s)
<1>1. limit \in Nat \ {0} /\ Keyed
  BY PagesAssumption DEF PagesTypes
<1> DEFINE rows == First(limit + 1, left)
           page == First(limit, rows)
<1>2. page = First(limit, left)
  BY <1>1, PageOfRows
<1>3. page \in SUBSET left /\ page \in SUBSET Rows
  BY <1>2 DEF First
<1>4. pages' = Append(pages, page)
  BY DEF ReadPage
<1>5. CASE Cardinality(rows) > limit
  <2>1. reading' = "open" /\ cursor' = Last(page)
    BY <1>5 DEF ReadPage
  <2>2. left # {}
    <3> SUFFICES ASSUME left = {} PROVE FALSE
      OBVIOUS
    <3>1. rows = {}
      BY DEF First
    <3>2. Cardinality(rows) = 0
      BY <3>1, FS_EmptySet
    <3> HIDE DEF rows
    <3> QED
      BY <1>1, <1>5, <3>2
  <2>3. page # {}
    BY <1>1, <1>2, <2>2, FirstIsNotEmpty
  <2>4. Last(page) \in page /\ \A r \in page : r = Last(page) \/ Before(r, Last(page))
    BY <1>1, <1>3, <2>3, LastExists
  <2>5. \A s \in left \ page : Before(Last(page), s)
    BY <1>1, <1>2, <2>4, FirstIsPrefix
  <2> HIDE DEF page
  <2> QED
    BY <1>3, <1>4, <2>1, <2>4, <2>5
<1>6. CASE ~ (Cardinality(rows) > limit)
  <2>1. page = left
    BY <1>1, <1>2, <1>6, FewRowsAreAll
  <2>2. reading' = "complete" /\ cursor' = NoRow
    BY <1>6 DEF ReadPage
  <2> HIDE DEF page
  <2> QED
    BY <1>3, <1>4, <2>1, <2>2
<1> QED
  BY <1>5, <1>6

LEMMA ReceivedGrows ==
    ASSUME pages \in Seq(SUBSET Rows), NEW page \in SUBSET Rows, pages' = Append(pages, page)
    PROVE  /\ pages' \in Seq(SUBSET Rows)
           /\ DOMAIN pages' = 1 .. Len(pages) + 1 /\ DOMAIN pages = 1 .. Len(pages)
           /\ Len(pages) \in Nat
           /\ pages'[Len(pages) + 1] = page
           /\ \A p \in 1 .. Len(pages) : pages'[p] = pages[p]
           /\ Received' = Received \cup page
<1>1. /\ pages' \in Seq(SUBSET Rows)
      /\ DOMAIN pages' = 1 .. Len(pages) + 1 /\ DOMAIN pages = 1 .. Len(pages)
      /\ Len(pages) \in Nat
      /\ pages'[Len(pages) + 1] = page
      /\ \A p \in 1 .. Len(pages) : pages'[p] = pages[p]
  OBVIOUS
<1>2. ASSUME NEW r PROVE r \in Received' <=> r \in Received \cup page
  <2>1. r \in Received' <=> \E p \in 1 .. Len(pages) + 1 : r \in pages'[p]
    BY <1>1 DEF Received
  <2>2. r \in Received <=> \E p \in 1 .. Len(pages) : r \in pages[p]
    BY <1>1 DEF Received
  <2>3. \A p \in 1 .. Len(pages) + 1 : p = Len(pages) + 1 \/ p \in 1 .. Len(pages)
    BY <1>1
  <2>4. \A p \in 1 .. Len(pages) : p \in 1 .. Len(pages) + 1
    BY <1>1
  <2>5. Len(pages) + 1 \in 1 .. Len(pages) + 1
    BY <1>1
  <2> QED
    BY <1>1, <2>1, <2>2, <2>3, <2>4, <2>5
<1> QED
  BY <1>1, <1>2

LEMMA ListKeeps ==
    ASSUME PagesInv, List
    PROVE  PagesInv'
<1> DEFINE left == {r \in listed : cursor = NoRow \/ Before(cursor, r)}
<1>1. ReadPage(left)
  BY ListReadsTheRest DEF PagesInv
<1>2. /\ reading \in {"idle", "open"} /\ UNCHANGED <<listing, limit, key, listed, parent, changes>>
      /\ steady' = IF reading = "idle" THEN listed ELSE steady
  BY <1>1 DEF ReadPage
<1>3. left \in SUBSET Rows
  BY DEF PagesInv, PagesTypes
<1>4. PICK page \in SUBSET left :
              /\ pages' = Append(pages, page)
              /\ \/ /\ reading' = "complete" /\ cursor' = NoRow /\ page = left
                 \/ /\ reading' = "open" /\ cursor' \in page
                    /\ \A r \in page : r = cursor' \/ Before(r, cursor')
                    /\ \A s \in left \ page : Before(cursor', s)
  <2> HIDE DEF left
  <2> QED
    BY <1>1, <1>3, PageOfTheRest DEF PagesInv
<1>5. page \in SUBSET Rows /\ Keyed /\ pages \in Seq(SUBSET Rows) /\ Received \subseteq Rows
  BY <1>3 DEF PagesInv, PagesTypes, Received
<1>6. \A r, s : Before(r, s)' <=> Before(r, s)
  BY <1>2 DEF Before
<1>7. /\ pages' \in Seq(SUBSET Rows)
      /\ DOMAIN pages' = 1 .. Len(pages) + 1 /\ DOMAIN pages = 1 .. Len(pages)
      /\ Len(pages) \in Nat
      /\ pages'[Len(pages) + 1] = page
      /\ \A p \in 1 .. Len(pages) : pages'[p] = pages[p]
      /\ Received' = Received \cup page
  BY <1>4, <1>5, ReceivedGrows
(* What was received before comes before this page. *)
<1>8. \A r \in Received, s \in page : Before(r, s)
  <2>1. CASE reading = "idle"
    <3>1. pages = <<>>
      BY <2>1 DEF PagesInv, NotStarted
    <3> QED
      BY <3>1 DEF Received
  <2>2. CASE reading = "open"
    <3>1. cursor \in Rows /\ cursor # NoRow
      BY <2>2, PagesAssumption DEF PagesInv, PagesTypes
    <3>2. \A s \in page : Before(cursor, s)
      BY <3>1
    <3>3. \A r \in Received : r = cursor \/ Before(r, cursor)
      BY <2>2 DEF PagesInv, CursorSplits
    <3> QED
      BY <1>5, <3>1, <3>2, <3>3, BeforeIsTransitive
  <2> QED
    BY <1>2, <2>1, <2>2
(* A row that was there all the time was received or is left to read. *)
<1>9. \A r \in steady' : r \in Received \/ r \in left
  <2>1. CASE reading = "idle"
    BY <1>2, <2>1 DEF PagesInv, PagesTypes
  <2>2. CASE reading = "open"
    BY <1>2, <2>2 DEF PagesInv, CursorSplits
  <2> QED
    BY <1>2, <2>1, <2>2
<1>10. PagesInOrder'
  <2> SUFFICES ASSUME NEW p \in DOMAIN pages', NEW q \in DOMAIN pages', p < q,
                      NEW r \in pages'[p], NEW s \in pages'[q]
               PROVE  Before(r, s)
    BY <1>6 DEF PagesInOrder
  <2>1. p \in 1 .. Len(pages)
    BY <1>7
  <2>2. r \in pages[p] /\ r \in Received
    BY <1>7, <2>1 DEF Received
  <2>3. CASE q = Len(pages) + 1
    BY <1>7, <1>8, <2>2, <2>3
  <2>4. CASE q # Len(pages) + 1
    <3>1. q \in 1 .. Len(pages)
      BY <1>7, <2>4
    <3>2. s \in pages[q]
      BY <1>7, <3>1
    <3> QED
      BY <1>7, <2>1, <2>2, <3>1, <3>2 DEF PagesInv, PagesInOrder
  <2> QED
    BY <2>3, <2>4
<1>11. CursorSplits' /\ Finished'
  <2>1. CASE reading' = "complete" /\ page = left
    BY <1>7, <1>9, <2>1 DEF CursorSplits, Finished
  <2>2. CASE /\ reading' = "open" /\ cursor' \in page
             /\ \A r \in page : r = cursor' \/ Before(r, cursor')
             /\ \A s \in left \ page : Before(cursor', s)
    <3>1. \A r \in Received' : r = cursor' \/ Before(r, cursor')
      BY <1>7, <1>8, <2>2
    <3>2. \A r \in steady' : r \in Received' \/ Before(cursor', r)
      BY <1>7, <1>9, <2>2
    <3>3. Finished'
      BY <2>2 DEF Finished
    <3> HIDE DEF left
    <3> QED
      BY <1>6, <3>1, <3>2, <3>3 DEF CursorSplits
  <2> QED
    BY <1>4, <2>1, <2>2
<1>12. PagesTypes'
  <2>1. /\ reading' \in {"open", "complete"}
        /\ reading' = "open" => cursor' \in Rows
        /\ reading' = "complete" => cursor' = NoRow
    BY <1>3, <1>4
  <2> QED
    BY <1>2, <1>7, <2>1 DEF PagesInv, PagesTypes, Keyed
<1>13. NotStarted' /\ steady' \subseteq listed'
  <2>1. reading' # "idle"
    BY <1>4
  <2> QED
    BY <1>2, <2>1 DEF NotStarted, PagesInv
<1> QED
  BY <1>10, <1>11, <1>12, <1>13 DEF PagesInv

(* Rows that come and go change nothing that was received, and what leaves  *)
(* was not there all the time.                                              *)
LEMMA ChangeKeeps ==
    ASSUME PagesInv, NEW rows \in SUBSET Rows, Change(rows), parent' \in BOOLEAN
    PROVE  PagesInv'
<1>1. /\ UNCHANGED <<listing, limit, key, reading, cursor, pages>>
      /\ listed' = rows /\ steady' = steady \cap rows /\ Received' = Received
      /\ reading \in {"idle", "open"}
  BY DEF Change, Received
<1>2. changes' \in 0 .. MaxChanges
  BY PagesAssumption DEF Change, PagesInv, PagesTypes
<1>3. \A r, s : Before(r, s)' <=> Before(r, s)
  BY <1>1 DEF Before
<1>4. PagesTypes' /\ Finished' /\ NotStarted' /\ steady' \subseteq listed'
  BY <1>1, <1>2 DEF PagesInv, PagesTypes, Keyed, Finished, NotStarted
<1>5. PagesInOrder'
  BY <1>1, <1>3 DEF PagesInv, PagesInOrder
<1>6. CursorSplits'
  BY <1>1, <1>3 DEF PagesInv, CursorSplits
<1> QED
  BY <1>4, <1>5, <1>6 DEF PagesInv

LEMMA RefuseKeeps ==
    ASSUME PagesInv, Refuse
    PROVE  PagesInv'
<1>1. /\ UNCHANGED <<listing, limit, key, listed, parent, changes, pages, steady>>
      /\ reading' = "refused" /\ cursor' = NoRow
  BY DEF Refuse
<1>2. \A r, s : Before(r, s)' <=> Before(r, s)
  BY <1>1 DEF Before
<1>3. PagesInOrder'
  BY <1>1, <1>2 DEF PagesInv, PagesInOrder
<1> QED
  BY <1>1, <1>3 DEF PagesInv, PagesTypes, Keyed, CursorSplits, Finished, NotStarted

LEMMA PagesStep ==
    ASSUME PagesInv, PagesNext
    PROVE  PagesInv'
<1>1. listed \subseteq Rows /\ parent \in BOOLEAN
  BY DEF PagesInv, PagesTypes
<1>2. CASE List
  BY <1>2, ListKeeps
<1>3. CASE Refuse
  BY <1>3, RefuseKeeps
<1>4. CASE ExpireParent
  <2>1. Change({}) /\ parent' \in BOOLEAN
    BY <1>1, <1>4 DEF ExpireParent
  <2> QED
    BY <2>1, ChangeKeeps
<1>5. ASSUME NEW r \in Rows, Add(r) \/ Remove(r) \/ FailAgain(r) PROVE PagesInv'
  <2>1. listed \cup {r} \in SUBSET Rows /\ listed \ {r} \in SUBSET Rows
    BY <1>1
  <2>2. (Change(listed \cup {r}) \/ Change(listed \ {r})) /\ parent' \in BOOLEAN
    BY <1>1, <1>5 DEF Add, Remove, FailAgain
  <2> QED
    BY <2>1, <2>2, ChangeKeeps
<1>6. ASSUME NEW t \in Times, Expire(t) PROVE PagesInv'
  <2>1. PICK gone : Change(listed \ gone)
    BY <1>6 DEF Expire
  <2>2. listed \ gone \in SUBSET Rows /\ parent' \in BOOLEAN
    BY <1>1, <1>6 DEF Expire
  <2> QED
    BY <2>1, <2>2, ChangeKeeps
<1> QED
  BY <1>2, <1>3, <1>4, <1>5, <1>6 DEF PagesNext

LEMMA PagesInitially == PagesInit => PagesInv
<1> SUFFICES ASSUME PagesInit PROVE PagesInv
  OBVIOUS
<1>1. Keyed
  BY PagesAssumption DEF PagesInit, Keyed
<1>2. 0 \in 0 .. MaxChanges
  BY PagesAssumption
<1>3. pages = <<>> /\ DOMAIN pages = {} /\ pages \in Seq(SUBSET Rows)
  BY DEF PagesInit
<1> QED
  BY <1>1, <1>2, <1>3
  DEF PagesInit, PagesInv, PagesTypes, PagesInOrder, CursorSplits, Finished, NotStarted

LEMMA PagesStutter ==
    ASSUME PagesInv, UNCHANGED pagesVars
    PROVE  PagesInv'
<1>1. UNCHANGED <<listing, limit, key, listed, parent, changes, reading, cursor, pages, steady>>
  BY DEF pagesVars
<1>2. (\A r, s : Before(r, s)' <=> Before(r, s)) /\ Received' = Received
  BY <1>1 DEF Before, Received
<1>3. PagesInOrder'
  BY <1>1, <1>2 DEF PagesInv, PagesInOrder
<1>4. CursorSplits'
  BY <1>1, <1>2 DEF PagesInv, CursorSplits
<1> QED
  BY <1>1, <1>2, <1>3, <1>4 DEF PagesInv, PagesTypes, Keyed, Finished, NotStarted

LEMMA PagesInvariant == Spec => []PagesInv
<1>1. Init => PagesInv
  BY PagesInitially DEF Init
<1>2. PagesInv /\ [Next]_vars => PagesInv'
  BY PagesStep, PagesStutter DEF Next, vars
<1> QED
  BY <1>1, <1>2, PTL DEF Spec

(* Whatever changes between two pages, a reader receives each row at most   *)
(* once and, by the last page, every row that was there all the time        *)
(* (admin/pagination.py and the list_ functions of admin/*.py).             *)
THEOREM ListingsAreComplete == Spec => []PagesAreComplete
<1>1. PagesInv => PagesAreComplete
  <2> SUFFICES ASSUME PagesInv, NEW p \in DOMAIN pages, NEW q \in DOMAIN pages, p < q,
                      NEW r \in pages[p], NEW s \in pages[q]
               PROVE  r # s /\ IF listing \in Ascending THEN key[r] <= key[s]
                                                        ELSE key[s] <= key[r]
    BY DEF PagesInv, Finished, PagesAreComplete
  <2>1. Before(r, s)
    BY DEF PagesInv, PagesInOrder
  <2>2. r \in Rows /\ s \in Rows /\ Keyed
    BY DEF PagesInv, PagesTypes
  <2>3. r # s
    BY <2>1, <2>2, BeforeIsTotal
  <2>4. key[r] \in Nat /\ key[s] \in Nat
    BY <2>2 DEF Keyed
  <2> QED
    BY <2>1, <2>3, <2>4 DEF Before
<1> QED
  BY <1>1, PagesInvariant, PTL

-----------------------------------------------------------------------------
(*                    What the console shows                               *)

USE DEF consoleVars, hook, requests, Aborted, LoadingAfter

Reviews == [run : Places, saw : Places, here : BOOLEAN]
Stored  == [run : Places, saw : Places]

(* Only the results of a retrieval run have further pages. *)
HasResults == place # Nowhere /\ place.page = "retrieval"

ConsoleTypes ==
    /\ place \in Places \cup {Nowhere} /\ shown \in Places \cup {Nowhere}
    /\ next \in Places \cup {Nowhere} /\ review \in Places \cup {Nowhere}
    /\ results \subseteq Places /\ loads \subseteq Places /\ more \subseteq Places
    /\ loading \in BOOLEAN /\ failed \in BOOLEAN /\ strayed \in BOOLEAN
    /\ moves \in 0 .. MaxMoves
    /\ reviews \subseteq Reviews /\ stored \subseteq Stored
    /\ loading => place = Nowhere \/ loads # {}

(* A load under way is for the selected place: the cleanup aborts the others. *)
LoadsFollow == loads \subseteq {place}

ShownFollows ==
    place # Nowhere /\ place.page # "dashboard" => shown \in {place, Nowhere}

ResultsFollow ==
    /\ ~strayed => results \subseteq {place}
    /\ ~HasResults => results = {} /\ next = Nowhere /\ more = {}

ReviewersSaw == \A r \in reviews \cup stored : r.saw = r.run

ConsoleInv == ConsoleTypes /\ LoadsFollow /\ ShownFollows /\ ResultsFollow /\ ReviewersSaw

USE DEF ConsoleInv, ConsoleTypes, LoadsFollow, ShownFollows, ResultsFollow, HasResults, ReviewersSaw

-----------------------------------------------------------------------------
LEMMA CountedMove ==
    ASSUME moves \in 0 .. MaxMoves, Move
    PROVE  moves' \in 0 .. MaxMoves
  BY ConsoleAssumption DEF Move

(* A place is a record with one of three pages. *)
LEMMA PageOfPlace ==
    ASSUME NEW p \in Places
    PROVE  p # Nowhere /\ p.page \in {"dashboard", "answer", "retrieval"}
<1>1. p # Nowhere
  BY ConsoleAssumption
<1>2. CASE p \in [org : Organizations, page : {"dashboard"}, run : {0}]
  BY <1>1, <1>2
<1>3. CASE p \in [org : Organizations, page : {"answer", "retrieval"}, run : Runs]
  BY <1>1, <1>3
<1> QED
  BY <1>2, <1>3 DEF Places

(* Reviews that leave their component keep what they are about. *)
LEMMA Detached ==
    ASSUME ConsoleTypes, ReviewersSaw,
           NEW S, S = {[r EXCEPT !.here = FALSE] : r \in reviews}
    PROVE  S \subseteq Reviews /\ \A r \in S : r.saw = r.run
<1> SUFFICES ASSUME NEW s \in S
             PROVE  s \in Reviews /\ s.saw = s.run
  OBVIOUS
<1>1. PICK r \in reviews : s = [r EXCEPT !.here = FALSE]
  OBVIOUS
<1>2. r \in Reviews /\ r.saw = r.run
  OBVIOUS
<1> QED
  BY <1>1, <1>2 DEF Reviews

(* Unmounting leaves nothing of the page that was shown. *)
LEMMA Unmounted ==
    ASSUME ConsoleInv, Unmount, UNCHANGED stored
    PROVE  /\ shown' = Nowhere /\ results' = {} /\ next' = Nowhere /\ review' = Nowhere
           /\ more' = {} /\ reviews' \subseteq Reviews /\ ReviewersSaw'
<1>1. reviews' \subseteq Reviews /\ \A r \in reviews' : r.saw = r.run
  BY Detached DEF Unmount
<1> QED
  BY <1>1 DEF Unmount

LEMMA GoKeeps ==
    ASSUME ConsoleInv, NEW p \in Places, Go(p)
    PROVE  ConsoleInv'
<1> USE PageOfPlace
<1>1. place' = p /\ loads' = {p} /\ stored' = stored /\ strayed' = strayed
  BY DEF Go
<1>2. moves' \in 0 .. MaxMoves /\ loading' = TRUE /\ failed' = FALSE
  <2>1. moves' \in 0 .. MaxMoves
    BY CountedMove DEF Go
  <2> QED
    BY <2>1 DEF Go
<1>3. CASE Unmount
  BY <1>1, <1>2, <1>3, Unmounted
<1>4. CASE place # Nowhere /\ place.page = p.page /\ Rerun
  <2>1. CASE p.page = "dashboard"
    <3>1. results' = {} /\ next' = Nowhere /\ more' = {} /\ shown' = shown
      BY <1>4, <2>1 DEF Rerun
    <3>2. review' = review /\ reviews' = reviews
      BY <1>4, <2>1 DEF Rerun
    <3> QED
      BY <1>1, <1>2, <2>1, <3>1, <3>2
  <2>2. CASE p.page # "dashboard"
    <3>1. /\ shown' = Nowhere /\ results' = {} /\ next' = Nowhere /\ review' = Nowhere
          /\ more' = more /\ reviews' = reviews
      BY <1>4, <2>2 DEF Rerun
    <3>2. ~HasResults' => more = {}
      BY <1>1, <1>4
    <3> QED
      BY <1>1, <1>2, <2>2, <3>1, <3>2
  <2> QED
    BY <2>1, <2>2
<1> QED
  BY <1>3, <1>4 DEF Go

LEMMA ClearOrganizationKeeps ==
    ASSUME ConsoleInv, ClearOrganization
    PROVE  ConsoleInv'
<1>1. place' = Nowhere /\ loads' = {} /\ stored' = stored /\ strayed' = strayed
  BY DEF ClearOrganization
<1>2. moves' \in 0 .. MaxMoves /\ loading' = TRUE /\ failed' = FALSE
  <2>1. moves' \in 0 .. MaxMoves
    BY CountedMove DEF ClearOrganization
  <2> QED
    BY <2>1 DEF ClearOrganization
<1>3. Unmount
  BY DEF ClearOrganization
<1> QED
  BY <1>1, <1>2, <1>3, Unmounted

(* The only load under way is for the selected place. *)
LEMMA LoadKeeps ==
    ASSUME ConsoleInv, NEW p \in loads, Loaded(p) \/ LoadFails(p)
    PROVE  ConsoleInv'
<1>1. p = place /\ p \in Places
  OBVIOUS
<1>2. p # Nowhere
  BY <1>1, PageOfPlace
<1>3. CASE Loaded(p)
  <2>1. CASE p.page = "retrieval"
    BY <1>1, <1>2, <1>3, <2>1 DEF Loaded
  <2>2. CASE p.page # "retrieval"
    BY <1>1, <1>2, <1>3, <2>2 DEF Loaded
  <2> QED
    BY <2>1, <2>2
<1>4. CASE LoadFails(p)
  BY <1>1, <1>2, <1>4 DEF LoadFails
<1> QED
  BY <1>3, <1>4

(* A further page is only asked for, and awaited, where results are shown. *)
LEMMA LoadMoreKeeps ==
    ASSUME ConsoleInv, LoadMore
    PROVE  ConsoleInv'
<1>1. HasResults
  BY DEF LoadMore
<1> QED
  BY <1>1 DEF LoadMore

LEMMA MoreKeeps ==
    ASSUME ConsoleInv, NEW p \in more, MoreLoaded(p) \/ MoreFails(p)
    PROVE  ConsoleInv'
<1>1. HasResults /\ p \in Places
  OBVIOUS
<1>2. CASE MoreLoaded(p)
  BY <1>1, <1>2 DEF MoreLoaded
<1>3. CASE MoreFails(p)
  BY <1>1, <1>3 DEF MoreFails
<1> QED
  BY <1>2, <1>3

(* What can be reviewed is what is shown, which is the selected run. *)
LEMMA SubmitReviewKeeps ==
    ASSUME ConsoleInv, SubmitReview
    PROVE  ConsoleInv'
<1>1. place \in Places /\ shown = place
  BY DEF SubmitReview, CanReview
<1> DEFINE sent == [run |-> place, saw |-> shown, here |-> TRUE]
<1>2. sent \in Reviews /\ sent.saw = sent.run
  BY <1>1 DEF Reviews
<1>3. reviews' = reviews \cup {sent}
  BY DEF SubmitReview
<1> HIDE DEF sent
<1>4. reviews' \subseteq Reviews
  BY <1>2, <1>3
<1>5. ReviewersSaw'
  BY <1>2, <1>3 DEF SubmitReview
<1>6. moves' \in 0 .. MaxMoves
  BY CountedMove DEF SubmitReview
<1> QED
  BY <1>4, <1>5, <1>6 DEF SubmitReview

LEMMA ReviewKeeps ==
    ASSUME ConsoleInv, NEW r \in reviews, CreateReview(r) \/ ReviewFails(r)
    PROVE  ConsoleInv'
<1> DEFINE row == [run |-> r.run, saw |-> r.saw]
<1>1. r \in Reviews /\ r.saw = r.run
  OBVIOUS
<1>2. row \in Stored /\ row.saw = row.run /\ r.run \in Places
  BY <1>1 DEF Reviews, Stored
<1>3. reviews' = reviews \ {r} /\ stored' \in {stored, stored \cup {row}}
  BY DEF CreateReview, ReviewFails
<1>4. review' \in Places \cup {Nowhere}
  BY <1>2 DEF CreateReview, ReviewFails
<1> HIDE DEF row
<1>5. reviews' \subseteq Reviews /\ stored' \subseteq Stored /\ ReviewersSaw'
  BY <1>2, <1>3
<1> QED
  BY <1>4, <1>5 DEF CreateReview, ReviewFails

-----------------------------------------------------------------------------
LEMMA ConsoleInitially == Init => ConsoleInv
<1> SUFFICES ASSUME ConsoleInit PROVE ConsoleInv
  BY DEF Init
<1>1. 0 \in 0 .. MaxMoves
  BY ConsoleAssumption
<1> QED
  BY <1>1 DEF ConsoleInit

LEMMA ConsoleStep == ConsoleInv /\ [Next]_vars => ConsoleInv'
<1> SUFFICES ASSUME ConsoleInv, [Next]_vars PROVE ConsoleInv'
  OBVIOUS
<1>1. CASE UNCHANGED consoleVars
  BY <1>1
<1>2. CASE ConsoleNext
  <2>1. ASSUME NEW p \in Places, Go(p) PROVE ConsoleInv'
    BY <2>1, GoKeeps
  <2>2. CASE ClearOrganization
    BY <2>2, ClearOrganizationKeeps
  <2>3. CASE LoadMore
    BY <2>3, LoadMoreKeeps
  <2>4. CASE SubmitReview
    BY <2>4, SubmitReviewKeeps
  <2>5. ASSUME NEW p \in loads, Loaded(p) \/ LoadFails(p) PROVE ConsoleInv'
    BY <2>5, LoadKeeps
  <2>6. ASSUME NEW p \in more, MoreLoaded(p) \/ MoreFails(p) PROVE ConsoleInv'
    BY <2>6, MoreKeeps
  <2>7. ASSUME NEW r \in reviews, CreateReview(r) \/ ReviewFails(r) PROVE ConsoleInv'
    BY <2>7, ReviewKeeps
  <2> QED
    BY <1>2, <2>1, <2>2, <2>3, <2>4, <2>5, <2>6, <2>7 DEF ConsoleNext
<1> QED
  BY <1>1, <1>2 DEF Next, vars

LEMMA ConsoleInvariant == Spec => []ConsoleInv
  BY ConsoleInitially, ConsoleStep, PTL DEF Spec

(* What the console shows and lets a user review is always of the selected  *)
(* place, in whatever order answers arrive, save for further pages that     *)
(* strayed (the hooks of apps/web).                                         *)
THEOREM ConsoleIsFaithful == Spec => []ConsoleFollowsSelection
<1>1. ConsoleInv => ConsoleFollowsSelection
  BY DEF ConsoleFollowsSelection
<1> QED
  BY <1>1, ConsoleInvariant, PTL

(* The variables of the listings and of the console have their types. *)
THEOREM TypeSafety == Spec => []TypeOK
<1>1. PagesInv => PagesTypeOK
  <2> SUFFICES ASSUME PagesInv PROVE PagesTypeOK
    OBVIOUS
  <2>1. \A p \in DOMAIN pages : pages[p] \subseteq Rows
    BY DEF PagesInv, PagesTypes
  <2> QED
    BY <2>1 DEF PagesInv, PagesTypes, PagesTypeOK
<1>2. ConsoleInv => ConsoleTypeOK
  BY DEF ConsoleTypeOK, Reviews, Stored
<1> QED
  BY <1>1, <1>2, PagesInvariant, ConsoleInvariant, PTL DEF TypeOK
=============================================================================

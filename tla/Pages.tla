------------------------------- MODULE Pages -------------------------------
(***************************************************************************)
(* The paginated listings of the administration: a reader asks for page    *)
(* after page with the cursor of the page before, one query each, while    *)
(* rows are committed, expire, are removed with their parent, or leave and *)
(* enter the condition of the listing.                                     *)
(*                                                                         *)
(* A row is its id.  `key' is what its listing orders by: created_at,      *)
(* which transactions take when they begin and several rows may share, or  *)
(* a rank, which is unique in its parent.                                  *)
(***************************************************************************)
EXTENDS Naturals, FiniteSets, Sequences

CONSTANTS
    Rows,       \* ids, ordered
    Times,      \* values of created_at
    Limits,     \* page sizes a reader asks for
    NoRow,      \* no cursor
    MaxChanges  \* bound: changes while the pages are read

ASSUME PagesAssumption ==
    /\ Rows \subseteq Nat /\ Times \subseteq Nat /\ Limits \subseteq Nat \ {0}
    /\ IsFiniteSet(Rows) /\ NoRow \notin Rows /\ MaxChanges \in Nat

VARIABLES
    listing,    \* the listing that is read
    limit,      \* its page size
    key,        \* what the listing orders by
    listed,     \* committed rows that satisfy the listing's conditions
    parent,     \* the run whose cases, results or citations are listed exists
    changes,    \* changes so far, bounded by MaxChanges
    reading,    \* idle, open, complete, refused
    cursor,     \* the last row of the last page, if there are more
    pages,      \* the pages received, each a set of rows
    steady      \* history: rows listed since the first page was asked for

pagesVars == <<listing, limit, key, listed, parent, changes, reading, cursor, pages, steady>>

-----------------------------------------------------------------------------
Ranked   == {"results", "citations"}
Growing  == {"answer_runs", "retrieval_runs", "evaluation_runs", "cases", "failed_versions",
             "audit_events"}
Ascending == Ranked \cup {"cases"}
Expiring == {"answer_runs", "retrieval_runs", "audit_events"}
Listings == Ranked \cup Growing

PagesInit ==
    /\ listing \in Listings /\ limit \in Limits
    /\ key \in IF listing \in Ranked
               THEN {f \in [Rows -> Rows] : \A r, s \in Rows : f[r] = f[s] => r = s}
               ELSE [Rows -> Times]
    /\ listed \in SUBSET Rows /\ parent = TRUE /\ changes = 0
    /\ reading = "idle" /\ cursor = NoRow /\ pages = <<>> /\ steady = {}

(* The cursor's condition: in the order of the listing, r comes after c. *)
MutantOlder(r, c) == key[r] < key[c]
Older(r, c) == key[r] < key[c] \/ (key[r] = key[c] /\ r < c)
Newer(r, c) == key[r] > key[c] \/ (key[r] = key[c] /\ r > c)

(* order_by and limit: the first n rows of S. *)
Before(r, s) ==
    IF listing \in Ascending THEN key[r] < key[s] \/ (key[r] = key[s] /\ r < s)
                             ELSE key[r] > key[s] \/ (key[r] = key[s] /\ r > s)

First(n, S) == {r \in S : Cardinality({s \in S : Before(s, r)}) < n}
Last(S)     == CHOOSE r \in S : ~\E s \in S : Before(r, s)

(* The rows that the cursor leaves to read, in a descending and an ascending listing. *)
OlderRows == {r \in listed : cursor = NoRow \/ Older(r, cursor)}
NewerRows == {r \in listed : cursor = NoRow \/ Newer(r, cursor)}

(* limit + 1 of the rows left are read; a cursor is returned if the page is not the last. *)
ReadPage(left) ==
    LET rows == First(limit + 1, left)
        page == First(limit, rows)
        more == Cardinality(rows) > limit
    IN  /\ reading \in {"idle", "open"}
        /\ pages' = Append(pages, page)
        /\ cursor' = IF more THEN Last(page) ELSE NoRow
        /\ reading' = IF more THEN "open" ELSE "complete"
        /\ steady' = IF reading = "idle" THEN listed ELSE steady
        /\ UNCHANGED <<listing, limit, key, listed, parent, changes>>

ListAnswerRuns     == listing = "answer_runs" /\ ReadPage(OlderRows)
ListRetrievalRuns  == listing = "retrieval_runs" /\ ReadPage(OlderRows)
ListEvaluationRuns == listing = "evaluation_runs" /\ ReadPage(OlderRows)
ListFailedVersions == listing = "failed_versions" /\ ReadPage(OlderRows)
ListAuditEvents    == listing = "audit_events" /\ ReadPage(OlderRows)
ListCases          == listing = "cases" /\ parent /\ ReadPage(NewerRows)
ListResults        == listing = "results" /\ parent /\ ReadPage(NewerRows)
ListCitations      == listing = "citations" /\ parent /\ ReadPage(NewerRows)

(* The parent is gone, or the reader is no longer an administrator. *)
Refuse ==
    /\ reading \in {"idle", "open"} /\ reading' = "refused" /\ cursor' = NoRow
    /\ UNCHANGED <<listing, limit, key, listed, parent, changes, pages, steady>>

-----------------------------------------------------------------------------
(* The rows change while the pages are read. *)
Change(rows) ==
    /\ changes < MaxChanges /\ changes' = changes + 1 /\ reading \in {"idle", "open"}
    /\ listed' = rows /\ steady' = steady \cap rows
    /\ UNCHANGED <<listing, limit, key, reading, cursor, pages>>

(* A transaction commits a row; it may have begun before rows already read. *)
Add(r) ==
    /\ listing \in Growing /\ r \notin listed /\ UNCHANGED parent
    /\ \A p \in DOMAIN pages : r \notin pages[p]
    /\ Change(listed \cup {r})

(* A failed version is retried, a chunk goes with its results and citations. *)
Remove(r) ==
    /\ listing \in {"failed_versions"} \cup Ranked /\ r \in listed /\ UNCHANGED parent
    /\ Change(listed \ {r})

(* A retried version fails again: it keeps its created_at. *)
FailAgain(r) ==
    /\ listing = "failed_versions" /\ r \notin listed /\ UNCHANGED parent
    /\ Change(listed \cup {r})

(* Retention removes what is older than a cutoff, of the retrieval runs *)
(* only those without answer run.                                       *)
Expire(t) ==
    LET expired == {r \in listed : key[r] < t}
    IN  /\ listing \in Expiring /\ expired # {} /\ UNCHANGED parent
        /\ \E gone \in SUBSET expired :
              /\ gone = expired \/ (listing = "retrieval_runs" /\ gone # {})
              /\ Change(listed \ gone)

(* The rows of one run expire together, with or without their run. *)
ExpireParent ==
    /\ listing \in Ranked \cup {"cases"} /\ listed # {}
    /\ Change({})
    /\ \/ UNCHANGED parent /\ listing # "citations"
       \/ parent' = FALSE /\ listing # "cases"

-----------------------------------------------------------------------------
List ==
    \/ ListAnswerRuns \/ ListRetrievalRuns \/ ListEvaluationRuns \/ ListFailedVersions
    \/ ListAuditEvents \/ ListCases \/ ListResults \/ ListCitations

PagesNext ==
    \/ List \/ Refuse \/ ExpireParent
    \/ \E r \in Rows : Add(r) \/ Remove(r) \/ FailAgain(r)
    \/ \E t \in Times : Expire(t)

-----------------------------------------------------------------------------
PagesTypeOK ==
    /\ listing \in Listings /\ limit \in Limits /\ listed \subseteq Rows /\ parent \in BOOLEAN
    /\ changes \in 0 .. MaxChanges /\ reading \in {"idle", "open", "complete", "refused"}
    /\ cursor \in Rows \cup {NoRow} /\ reading # "open" => cursor = NoRow
    /\ \A p \in DOMAIN pages : pages[p] \subseteq Rows

Received == UNION {pages[p] : p \in DOMAIN pages}

(* Whatever is committed, removed or expires between two pages, and however  *)
(* many rows share a timestamp: no row is received twice, each page continues *)
(* the order of the one before, and a reader who reached the last page has    *)
(* received every row that was there all the time (admin/pagination.py and    *)
(* the list_ functions of admin/*.py).                                        *)
PagesAreComplete ==
    /\ \A p, q \in DOMAIN pages : p < q =>
          \A r \in pages[p], s \in pages[q] :
              r # s /\ IF listing \in Ascending THEN key[r] <= key[s] ELSE key[s] <= key[r]
    /\ reading = "complete" => steady \subseteq Received
=============================================================================

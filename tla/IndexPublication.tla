-------------------------- MODULE IndexPublication --------------------------
(***************************************************************************)
(* What ingestion promises to retrieval, and no more: the searchable text  *)
(* of a document version is always the complete output of one processing   *)
(* attempt; an attempt is published at most once; a version that left      *)
(* search comes back only with the output of an attempt never served       *)
(* before.  How attempts overlap, fail or die is none of retrieval's        *)
(* business, so nothing of it appears here.                                *)
(***************************************************************************)
CONSTANTS
    Versions,
    Attempts    \* attempt numbers, from 1

VARIABLES
    index,      \* the attempt whose rows are stored for the version, 0 for none
    searchable, \* retrieval may return rows of the version
    spent       \* attempts that have been published

ivars == <<index, searchable, spent>>

Init ==
    /\ index = [v \in Versions |-> 0]
    /\ searchable = [v \in Versions |-> FALSE]
    /\ spent = [v \in Versions |-> {}]

(* The rows of every earlier attempt are replaced in the same step.         *)
Publish(v, a) ==
    /\ a \notin spent[v]
    /\ index' = [index EXCEPT ![v] = a]
    /\ searchable' = [searchable EXCEPT ![v] = TRUE]
    /\ spent' = [spent EXCEPT ![v] = @ \cup {a}]

Withdraw(v) ==
    /\ searchable[v]
    /\ searchable' = [searchable EXCEPT ![v] = FALSE]
    /\ UNCHANGED <<index, spent>>

Next == \E v \in Versions : Withdraw(v) \/ \E a \in Attempts : Publish(v, a)

Spec == Init /\ [][Next]_ivars
=============================================================================

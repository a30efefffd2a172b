------------------------------ MODULE Console ------------------------------
(***************************************************************************)
(* The administration in the browser: the selected organization, the page  *)
(* and its hook.  An effect loads the data of the place that is selected   *)
(* and aborts when the place changes; further pages and reviews are        *)
(* requested without an abort signal.  Jumping in the browser's history    *)
(* between two runs keeps the component, any other change of page or a     *)
(* cleared organization unmounts it.                                       *)
(***************************************************************************)
EXTENDS Naturals, FiniteSets

CONSTANTS
    Organizations,
    Runs,           \* ids of answer and retrieval runs
    Nowhere,        \* no place
    MaxMoves        \* bound: changes of the place, and reviews

VARIABLES
    place,      \* organization, page and run that are selected
    shown,      \* the place the data on the page were loaded for
    results,    \* the places the rows of the result table were loaded for
    next,       \* the place the held next_cursor was returned for
    loading,    \* the hook's loading flag
    failed,     \* the hook's error
    loads,      \* places whose load is under way and not aborted
    more,       \* places whose further page is under way
    reviews,    \* reviews under way: for which run, seeing which, from this component
    review,     \* the run whose saved review the page reports
    stored,     \* answer_reviews: for which run, seeing which
    strayed,    \* history: a further page arrived at another run than its own
    moves       \* changes of the place and reviews so far, bounded by MaxMoves

hook == <<shown, results, next, loading, failed>>
requests == <<loads, more, reviews>>
consoleVars == <<place, hook, requests, review, stored, strayed, moves>>

-----------------------------------------------------------------------------
(* The organization is part of each request's path. *)
Places ==
    [org : Organizations, page : {"dashboard"}, run : {0}]
    \cup [org : Organizations, page : {"answer", "retrieval"}, run : Runs]

ASSUME ConsoleAssumption == MaxMoves \in Nat /\ Nowhere \notin Places

ConsoleInit ==
    /\ place = Nowhere /\ shown = Nowhere /\ results = {} /\ next = Nowhere
    /\ loading = TRUE /\ failed = FALSE /\ loads = {} /\ more = {} /\ reviews = {}
    /\ review = Nowhere /\ stored = {} /\ strayed = FALSE /\ moves = 0

Move == moves < MaxMoves /\ moves' = moves + 1

(* controller.abort() of the effect's cleanup. *)
MutantAborted(S) == S
Aborted(S) == {}

(* The component's requests no longer reach it; the server may still store. *)
Unmount ==
    /\ shown' = Nowhere /\ results' = {} /\ next' = Nowhere /\ review' = Nowhere
    /\ more' = {} /\ reviews' = {[r EXCEPT !.here = FALSE] : r \in reviews}

(* The effect of the same component runs again: detail pages clear what they *)
(* show, the dashboard keeps its numbers until new ones arrive.              *)
Rerun ==
    IF place.page = "dashboard"
    THEN UNCHANGED <<shown, results, next, review, more, reviews>>
    ELSE /\ shown' = Nowhere /\ results' = {} /\ next' = Nowhere /\ review' = Nowhere
         /\ UNCHANGED <<more, reviews>>

(* The place changes: a link, the history, or the organization switcher. *)
Go(p) ==
    /\ Move /\ place' = p
    /\ IF place # Nowhere /\ place.page = p.page THEN Rerun ELSE Unmount
    /\ loads' = Aborted(loads) \cup {p}
    /\ loading' = TRUE /\ failed' = FALSE
    /\ UNCHANGED <<stored, strayed>>

(* clearOrganization: RequireSelectedOrganization removes the page. *)
ClearOrganization ==
    /\ place # Nowhere /\ Move /\ place' = Nowhere
    /\ Unmount /\ loads' = Aborted(loads) /\ loading' = TRUE /\ failed' = FALSE
    /\ UNCHANGED <<stored, strayed>>

(* finally: the flag is reset however the load ends. *)
MutantLoadingAfter(ok) == ~ok
LoadingAfter(ok) == FALSE

(* All requests of the load are answered; a retrieval run shows its first page. *)
Loaded(p) ==
    /\ p \in loads /\ loads' = loads \ {p}
    /\ shown' = p /\ loading' = LoadingAfter(TRUE)
    /\ IF p.page = "retrieval"
       THEN results' = {p} /\ next' \in {p, Nowhere}
       ELSE UNCHANGED <<results, next>>
    /\ UNCHANGED <<place, failed, more, reviews, review, stored, strayed, moves>>

LoadFails(p) ==
    /\ p \in loads /\ loads' = loads \ {p}
    /\ failed' = TRUE /\ loading' = LoadingAfter(FALSE)
    /\ UNCHANGED <<place, shown, results, next, more, reviews, review, stored, strayed, moves>>

(* loadMore: the held cursor goes to the selected run's results.  A request *)
(* under way, of whichever run, keeps the button disabled.                  *)
LoadMore ==
    /\ place # Nowhere /\ next # Nowhere /\ more = {}
    /\ more' = {place}
    /\ UNCHANGED <<place, hook, loads, reviews, review, stored, strayed, moves>>

MoreLoaded(p) ==
    /\ p \in more /\ more' = {}
    /\ results' = results \cup {p} /\ next' \in {p, Nowhere}
    /\ strayed' = (strayed \/ p # place)
    /\ UNCHANGED <<place, shown, loading, failed, loads, reviews, review, stored, moves>>

MoreFails(p) ==
    /\ p \in more /\ more' = {} /\ failed' = TRUE
    /\ UNCHANGED <<place, shown, results, next, loading, loads, reviews, review, stored, strayed, moves>>

-----------------------------------------------------------------------------
(* The review buttons work when a run is shown and no review is under way. *)
CanReview ==
    /\ place # Nowhere /\ place.page = "answer" /\ shown # Nowhere /\ ~loading
    /\ ~\E r \in reviews : r.here

SubmitReview ==
    /\ CanReview /\ Move
    /\ reviews' = reviews \cup {[run |-> place, saw |-> shown, here |-> TRUE]}
    /\ UNCHANGED <<place, hook, loads, more, review, stored, strayed>>

(* create_review: the row and its audit event are committed; the page that *)
(* sent the review reports it, whichever run it shows by now.              *)
CreateReview(r) ==
    /\ r \in reviews /\ reviews' = reviews \ {r}
    /\ stored' = stored \cup {[run |-> r.run, saw |-> r.saw]}
    /\ review' = IF r.here THEN r.run ELSE review
    /\ UNCHANGED <<place, hook, loads, more, strayed, moves>>

(* The request fails, before or after the commit. *)
ReviewFails(r) ==
    /\ r \in reviews /\ reviews' = reviews \ {r}
    /\ stored' \in {stored, stored \cup {[run |-> r.run, saw |-> r.saw]}}
    /\ UNCHANGED <<place, hook, loads, more, review, strayed, moves>>

ConsoleNext ==
    \/ \E p \in Places : Go(p)
    \/ ClearOrganization \/ LoadMore \/ SubmitReview
    \/ \E p \in loads : Loaded(p) \/ LoadFails(p)
    \/ \E p \in more : MoreLoaded(p) \/ MoreFails(p)
    \/ \E r \in reviews : CreateReview(r) \/ ReviewFails(r)

-----------------------------------------------------------------------------
ConsoleTypeOK ==
    /\ {place, shown, next, review} \subseteq Places \cup {Nowhere}
    /\ results \cup loads \cup more \subseteq Places
    /\ {loading, failed, strayed} \subseteq BOOLEAN /\ moves \in 0 .. MaxMoves
    /\ \A r \in reviews \cup stored : r.run \in Places /\ r.saw \in Places
    /\ loading => place = Nowhere \/ loads # {}

(* A detail page shows the run that is selected, of the selected             *)
(* organization, and nothing of an earlier one, in whatever order answers    *)
(* arrive, with one exception that is the history's: a further page of       *)
(* results that was under way arrives at the next run.  Each stored review   *)
(* was written by somebody who saw the run it is about                       *)
(* (useAnswerRunDetail.ts, useRetrievalRunDetail.ts, AnswerRunDetailPage.tsx). *)
ConsoleFollowsSelection ==
    /\ place # Nowhere /\ place.page # "dashboard" => shown \in {place, Nowhere}
    /\ ~strayed => results \subseteq {place}
    /\ \A r \in stored : r.saw = r.run
=============================================================================

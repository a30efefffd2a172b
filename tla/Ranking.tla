------------------------------ MODULE Ranking ------------------------------
(***************************************************************************)
(* From the indexed chunks to the passages a model is given: the rankings  *)
(* of the vector and of the keyword search are fused, repeated contents    *)
(* are removed, the best are returned, and passages are taken into the     *)
(* context within its budget.                                              *)
(***************************************************************************)
EXTENDS Chunking

CONSTANTS
    Normalized(_),  \* texts joined, without the differences of case and white space
    K,              \* rank constant of the fusion
    Scale,          \* scores are multiples of 1 / Scale
    Candidates,     \* bound: candidates of a search
    Limits,         \* limits a request may ask for
    MaximumChunks, MaximumTokens,  \* budget of the context
    MinimumTokens   \* minimum_passage_characters, a token counted as a character

ASSUME RankingSettings ==
    /\ K \in Nat \ {0} /\ Candidates \in Nat \ {0} /\ Limits \subseteq Nat \ {0}
    /\ MaximumChunks \in Nat \ {0} /\ MaximumTokens \in Nat /\ MinimumTokens \in Nat
    /\ Scale \in Nat \ {0} /\ \A r \in 1 .. Candidates : (Scale \div (K + r)) * (K + r) = Scale

VARIABLES
    query,    \* the step of the request
    vector,   \* chunks in the order of the vector search
    keyword,  \* chunks in the order of the keyword search
    limit,    \* request.limit
    fused,    \* all candidates in the order of their fused scores
    results,  \* the retrieval results
    seen,     \* results the context selector has looked at
    context   \* the selected passages, or the passages of the generation service

querying == <<query, vector, keyword, limit, fused, results, seen, context>>
vars == <<indexing, querying>>

QuerySteps == {"idle", "fuse", "answer", "select", "selected", "judged", "no_context", "abstained"}

Init ==
    /\ IndexingInit
    /\ query = "idle" /\ vector = <<>> /\ keyword = <<>> /\ limit = 0
    /\ fused = <<>> /\ results = <<>> /\ seen = 0 /\ context = <<>>

-----------------------------------------------------------------------------
Chunks == DOMAIN chunks

(* Rankings: what a search returns, without repetition. *)
Rankings == {s \in UNION {[1 .. n -> Chunks] : n \in 0 .. Candidates} : IsInjective(s)}

Search ==
    /\ stage = "indexed" /\ query = "idle" /\ query' = "fuse"
    /\ vector' \in Rankings /\ keyword' \in Rankings
    /\ limit' \in Limits
    /\ UNCHANGED <<indexing, fused, results, seen, context>>

(* A chunk that is not in a ranking has no rank and no share of the score. *)
Share(s, c)   == IF c \in Range(s) THEN Scale \div (K + RankIn(s, c)) ELSE 0

MutantScore(c) == Share(vector, c)
Score(c)       == Share(vector, c) + Share(keyword, c)

(* reciprocal_rank_fusion: the candidates are met in the order of the       *)
(* vector search, then of the keyword search, and sorted by descending      *)
(* score; the sort is stable.                                               *)
Met      == Range(vector) \cup Range(keyword)
MetAt(c) == IF c \in Range(vector) THEN RankIn(vector, c) ELSE Len(vector) + RankIn(keyword, c)

Better(c) == {d \in Met : Score(d) > Score(c) \/ (Score(d) = Score(c) /\ MetAt(d) < MetAt(c))}
Fused     == InOrder(Met, [c \in Met |-> Better(c)])

(* deduplicate_results: the first of the chunks with the same normalized content. *)
Content(c) == Normalized([i \in DOMAIN chunks[c].pieces |-> chunks[c].pieces[i].text])

IsFirst(s, c) == \A d \in Range(s) : Content(d) = Content(c) => RankIn(s, c) <= RankIn(s, d)
Distinct(s)   == Among(s, {c \in Range(s) : IsFirst(s, c)})

Fuse ==
    /\ query = "fuse" /\ query' = "answer"
    /\ fused' = Fused
    /\ results' = LET distinct == Distinct(Fused)
                  IN  SubSeq(distinct, 1, Lesser(limit, Len(distinct)))
    /\ UNCHANGED <<indexing, vector, keyword, limit, seen, context>>

-----------------------------------------------------------------------------
(* ContextSelector.select: passages too long for the whole budget are       *)
(* skipped; the first that does not fit into the rest ends the selection.   *)
Length(c) == TokenCount(chunks[c].pieces)

Used(s) == Total([i \in DOMAIN s |-> Length(s[i])])

MutantStops(taken, c) == Len(taken) >= MaximumChunks
Stops(taken, c) ==
    \/ Len(taken) >= MaximumChunks
    \/ Length(c) <= MaximumTokens /\ Used(taken) + Length(c) > MaximumTokens

(* AnswerService: without results it abstains. *)
Answer ==
    /\ query = "answer" /\ query' = IF results = <<>> THEN "abstained" ELSE "select"
    /\ UNCHANGED <<indexing, vector, keyword, limit, fused, results, seen, context>>

(* One turn of the loop over the results. *)
Select ==
    /\ query = "select" /\ seen < Len(results) /\ ~Stops(context, results[seen + 1])
    /\ seen' = seen + 1
    /\ context' = IF Length(results[seen + 1]) > MaximumTokens THEN context
                  ELSE Append(context, results[seen + 1])
    /\ UNCHANGED <<indexing, query, vector, keyword, limit, fused, results>>

(* Its end; without a passage that fits the answer fails. *)
EndSelect ==
    /\ query = "select" /\ (seen < Len(results) => Stops(context, results[seen + 1]))
    /\ query' = IF context = <<>> THEN "no_context" ELSE "selected"
    /\ UNCHANGED <<indexing, vector, keyword, limit, fused, results, seen, context>>

(* AnswerGenerationService: AbstentionPolicy keeps the passages that are long *)
(* enough and related to the query, by a keyword or by their similarity: the  *)
(* first n of the vector search are above the threshold.                      *)
Related(c, n) == c \in Range(keyword) \/ c \in Range(SubSeq(vector, 1, n))

Judge ==
    /\ query = "answer"
    /\ \E n \in 0 .. Len(vector) :
          context' = Among(results, {c \in Range(results) : Length(c) >= MinimumTokens /\ Related(c, n)})
    /\ query' = IF context' = <<>> THEN "abstained" ELSE "judged"
    /\ UNCHANGED <<indexing, vector, keyword, limit, fused, results, seen>>

Next ==
    \/ IndexingNext /\ UNCHANGED querying
    \/ Search \/ Fuse \/ Answer \/ Select \/ EndSelect \/ Judge

Spec == Init /\ [][Next]_vars

-----------------------------------------------------------------------------
(* Every variable has its type; rankings hold chunks without repetition. *)
TypeOK ==
    /\ source \in Sources /\ stage \in Stages /\ query \in QuerySteps
    /\ next \in 0 .. Len(fragments)
    /\ \A i \in DOMAIN fragments : fragments[i].text \in Texts \ {Blank}
    /\ DOMAIN origin = DOMAIN fragments
    /\ \A s \in {vector, keyword, fused, results, context} :
          IsInjective(s) /\ Range(s) \subseteq Chunks
    /\ limit \in Limits \cup {0} /\ seen \in 0 .. Len(results)

(* A chunk that neither search ranks below another, and one ranks above it,  *)
(* comes before the other; a chunk that both find comes before one that a    *)
(* single search finds, as long as there are no more candidates than K;      *)
(* every candidate is represented among the results by the best chunk of its *)
(* content, except those after the limit; and no content is given twice      *)
(* (fusion.py, retrieval/service.py search).                                 *)
Ahead(s, c, d) == c \in Range(s) /\ (d \in Range(s) => RankIn(s, c) < RankIn(s, d))
Level(s, c, d) == c \notin Range(s) /\ d \notin Range(s)

BestPassagesFirst ==
    query \notin {"idle", "fuse"} =>
        /\ Range(fused) = Range(vector) \cup Range(keyword)
        /\ \A c, d \in Range(fused) :
              /\ Ahead(vector, c, d) \/ Ahead(keyword, c, d)
              /\ \A s \in {vector, keyword} : Ahead(s, c, d) \/ Level(s, c, d)
              => RankIn(fused, c) < RankIn(fused, d)
        /\ LET both == Range(vector) \cap Range(keyword)
           IN  Candidates <= K =>
                   \A c \in both, d \in Range(fused) \ both : RankIn(fused, c) < RankIn(fused, d)
        /\ \A c, d \in Range(results) : Content(c) = Content(d) => c = d
        /\ \A c \in Range(fused) :
              \/ \E d \in Range(results) :
                    Content(d) = Content(c) /\ RankIn(fused, d) <= RankIn(fused, c)
              \/ /\ Len(results) = limit
                 /\ \A d \in Range(results) : RankIn(fused, d) < RankIn(fused, c)

(* The context is within its budget and keeps the order of the results; it  *)
(* is empty only if no result fits by itself, and one that fits by itself   *)
(* is left out only if there are as many as allowed or from the first on    *)
(* that did not fit into the rest (context_selection.py select).            *)
ContextFitsTheBudget ==
    query \in {"selected", "no_context"} =>
        /\ Used(context) <= MaximumTokens /\ Len(context) <= MaximumChunks
        /\ Range(context) \subseteq Range(results)
        /\ \A i, j \in DOMAIN context :
              i < j => RankIn(results, context[i]) < RankIn(results, context[j])
        /\ query = "no_context" <=> \A c \in Range(results) : Length(c) > MaximumTokens
        /\ \A c \in Range(results) \ Range(context) :
              \/ Length(c) > MaximumTokens \/ Len(context) = MaximumChunks
              \/ \E d \in Range(results) :
                    /\ RankIn(results, d) <= RankIn(results, c)
                    /\ Length(d) <= MaximumTokens /\ Used(context) + Length(d) > MaximumTokens
=============================================================================

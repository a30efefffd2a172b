------------------------------ MODULE Chunking ------------------------------
(***************************************************************************)
(* The text of a document on its way into the index: pages are extracted,  *)
(* split into paragraphs and these into fragments, fragments are packed    *)
(* into chunks that overlap, and the chunks are embedded.                  *)
(*                                                                         *)
(* A text is a value of its own.  The tokenizer is known by the number of  *)
(* tokens of a text and by the text that some of its tokens decode to,     *)
(* stripped of white space: that text may be blank, its ends may be cut    *)
(* characters, and it may have any number of tokens when encoded again.    *)
(***************************************************************************)
EXTENDS Lists

CONSTANTS
    Texts, Blank,
    Tokens(_),    \* len(encode(text))
    Slice(_, _, _),  \* decode(encode(text)[i - 1 : j]).strip()
    Parted(_),    \* tokens of a text and a blank line after it
    Sources,      \* documents: [kind |-> "pdf" or "text", pages |-> sequences of paragraphs]
    Characters,   \* MINIMUM_EXTRACTED_CHARACTERS, a token counted as a character
    Target, Overlap, Maximum  \* ChunkingSettings

(* validate_token_limits *)
ASSUME ChunkingSettings ==
    /\ Target \in Nat \ {0} /\ Overlap \in 0 .. Target - 1
    /\ Maximum \in Nat /\ Maximum >= Target
    /\ Characters \in Nat

(* Decoding all the tokens of a text gives the text back. *)
ASSUME Encoding ==
    /\ Blank \in Texts
    /\ \A t \in Texts :
          /\ Tokens(t) \in Nat /\ (Tokens(t) = 0 <=> t = Blank)
          /\ Parted(t) \in Nat /\ Slice(t, 1, Tokens(t)) = t
          /\ \A i, j \in 1 .. Tokens(t) : Slice(t, i, j) \in Texts

(* A document is a list of pages, a page a list of paragraphs. *)
ASSUME DocumentFields ==
    \A s \in Sources :
        /\ s.kind \in {"pdf", "text"} /\ s.pages \in Seq(Range(s.pages))
        /\ \A p \in Range(s.pages) : p \in Seq(Range(p)) /\ Range(p) \subseteq Texts \ {Blank}

VARIABLES
    source,    \* the document
    stage,     \* the step of the ingestion
    paragraphs,\* paragraphs not yet split
    done,      \* tokens of the first of them that have been
    fragments, \* fragments, in the order of the text
    origin,    \* history: for each fragment the number of its paragraph and its tokens
    next,      \* fragments packed so far
    current,   \* the chunk being packed
    chunks     \* document_chunks

indexing == <<source, stage, paragraphs, done, fragments, origin, next, current, chunks>>

Stages == {"extract", "split", "chunk", "embed", "indexed", "failed"}
NoPage == 0

(* A piece is a text and its page.  The first `lead' pieces of a chunk      *)
(* repeat the end of the chunk before.                                      *)
Size(f) == Tokens(f.text)
NoChunk == [pieces |-> <<>>, lead |-> 0]

TextTokens(pieces) == Total([i \in DOMAIN pieces |-> Size(pieces[i])])

(* _token_count: of the pieces joined by blank lines. *)
TokenCount(pieces) ==
    Total([i \in DOMAIN pieces |->
              IF i < Len(pieces) THEN Parted(pieces[i].text) ELSE Size(pieces[i])])

IndexingInit ==
    /\ source \in Sources /\ stage = "extract"
    /\ paragraphs = <<>> /\ done = 0 /\ fragments = <<>> /\ origin = <<>> /\ next = 0
    /\ current = NoChunk /\ chunks = <<>>

-----------------------------------------------------------------------------
(* The paragraphs, page by page; a plain text is one page without a number. *)
Places(s) == UNION {{p} \X DOMAIN s.pages[p] : p \in DOMAIN s.pages}
Earlier(s) == [b \in Places(s) |-> {a \in Places(s) : a[1] < b[1] \/ (a[1] = b[1] /\ a[2] < b[2])}]

Paragraphs(s) ==
    LET order == InOrder(Places(s), Earlier(s))
    IN  [n \in DOMAIN order |->
            [text |-> s.pages[order[n][1]][order[n][2]],
             page |-> IF s.kind = "pdf" THEN order[n][1] ELSE NoPage]]

TextLength(s) == Total([n \in DOMAIN Paragraphs(s) |-> Tokens(Paragraphs(s)[n].text)])

(* A PDF with too little text needs OCR: the ingestion fails.              *)
Readable(s) == s.kind = "pdf" => TextLength(s) >= Characters

Extract ==
    /\ stage = "extract"
    /\ IF Readable(source)
       THEN stage' = "split" /\ paragraphs' = Paragraphs(source)
       ELSE stage' = "failed" /\ UNCHANGED paragraphs
    /\ UNCHANGED <<source, done, fragments, origin, next, current, chunks>>

(* The file is damaged, encrypted or not UTF-8. *)
ExtractFails ==
    /\ stage = "extract" /\ stage' = "failed"
    /\ UNCHANGED <<source, paragraphs, done, fragments, origin, next, current, chunks>>

(* The paragraph that is being split. *)
Number == Len(Paragraphs(source)) - Len(paragraphs) + 1

(* _build_fragments: a paragraph is cut in steps of Target tokens, one of at *)
(* most Target is a fragment itself; what decodes to white space is dropped. *)
MutantKept(t) == TRUE
Kept(t) == t # Blank

MutantAtEnd(t, n) == n + Target > Tokens(t)
AtEnd(t, n)       == n = Tokens(t)

Cut ==
    /\ stage = "split" /\ paragraphs # <<>>
    /\ LET p    == Head(paragraphs)
           last == Lesser(done + Target, Tokens(p.text))
           text == Slice(p.text, done + 1, last)
       IN  /\ IF Kept(text)
              THEN /\ fragments' = Append(fragments, [text |-> text, page |-> p.page])
                   /\ origin' = Append(origin, [paragraph |-> Number, first |-> done + 1, last |-> last])
              ELSE UNCHANGED <<fragments, origin>>
           /\ IF AtEnd(p.text, last)
              THEN paragraphs' = Tail(paragraphs) /\ done' = 0
              ELSE done' = last /\ UNCHANGED paragraphs
    /\ UNCHANGED <<source, stage, next, current, chunks>>

EndSplit ==
    /\ stage = "split" /\ paragraphs = <<>> /\ stage' = "chunk"
    /\ UNCHANGED <<source, paragraphs, done, fragments, origin, next, current, chunks>>

(* _build_overlap: the last Overlap tokens, piece by piece from the end;     *)
(* left[k] are the remaining tokens after the last k pieces.  Only the piece *)
(* reached last is cut, and dropped if the rest of it is blank.              *)
LastTokens(f, n) == [f EXCEPT !.text = Slice(f.text, Size(f) - Lesser(Size(f), n) + 1, Size(f))]

LeftAfter(pieces) ==
    LET left[k \in 0 .. Len(pieces)] ==
            IF k = 0 THEN Overlap
            ELSE left[k - 1] - Lesser(Size(pieces[Len(pieces) - k + 1]), left[k - 1])
    IN  left

OverlapOf(pieces) ==
    LET left  == LeftAfter(pieces)
        count == Cardinality({k \in 1 .. Len(pieces) : left[k - 1] > 0})
        taken == [j \in 1 .. count |-> LastTokens(pieces[Len(pieces) - count + j], left[count - j])]
    IN  IF taken # <<>> /\ taken[1].text = Blank THEN Tail(taken) ELSE taken

(* The chunk that begins with fragment f after the chunk c is closed. *)
MutantAfter(c, f) == [pieces |-> OverlapOf(c.pieces) \o <<f>>, lead |-> Len(OverlapOf(c.pieces))]
After(c, f) ==
    LET overlap == OverlapOf(c.pieces)
    IN  IF TokenCount(overlap \o <<f>>) > Maximum
        THEN [pieces |-> <<f>>, lead |-> 0]
        ELSE [pieces |-> overlap \o <<f>>, lead |-> Len(overlap)]

(* chunk: one turn of its loop over the fragments. *)
Fragment == fragments[next + 1]

Pack ==
    /\ stage = "chunk" /\ next < Len(fragments)
    /\ next' = next + 1
    /\ LET candidate == [current EXCEPT !.pieces = Append(@, Fragment)]
       IN  IF current = NoChunk \/ TokenCount(candidate.pieces) <= Target
           THEN current' = candidate /\ UNCHANGED chunks
           ELSE chunks' = Append(chunks, current) /\ current' = After(current, Fragment)
    /\ UNCHANGED <<source, stage, paragraphs, done, fragments, origin>>

(* The last chunk; a document without chunks fails. *)
Close ==
    /\ stage = "chunk" /\ next = Len(fragments)
    /\ chunks' = IF current = NoChunk THEN chunks ELSE Append(chunks, current)
    /\ current' = NoChunk
    /\ stage' = IF chunks' = <<>> THEN "failed" ELSE "embed"
    /\ UNCHANGED <<source, paragraphs, done, fragments, origin, next>>

(* The provider returns one non-zero vector of the right length for each chunk, or fails. *)
Embed ==
    /\ stage = "embed" /\ stage' \in {"indexed", "failed"}
    /\ UNCHANGED <<source, paragraphs, done, fragments, origin, next, current, chunks>>

IndexingNext == Extract \/ ExtractFails \/ Cut \/ EndSplit \/ Pack \/ Close \/ Embed

-----------------------------------------------------------------------------
(* _build_chunk: the page of a chunk, or its first and last page. *)
Pages(c) == {c.pieces[i].page : i \in DOMAIN c.pieces} \ {NoPage}
PageRange(c) ==
    IF Pages(c) = {} THEN <<>>
    ELSE <<CHOOSE p \in Pages(c) : \A q \in Pages(c) : p <= q,
           CHOOSE p \in Pages(c) : \A q \in Pages(c) : p >= q>>

New(c) == SubSeq(c.pieces, c.lead + 1, Len(c.pieces))

(* The fragments hold the paragraphs in their order, none longer than       *)
(* Target tokens of it, and every token of what has been split so far is in *)
(* a fragment or in white space (chunking.py _build_fragments).             *)
FragmentsCoverTheText ==
    stage \in {"split", "chunk", "embed"} =>
    LET all     == Paragraphs(source)
        isSplit(n, k) == n < Number \/ (n = Number /\ k <= done)
    IN  /\ \A n \in DOMAIN all : \A k \in 1 .. Tokens(all[n].text) :
              isSplit(n, k) =>
                  \/ \E o \in Range(origin) : o.paragraph = n /\ k \in o.first .. o.last
                  \/ \E i \in 1 .. k, j \in k .. Tokens(all[n].text) : Slice(all[n].text, i, j) = Blank
        /\ \A a, b \in DOMAIN origin : a < b =>
              \/ origin[a].paragraph < origin[b].paragraph
              \/ origin[a].paragraph = origin[b].paragraph /\ origin[a].last < origin[b].first
        /\ \A a \in DOMAIN fragments :
              LET o == origin[a]
                  p == all[o.paragraph]
              IN  /\ fragments[a] = [text |-> Slice(p.text, o.first, o.last), page |-> p.page]
                  /\ o.first <= o.last /\ o.last < o.first + Target

(* A fragment that is a whole paragraph has at most Target tokens; what one *)
(* that is cut from a longer paragraph has when encoded is not limited.     *)
IsCut(a) == Tokens(Paragraphs(source)[origin[a].paragraph].text) > Target

(* The chunk c begins with the last tokens of the chunk b, as many as       *)
(* Overlap: pieces of b, the first perhaps in part; there are fewer only    *)
(* if b has no more, or if the rest of Overlap is white space.              *)
Repeats(b, c) ==
    LET lead == SubSeq(c.pieces, 1, c.lead)
        rest == SubSeq(c.pieces, 2, c.lead)
        n    == Len(b.pieces) - c.lead
        cut(f, m) == Slice(f.text, Size(f) - m + 1, Size(f))
    IN  /\ n >= 0
        /\ \A k \in 1 .. c.lead : lead[k].page = b.pieces[n + k].page
        /\ \A k \in 2 .. c.lead : lead[k] = b.pieces[n + k]
        /\ \E m \in 1 .. Size(b.pieces[n + 1]) :
              /\ lead[1].text = cut(b.pieces[n + 1], m)
              /\ LET all == m + TextTokens(rest)
                 IN  \/ all = Overlap
                     \/ /\ all < Overlap /\ m = Size(b.pieces[n + 1])
                        /\ n = 0 \/ cut(b.pieces[n], Lesser(Size(b.pieces[n]), Overlap - all)) = Blank

(* Every fragment is in exactly one chunk as new text, in the order of the  *)
(* document; a chunk is no longer than Maximum, unless it is a single       *)
(* fragment cut from a longer paragraph, which is never measured; what it   *)
(* repeats is the end of the chunk before; its pages are between those of   *)
(* its neighbours (chunking.py chunk).                                      *)
ChunksCoverTheDocument ==
    stage \in {"split", "chunk", "embed"} =>
    LET packed == Append(chunks, current)
    IN  /\ \E start \in [0 .. Len(packed) -> 0 .. next] :
              /\ start[0] = 0 /\ start[Len(packed)] = next
              /\ \A i \in DOMAIN packed :
                    /\ start[i - 1] <= start[i]
                    /\ New(packed[i]) = SubSeq(fragments, start[i - 1] + 1, start[i])
        /\ \A i \in DOMAIN packed :
              \/ TokenCount(packed[i].pieces) <= Maximum
              \/ \E a \in DOMAIN fragments : packed[i].pieces = <<fragments[a]>> /\ IsCut(a)
        /\ \A i \in DOMAIN chunks :
              /\ New(chunks[i]) # <<>>
              /\ chunks[i].lead > 0 => Repeats(chunks[i - 1], chunks[i])
              /\ i > 1 /\ Pages(chunks[i]) # {} =>
                    PageRange(chunks[i])[1] \in PageRange(chunks[i - 1])[1] .. PageRange(chunks[i])[2]
=============================================================================

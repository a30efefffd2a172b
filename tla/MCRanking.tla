----------------------------- MODULE MCRanking -----------------------------
(***************************************************************************)
(* Ranking instantiated for TLC, with a small tokenizer: a text is a       *)
(* sequence of characters, of which "e" has two tokens, "_" is white space *)
(* and "?" replaces what is left of a character that has been cut.         *)
(***************************************************************************)
EXTENDS Ranking, SequencesExt

Encoded(t) == FlattenSeq([i \in DOMAIN t |-> IF t[i] = "e" THEN <<"e1", "e2">> ELSE <<t[i]>>])

Decoded(s) ==
    FlattenSeq([i \in DOMAIN s |->
        CASE s[i] = "e1" /\ i < Len(s) -> <<"e">>
          [] s[i] = "e2" /\ i > 1      -> <<>>
          [] s[i] \in {"e1", "e2"}      -> <<"?", "?">>
          [] OTHER                      -> <<s[i]>>])

Stripped(t) ==
    LET filled == {i \in DOMAIN t : t[i] # "_"}
    IN  IF filled = {} THEN <<>> ELSE SubSeq(t, Min(filled), Max(filled))

MCBlank == <<>>
a == <<"x", "x">>
A == <<"x", "X">>
b == <<"x">>
e == <<"e">>
long == <<"x", "x", "e", "x", "e">>
gap  == <<"x", "x", "x", "_", "_", "_", "x">>

MCSources ==
    {[kind |-> "text", pages |-> <<p>>] :
        p \in SeqOf({a, A}, 3) \cup {<<long>>, <<gap, A>>, <<a, long>>, <<b, long, a>>, <<e, b, a>>}} \cup
    {[kind |-> "pdf", pages |-> <<p, q>>] : p \in SeqOf({b, gap}, 2), q \in SeqOf({b}, 1)}

(* All that can be cut from these texts, and from what is cut. *)
Cuts(S) == UNION {{Stripped(Decoded(SubSeq(Encoded(t), i, j))) : i, j \in 1 .. Len(Encoded(t))} : t \in S}
AllTexts == {MCBlank} \cup Cuts({a, A, b, e, long, gap}) \cup Cuts(Cuts({long, gap}))
MCTexts == AllTexts

(* The tokenizer and the normalization as tables. *)
CountOf == [t \in MCTexts |-> Len(Encoded(t))]
SliceOf ==
    [t \in MCTexts |->
        [i \in 1 .. CountOf[t] + 1 |->
            [j \in 0 .. CountOf[t] |-> Stripped(Decoded(SubSeq(Encoded(t), i, j)))]]]
SmallOf == [t \in MCTexts |-> [i \in DOMAIN t |-> IF t[i] = "X" THEN "x" ELSE t[i]]]

MCTokens(t) == CountOf[t]
MCSlice(t, i, j) == SliceOf[t][i][j]
MCParted(t) == CountOf[t] + IF "X" \in ToSet(t) THEN 1 ELSE 0
MCNormalized(texts) == [i \in DOMAIN texts |-> SmallOf[texts[i]]]
=============================================================================

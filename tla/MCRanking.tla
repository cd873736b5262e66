----------------------------- MODULE MCRanking -----------------------------
(* Two manuals: document 1 is a PDF of four pages, document 2 a PDF or an  *)
(* HTML publication of two blocks.  Page 4 of document 1 is in no channel. *)
EXTENDS Ranking

MCDocOf == [c \in Chunks |-> IF c <= 4 THEN 1 ELSE 2]
MCOrdinal == [c \in Chunks |-> IF c <= 4 THEN c ELSE c - 4]

Retrieved == {1, 2, 5, 6}
Lists(n) == {s \in [1 .. n -> Retrieved] : \A i, j \in 1 .. n : s[i] = s[j] => i = j}
TwoHits == {<<>>} \cup Lists(2)

OverlapsOf(S) == {[d \in Docs |-> IF d = e THEN n ELSE 0] : e \in Docs, n \in S}
OneTitle == OverlapsOf({0, 1})
ManyTokens == OverlapsOf({0, 4})
\* Both documents of the product, one of them, none with a facet.
AnyProduct == {[d \in Docs |-> IF d = e THEN n ELSE 1] : e \in Docs, n \in -1 .. 1}
                \cup {[d \in Docs |-> 0]}
NoSpecs == {{}}
OneSpec == {{}} \cup {{c} : c \in {1, 2}}
NothingGone == {{}}
OneGone == {{}, {5}}
=============================================================================

-------------------------- MODULE MCHtmlIngestion --------------------------
(* Small instances of HtmlIngestion.                                       *)
EXTENDS HtmlIngestion, TLC

CONSTANTS p1, p2, c1, c2, i1, i2, m1, m2, m3

\* One content of two chunks, then one of one chunk, then one of two.
CountsTwoOneTwo == [v \in Versions |-> IF v = 2 THEN 1 ELSE 2]
\* A content the parser finds nothing in, between two that it can read.
CountsWithEmpty == [v \in Versions |-> IF v = 2 THEN 0 ELSE v]
CountsOne == [v \in Versions |-> 1]

\* Every publication may be linked from any model page.
AnyLinks == [Pubs -> SUBSET Models]
\* Every crawl finds p1 on one model page, any one, and the others on m1's.
OneModelOfP1 == {f \in AnyLinks : \A p \in Pubs :
                   IF p = p1 THEN \E m \in Models : f[p] = {m} ELSE f[p] = {m1}}

Symmetry == Permutations(Pubs) \cup Permutations(Ingesters)
              \cup Permutations(Crawlers) \cup Permutations(Models)
=============================================================================

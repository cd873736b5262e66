--------------------------- MODULE MCPdfIngestion ---------------------------
(* Small instances of PdfIngestion.                                        *)
EXTENDS PdfIngestion

CONSTANTS s1, s2, w1, w2

OnePage == [s \in Shas |-> 1]
OneOrTwoPages == [s \in Shas |-> IF s = s1 THEN 1 ELSE 2]
\* A parse of s1 reads its page, one of s2 loses one of its pages.
MayLosePage == [s \in Shas |-> IF s = s1 THEN {{1}} ELSE {{1}, {2}}]
EveryPage == [s \in Shas |-> {1 .. PageCount[s]}]
=============================================================================

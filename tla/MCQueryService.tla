--------------------------- MODULE MCQueryService ---------------------------
(* Small instances of QueryService.                                        *)
EXTENDS QueryService, TLC

CONSTANTS r1, r2

PdfHit(match) == [src |-> "pdf", image |-> TRUE, match |-> match]
HtmlHit(match) == [src |-> "html", image |-> FALSE, match |-> match]
NoImageHit == [src |-> "pdf", image |-> FALSE, match |-> TRUE]

\* No hit; the wrong product only; the right one among others; a page without
\* an image behind one that has one.
AnyHits == {<<>>, <<PdfHit(FALSE)>>, <<HtmlHit(FALSE), PdfHit(TRUE)>>,
            <<PdfHit(TRUE), NoImageHit>>}

\* A torque read on one source, on none or on one that was not sent; an answer
\* without one; a confidence out of range; every other kind of reply.
AnyReply == [form : {"json"}, index : {0, 1, 3}, torque : {TRUE}, valid : {TRUE}]
              \cup [form : {"json"}, index : {2}, torque : {FALSE}, valid : {TRUE}]
              \cup [form : {"json"}, index : {1}, torque : {TRUE}, valid : {FALSE}]
              \cup [form : Forms, index : {1}, torque : {TRUE}, valid : {TRUE}]
=============================================================================

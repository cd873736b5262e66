------------------------ MODULE MCSearchDuringIngest ------------------------
(* Small instances of SearchDuringIngest.                                  *)
EXTENDS SearchDuringIngest, TLC

CONSTANTS p1, p2, c1, i1, m1

ManualWords == {"Tools:", "brakes", "hubs", "5Nm", "12Nm", "T25", "axle"}

Paragraph(hash, title, text) ==
    [dict |-> TRUE, list |-> FALSE, hash |-> hash, title |-> title,
     content |-> <<[text |-> text, captions |-> <<>>]>>, captions |-> <<>>,
     tools |-> <<>>]
Skipped == [Paragraph(NoHash, <<>>, <<>>) EXCEPT !.dict = FALSE]

\* A module with tools and a block that says a line twice; another module.
FirstManual ==
    [tools |-> <<>>,
     modules |-> <<
       [dict |-> TRUE, hash |-> "a", title |-> <<"brakes">>,
        tools |-> <<<<"T25">>, <<>>>>,
        children |-> <<Skipped,
                       [Paragraph("x", <<"axle">>, <<"axle">>)
                          EXCEPT !.captions = <<<<"12Nm">>>>]>>],
       [dict |-> TRUE, hash |-> "b", title |-> <<"hubs">>, tools |-> <<>>,
        children |-> <<>>]>>]
\* Tools of no module; the first module with other words and a new title; the
\* second is gone.
LastManual ==
    [tools |-> <<<<"T25">>>>,
     modules |-> <<
       [dict |-> TRUE, hash |-> "a", title |-> <<"hubs">>, tools |-> <<>>,
        children |-> <<[Paragraph("y", <<>>, <<"5Nm", "axle">>)
                          EXCEPT !.list = TRUE]>>]>>]

Manuals == <<FirstManual, LastManual>>
\* ManualAssumption checks these.
ManualChunkCount == <<4, 3>>

\* Every publication may be linked from any model page.
AnyLinks == [Pubs -> SUBSET Models]

Symmetry == Permutations(Pubs)
=============================================================================

------------------------- MODULE MCPublicationText -------------------------
(* Small instances of PublicationText.                                     *)
EXTENDS PublicationText, TLC

\* Texts of one, three (after clipping), two and one token; no text at all;
\* texts that fill two batches exactly and one that is left over.
SomeLengths == <<<<1, 20, 7, 3>>, <<>>, <<3, 6, 9, 4, 4>>>>
=============================================================================

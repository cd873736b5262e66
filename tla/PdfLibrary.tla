----------------------------- MODULE PdfLibrary -----------------------------
(***************************************************************************)
(* What the ingestion of PDFs promises to a reader of the database: a PDF, *)
(* named by its SHA-256, appears as a whole, with every page one parse of  *)
(* it could read, and no page of it is ever lost again.                    *)
(*                                                                         *)
(* A document is normally written once.  It can grow when an ingest that   *)
(* started before the document was there parses other pages than the first *)
(* one did.                                                                *)
(***************************************************************************)
CONSTANTS Shas, Reads

VARIABLES
    docs,   \* the PDFs that are indexed
    pages   \* pages[s]: the pages of s that can be found and shown

vars == <<docs, pages>>

Init == docs = {} /\ pages = [s \in Shas |-> {}]

Index(s) ==
    /\ s \notin docs
    /\ docs' = docs \cup {s}
    /\ \E r \in Reads[s] : pages' = [pages EXCEPT ![s] = r]

Grow(s) ==
    /\ s \in docs
    /\ \E r \in Reads[s] :
         /\ r \cap pages[s] = {}
         /\ pages' = [pages EXCEPT ![s] = pages[s] \cup r]
    /\ UNCHANGED docs

Next == \E s \in Shas : Index(s) \/ Grow(s)

Spec == Init /\ [][Next]_vars
=============================================================================

-------------------------- MODULE PublicationIndex --------------------------
(***************************************************************************)
(* What discovery and HTML ingestion promise to a reader of the database:  *)
(* each publication has at most one indexed document, its text is replaced *)
(* as a whole by a content the page really had, and the status column      *)
(* follows  absent -> discovered -> ingested <-> stale.                    *)
(***************************************************************************)
EXTENDS Naturals

CONSTANTS Pubs, MaxVersion

VARIABLES
    page,     \* page[p]: the content the site serves now
    indexed,  \* indexed[p]: the content the index answers from, 0 for none
    status    \* status[p]: the registry's status, "absent" without a row

vars == <<page, indexed, status>>

Init ==
    /\ page = [p \in Pubs |-> 1]
    /\ indexed = [p \in Pubs |-> 0]
    /\ status = [p \in Pubs |-> "absent"]

\* The site publishes a new content.
Publish(p) ==
    /\ page[p] < MaxVersion
    /\ page' = [page EXCEPT ![p] = @ + 1]
    /\ UNCHANGED <<indexed, status>>

\* A crawl takes effect on all its publications at once: it registers new
\* ones and may mark registered ones stale.
Discover ==
    /\ status' \in [Pubs -> {"absent", "discovered", "ingested", "stale"}]
    /\ \A p \in Pubs :
         \/ status'[p] = status[p]
         \/ status[p] = "absent" /\ status'[p] = "discovered"
         \/ status[p] # "absent" /\ status'[p] = "stale"
    /\ UNCHANGED <<page, indexed>>

\* An ingest replaces the whole text of one registered publication and marks
\* it ingested in the same step.  A 'stale' that arrived meanwhile may stay.
Ingest(p) ==
    /\ status[p] # "absent"
    /\ \E v \in 1 .. page[p] : indexed' = [indexed EXCEPT ![p] = v]
    /\ \/ status' = [status EXCEPT ![p] = "ingested"]
       \/ status[p] = "stale" /\ UNCHANGED status
    /\ UNCHANGED page

Next == Discover \/ \E p \in Pubs : Publish(p) \/ Ingest(p)

Spec == Init /\ [][Next]_vars
=============================================================================

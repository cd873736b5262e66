------------------------------ MODULE Registry ------------------------------
(***************************************************************************)
(* The rows of the "publications" table and the two computations that      *)
(* decide what is written to them: PublicationRegistry.upsert, called by   *)
(* the discovery crawl, and PublicationRegistry.set_status, called by the  *)
(* HTML ingestion.                                                         *)
(*                                                                         *)
(* Both load a row, change the loaded object and flush it.  The flush      *)
(* sends only the columns whose value differs from the one that was        *)
(* LOADED, so a write is the set of changed columns together with their    *)
(* new values.  What the row holds when the UPDATE reaches it may no       *)
(* longer be what was loaded.                                              *)
(***************************************************************************)
EXTENDS Naturals

CONSTANTS
    Models,      \* model pages that may link to a publication
    MaxVersion   \* bound: how many contents a publication page goes through

ASSUME MaxVersionAssumption == MaxVersion \in Nat \ {0}

\* A content of a page is named by its rank; its sha256 (content_hash) is as
\* good a name, so the column holds the rank.  0 stands for "no content".
Versions == 1 .. MaxVersion

Statuses == {"discovered", "stale", "ingested"}
Columns == {"status", "hash", "refs"}

\* "absent" is the status of a publication that has no row yet.
Row == [status : Statuses \cup {"absent"},
        hash   : 0 .. MaxVersion,
        refs   : SUBSET Models]
NoRow == [status |-> "absent", hash |-> 0, refs |-> {}]

Write == [cols : SUBSET Columns, row : Row]
NoWrite == [cols |-> {}, row |-> NoRow]

\* What the flush of a loaded object sends: the columns that changed.
Dirty(loaded, target) ==
    [cols |-> (IF target.status = loaded.status THEN {} ELSE {"status"})
                \cup (IF target.hash = loaded.hash THEN {} ELSE {"hash"})
                \cup (IF target.refs = loaded.refs THEN {} ELSE {"refs"}),
     row  |-> target]

\* The row after an INSERT or UPDATE has reached it.
Apply(row, w) ==
    [status |-> IF "status" \in w.cols THEN w.row.status ELSE row.status,
     hash   |-> IF "hash" \in w.cols THEN w.row.hash ELSE row.hash,
     refs   |-> IF "refs" \in w.cols THEN w.row.refs ELSE row.refs]

\* referenced_by_models accumulates the crawl evidence.
MergedRefsReplaced(loaded, refs) == refs   \* mutant: the last crawl wins
MergedRefs(loaded, refs) == loaded.refs \cup refs

\* A row that is new is 'discovered'; one whose content changed is 'stale'.
StatusAfter(loaded, v) ==
    CASE loaded.status = "absent" -> "discovered"
      [] loaded.status # "absent" /\ loaded.hash # v -> "stale"
      [] OTHER -> loaded.status

\* PublicationRegistry.upsert: the write for content v seen on models refs.
Upsert(loaded, v, refs) ==
    Dirty(loaded, [status |-> StatusAfter(loaded, v),
                   hash   |-> v,
                   refs   |-> MergedRefs(loaded, refs)])

\* PublicationRegistry.set_status.  The mutant writes a status nobody knows.
SetStatusMisspelt(loaded, status) ==
    Dirty(loaded, [loaded EXCEPT !.status = "indexed"])
SetStatus(loaded, status) ==
    Dirty(loaded, [loaded EXCEPT !.status = status])
=============================================================================

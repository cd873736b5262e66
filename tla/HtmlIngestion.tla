--------------------------- MODULE HtmlIngestion ---------------------------
(***************************************************************************)
(* Discovery crawls and HTML ingests running against one database and one  *)
(* on-disk page cache.                                                     *)
(*                                                                         *)
(*  - a crawl (parts-lookup-discover) is ONE transaction: it upserts every *)
(*    publication it found and commits at the very end;                    *)
(*  - an ingest (parts-lookup-ingest ingest-html) lists the registry once  *)
(*    and then runs one transaction per publication: fetch, parse, embed,  *)
(*    upsert the document, delete its chunks, insert the new ones, set the *)
(*    status, commit.                                                      *)
(*                                                                         *)
(* The database is PostgreSQL at READ COMMITTED, modelled from how the     *)
(* code uses it: a statement sees the rows committed when it starts, a     *)
(* written row is locked until its transaction ends, a second writer waits *)
(* and then overwrites, a unique key that is taken raises IntegrityError.  *)
(* Uncommitted work lives in the process that did it.                      *)
(***************************************************************************)
EXTENDS Registry, FiniteSets

CONSTANTS
    Pubs,        \* publications of the site
    Crawlers,    \* processes that run parts-lookup-discover
    Ingesters,   \* processes that run parts-lookup-ingest ingest-html
    NoProc,      \* no process: nobody holds the lock
    NoPub,       \* no publication at hand
    Links,       \* what the model pages may say: models linking to each one
    ChunkCount,  \* ChunkCount[v]: chunks the parser finds in content v
    Exclusive    \* TRUE: the operator never starts a command while one runs

Procs == Crawlers \cup Ingesters

ASSUME ProcAssumption ==
    /\ Crawlers \cap Ingesters = {}
    /\ NoProc \notin Procs
    /\ NoPub \notin Pubs
ASSUME LinksAssumption == Links \subseteq [Pubs -> SUBSET Models]
ASSUME ChunkCountAssumption == ChunkCount \in [Versions -> Nat]

\* A chunk row: its ordinal in the document and the content it came from.
Chunk == [ord : Nat, ver : Versions]
ChunksUpTo(v, n) == {[ord |-> o, ver |-> v] : o \in 1 .. n}
ChunksOf(v) == ChunksUpTo(v, ChunkCount[v])

VARIABLES
    live,     \* live[p]: the content www.sram.com serves for p
    cache,    \* cache[p]: the content in the discovery cache file, 0 for none
    reg,      \* reg[p]: committed row of publications
    docs,     \* publications with a committed row of documents
    chunks,   \* chunks[p]: committed rows of chunks of p's document
    rowLock,  \* rowLock[p]: who holds p's row of publications
    docLock,  \* docLock[p]: who holds p's new document row or its chunk rows
    crawl,    \* crawl[c]: a crawl's local state
    ing,      \* ing[i]: an ingest's local state
    unseen    \* unseen[c][p]: history, the evidence that other crawls brought
              \* to p's row between c's SELECT and c's UPDATE of it

vars == <<live, cache, reg, docs, chunks, rowLock, docLock, crawl, ing, unseen>>

CrawlState == [pc      : {"idle", "fetch", "load", "flush", "commit"},
               refresh : BOOLEAN,                     \* --refresh
               found   : [Pubs -> SUBSET Models],     \* links on model pages
               todo    : SUBSET Pubs,
               pub     : Pubs \cup {NoPub},
               ver     : 0 .. MaxVersion,
               loaded  : Row,
               writes  : [Pubs -> Write]]             \* flushed, uncommitted

IngestState == [pc      : {"idle", "fetch", "lookup", "create", "delete",
                           "deleting", "insert", "load", "flush", "commit"},
                todo    : SUBSET Pubs,
                pub     : Pubs \cup {NoPub},
                ver     : 0 .. MaxVersion,
                missed  : BOOLEAN,   \* rows replaced since the DELETE began
                cleared : BOOLEAN,   \* the DELETE removed the rows there are
                next    : Nat,       \* ordinal to insert next
                loaded  : Row,
                write   : Write]

IdleCrawl == [pc |-> "idle", refresh |-> FALSE,
              found |-> [p \in Pubs |-> {}], todo |-> {}, pub |-> NoPub,
              ver |-> 0, loaded |-> NoRow, writes |-> [p \in Pubs |-> NoWrite]]

Between == [pub |-> NoPub, ver |-> 0, missed |-> FALSE, cleared |-> FALSE,
            next |-> 1, loaded |-> NoRow, write |-> NoWrite]

\* An ingest that is not working on a publication: idle, or about to fetch.
AtRest(pc, todo) ==
    [pc |-> pc, todo |-> todo, pub |-> Between.pub, ver |-> Between.ver,
     missed |-> Between.missed, cleared |-> Between.cleared,
     next |-> Between.next, loaded |-> Between.loaded,
     write |-> Between.write]

TypeOK ==
    /\ live \in [Pubs -> Versions]
    /\ cache \in [Pubs -> 0 .. MaxVersion]
    /\ reg \in [Pubs -> Row]
    /\ docs \in SUBSET Pubs
    /\ chunks \in [Pubs -> SUBSET Chunk]
    /\ rowLock \in [Pubs -> Procs \cup {NoProc}]
    /\ docLock \in [Pubs -> Ingesters \cup {NoProc}]
    /\ crawl \in [Crawlers -> CrawlState]
    /\ ing \in [Ingesters -> IngestState]
    /\ unseen \in [Crawlers -> [Pubs -> SUBSET Models]]

NothingUnseen == [p \in Pubs |-> {}]

Init ==
    /\ live = [p \in Pubs |-> 1]
    /\ cache = [p \in Pubs |-> 0]
    /\ reg = [p \in Pubs |-> NoRow]
    /\ docs = {}
    /\ chunks = [p \in Pubs |-> {}]
    /\ rowLock = [p \in Pubs |-> NoProc]
    /\ docLock = [p \in Pubs |-> NoProc]
    /\ crawl = [c \in Crawlers |-> IdleCrawl]
    /\ ing = [i \in Ingesters |-> AtRest("idle", {})]
    /\ unseen = [c \in Crawlers |-> NothingUnseen]

Running(q) == \/ q \in Crawlers /\ crawl[q].pc # "idle"
              \/ q \in Ingesters /\ ing[q].pc # "idle"
MayStart == Exclusive => \A q \in Procs : ~Running(q)

Registered == {p \in Pubs : reg[p].status # "absent"}
Free(lock, p, q) == lock[p] \in {NoProc, q}
Without(lock, q) == [p \in Pubs |-> IF lock[p] = q THEN NoProc ELSE lock[p]]

-----------------------------------------------------------------------------
(* The site.                                                               *)

Publish(p) ==
    /\ live[p] < MaxVersion
    /\ live' = [live EXCEPT ![p] = @ + 1]
    /\ UNCHANGED <<cache, reg, docs, chunks, rowLock, docLock, crawl, ing,
                   unseen>>

-----------------------------------------------------------------------------
(* A crawl.                                                                *)

\* The model pages are read first; they decide which publications follow.
StartCrawl(c) ==
    /\ crawl[c].pc = "idle" /\ MayStart
    /\ \E refresh \in BOOLEAN, found \in Links :
         LET todo == {p \in Pubs : found[p] # {}} IN
         crawl' = [crawl EXCEPT ![c] =
                     [IdleCrawl EXCEPT
                        !.pc = IF todo = {} THEN "commit" ELSE "fetch",
                        !.refresh = refresh, !.found = found, !.todo = todo]]
    /\ UNCHANGED <<live, cache, reg, docs, chunks, rowLock, docLock, ing,
                   unseen>>

\* Fetcher.get: a cached page is used however old it is, unless --refresh.
CrawlFetch(c) ==
    /\ crawl[c].pc = "fetch"
    /\ \E p \in crawl[c].todo :
         LET hit == cache[p] # 0 /\ ~crawl[c].refresh
             ver == IF hit THEN cache[p] ELSE live[p]
         IN /\ cache' = [cache EXCEPT ![p] = ver]
            /\ crawl' = [crawl EXCEPT ![c] =
                 [@ EXCEPT !.pc = "load", !.pub = p, !.ver = ver]]
    /\ UNCHANGED <<live, reg, docs, chunks, rowLock, docLock, ing, unseen>>

\* upsert: SELECT the row ...
CrawlLoad(c) ==
    /\ crawl[c].pc = "load"
    /\ crawl' = [crawl EXCEPT ![c] =
         [@ EXCEPT !.pc = "flush", !.loaded = reg[crawl[c].pub]]]
    /\ UNCHANGED <<live, cache, reg, docs, chunks, rowLock, docLock, ing,
                   unseen>>

\* ... and INSERT or UPDATE it.  last_seen_at changes on every upsert, so a
\* row that exists is always written and locked.
CrawlFlush(c) ==
    LET p == crawl[c].pub
        todo == crawl[c].todo \ {p}
    IN /\ crawl[c].pc = "flush"
       /\ Free(rowLock, p, c)
       /\ crawl[c].loaded.status = "absent" => reg[p].status = "absent"
       /\ rowLock' = [rowLock EXCEPT ![p] = c]
       /\ crawl' = [crawl EXCEPT ![c] =
            [@ EXCEPT !.pc = IF todo = {} THEN "commit" ELSE "fetch",
                      !.todo = todo, !.pub = NoPub, !.ver = 0,
                      !.loaded = NoRow,
                      !.writes = [crawl[c].writes EXCEPT ![p] =
                        Upsert(crawl[c].loaded, crawl[c].ver,
                               crawl[c].found[p])]]]
       /\ UNCHANGED <<live, cache, reg, docs, chunks, docLock, ing, unseen>>

\* The evidence c's commit brings to p's row, and who has read it too early.
Brought(c, p) == Apply(reg[p], crawl[c].writes[p]).refs \ reg[p].refs
HasRead(d, p) == crawl[d].pc = "flush" /\ crawl[d].pub = p

CommitCrawl(c) ==
    /\ crawl[c].pc = "commit"
    /\ reg' = [p \in Pubs |-> Apply(reg[p], crawl[c].writes[p])]
    /\ rowLock' = Without(rowLock, c)
    /\ crawl' = [crawl EXCEPT ![c] = IdleCrawl]
    /\ unseen' = [d \in Crawlers |-> [p \in Pubs |->
         CASE d = c -> {}
           [] d # c /\ HasRead(d, p) -> unseen[d][p] \cup Brought(c, p)
           [] OTHER -> unseen[d][p]]]
    /\ UNCHANGED <<live, cache, docs, chunks, docLock, ing>>

\* mutant: the session is dropped without a rollback
RollBackCrawlLeaky(c) ==
    /\ crawl' = [crawl EXCEPT ![c] = IdleCrawl]
    /\ UNCHANGED <<live, cache, reg, docs, chunks, rowLock, docLock, ing,
                   unseen>>

\* Whatever goes wrong ends the whole crawl and drops every upsert of it: a
\* page that cannot be fetched or parsed, a database error, a kill.
RollBackCrawl(c) ==
    /\ rowLock' = Without(rowLock, c)
    /\ crawl' = [crawl EXCEPT ![c] = IdleCrawl]
    /\ unseen' = [unseen EXCEPT ![c] = NothingUnseen]
    /\ UNCHANGED <<live, cache, reg, docs, chunks, docLock, ing>>

AbortCrawl(c) == crawl[c].pc # "idle" /\ RollBackCrawl(c)

\* The row was inserted by another crawl since this one looked.
CrawlCollides(c) ==
    /\ crawl[c].pc = "flush"
    /\ Free(rowLock, crawl[c].pub, c)
    /\ crawl[c].loaded.status = "absent"
    /\ reg[crawl[c].pub].status # "absent"
    /\ RollBackCrawl(c)

-----------------------------------------------------------------------------
(* An ingest.                                                              *)

\* The registry is listed once.  Without ids every publication that is
\* 'discovered' or 'stale' is a target, with ids any registered ones.
Targets ==
    {T \in SUBSET Registered :
       /\ T # {}
       /\ \/ T = {p \in Pubs : reg[p].status \in {"discovered", "stale"}}
          \/ T \subseteq Registered}

StartIngest(i) ==
    /\ ing[i].pc = "idle" /\ MayStart
    /\ \E todo \in Targets : ing' = [ing EXCEPT ![i] = AtRest("fetch", todo)]
    /\ UNCHANGED <<live, cache, reg, docs, chunks, rowLock, docLock, crawl,
                   unseen>>

\* What follows a target that is done, whether it went well or not.
NextTarget(todo) == AtRest(IF todo = {} THEN "idle" ELSE "fetch", todo)

\* Fetch past the cache (and into it), parse, embed: nothing else is touched
\* and no transaction is open, however long it takes.
IngestFetch(i) ==
    /\ ing[i].pc = "fetch"
    /\ \E p \in ing[i].todo :
         /\ ChunkCount[live[p]] > 0
         /\ cache' = [cache EXCEPT ![p] = live[p]]
         /\ ing' = [ing EXCEPT ![i] =
              [@ EXCEPT !.pc = "lookup", !.pub = p,
                        !.todo = ing[i].todo \ {p}, !.ver = live[p]]]
    /\ UNCHANGED <<live, reg, docs, chunks, rowLock, docLock, crawl, unseen>>

\* The fetch fails, or the page was fetched and no chunks come of it, or they
\* cannot be embedded: IngestionError, the next target follows.
IngestFails(i) ==
    /\ ing[i].pc = "fetch"
    /\ \E p \in ing[i].todo :
         /\ cache' \in {cache, [cache EXCEPT ![p] = live[p]]}
         /\ ing' = [ing EXCEPT ![i] = NextTarget(@.todo \ {p})]
    /\ UNCHANGED <<live, reg, docs, chunks, rowLock, docLock, crawl, unseen>>

\* mutant: the row of a stale publication is locked before its document
LookUpDocumentLocking(i) ==
    /\ ing[i].pc = "lookup"
    /\ IF reg[ing[i].pub].status = "stale"
       THEN /\ Free(rowLock, ing[i].pub, i)
            /\ rowLock' = [rowLock EXCEPT ![ing[i].pub] = i]
       ELSE UNCHANGED rowLock
    /\ ing' = [ing EXCEPT ![i] =
         [@ EXCEPT !.pc = IF ing[i].pub \in docs THEN "delete" ELSE "create"]]
    /\ UNCHANGED <<live, cache, reg, docs, chunks, docLock, crawl, unseen>>

\* mutant: a known document is left as it is, as the PDF pipeline does
LookUpDocumentOrSkip(i) ==
    /\ ing[i].pc = "lookup"
    /\ ing' = [ing EXCEPT ![i] =
         [@ EXCEPT !.pc = IF ing[i].pub \in docs THEN "load" ELSE "create"]]
    /\ UNCHANGED <<live, cache, reg, docs, chunks, rowLock, docLock, crawl,
                   unseen>>

\* upsert_document: SELECT by source_ref ...
LookUpDocument(i) ==
    /\ ing[i].pc = "lookup"
    /\ ing' = [ing EXCEPT ![i] =
         [@ EXCEPT !.pc = IF ing[i].pub \in docs THEN "delete" ELSE "create"]]
    /\ UNCHANGED <<live, cache, reg, docs, chunks, rowLock, docLock, crawl,
                   unseen>>

\* ... and INSERT it when there was none.
CreateDocument(i) ==
    LET p == ing[i].pub IN
    /\ ing[i].pc = "create"
    /\ Free(docLock, p, i)
    /\ p \notin docs
    /\ docLock' = [docLock EXCEPT ![p] = i]
    /\ ing' = [ing EXCEPT ![i] = [@ EXCEPT !.pc = "delete"]]
    /\ UNCHANGED <<live, cache, reg, docs, chunks, rowLock, crawl, unseen>>

\* delete_chunks: the DELETE sees the rows committed when it starts, waits
\* for whoever holds them, and removes those that are still there.
StartDelete(i) ==
    /\ ing[i].pc = "delete"
    /\ ing' = [ing EXCEPT ![i] = [@ EXCEPT !.pc = "deleting", !.missed = FALSE]]
    /\ UNCHANGED <<live, cache, reg, docs, chunks, rowLock, docLock, crawl,
                   unseen>>

\* mutant: delete_chunks commits what it deleted
FinishDeleteCommitted(i) ==
    LET p == ing[i].pub IN
    /\ ing[i].pc = "deleting"
    /\ Free(docLock, p, i)
    /\ chunks' = [chunks EXCEPT ![p] = {}]
    /\ ing' = [ing EXCEPT ![i] = [@ EXCEPT !.pc = "insert", !.cleared = TRUE]]
    /\ UNCHANGED <<live, cache, reg, docs, docLock, rowLock, crawl, unseen>>

FinishDelete(i) ==
    LET p == ing[i].pub IN
    /\ ing[i].pc = "deleting"
    /\ Free(docLock, p, i)
    /\ docLock' = IF ing[i].missed THEN docLock
                                   ELSE [docLock EXCEPT ![p] = i]
    /\ ing' = [ing EXCEPT ![i] =
         [@ EXCEPT !.pc = "insert", !.missed = FALSE,
                   !.cleared = ~ing[i].missed]]
    /\ UNCHANGED <<live, cache, reg, docs, chunks, rowLock, crawl, unseen>>

CollidesNever(i) == FALSE   \* mutant: no unique constraint

\* UniqueConstraint(document_id, ordinal).
Collides(i) ==
    ~ing[i].cleared /\ \E k \in chunks[ing[i].pub] : k.ord = ing[i].next

\* insert_chunk, once per chunk.
InsertChunk(i) ==
    LET p == ing[i].pub IN
    /\ ing[i].pc = "insert"
    /\ Free(docLock, p, i)
    /\ ~Collides(i)
    /\ docLock' = [docLock EXCEPT ![p] = i]
    /\ ing' = [ing EXCEPT ![i] =
         [@ EXCEPT !.next = ing[i].next + 1,
                   !.pc = IF ing[i].next = ChunkCount[ing[i].ver]
                          THEN "load" ELSE "insert"]]
    /\ UNCHANGED <<live, cache, reg, docs, chunks, rowLock, crawl, unseen>>

\* set_status: SELECT the publication ...
LoadStatus(i) ==
    /\ ing[i].pc = "load"
    /\ ing' = [ing EXCEPT ![i] =
         [@ EXCEPT !.pc = "flush", !.loaded = reg[ing[i].pub]]]
    /\ UNCHANGED <<live, cache, reg, docs, chunks, rowLock, docLock, crawl,
                   unseen>>

\* mutant: the status is set in a transaction of its own
FlushStatusAtOnce(i) ==
    /\ ing[i].pc = "flush"
    /\ Free(rowLock, ing[i].pub, i)
    /\ reg' = [reg EXCEPT ![ing[i].pub].status = "ingested"]
    /\ ing' = [ing EXCEPT ![i] = [@ EXCEPT !.pc = "commit"]]
    /\ UNCHANGED <<live, cache, docs, chunks, rowLock, docLock, crawl, unseen>>

\* ... and UPDATE it, unless it already says 'ingested'.
FlushStatus(i) ==
    LET p == ing[i].pub
        write == SetStatus(ing[i].loaded, "ingested")
    IN /\ ing[i].pc = "flush"
       /\ IF write.cols = {} THEN UNCHANGED rowLock
          ELSE /\ Free(rowLock, p, i)
               /\ rowLock' = [rowLock EXCEPT ![p] = i]
       /\ ing' = [ing EXCEPT ![i] = [@ EXCEPT !.pc = "commit", !.write = write]]
       /\ UNCHANGED <<live, cache, reg, docs, chunks, docLock, crawl, unseen>>

\* mutant: the DELETE is forgotten
ChunksAfterMerge(i) ==
    chunks[ing[i].pub] \cup ChunksUpTo(ing[i].ver, ing[i].next - 1)

\* The rows of p after i's transaction: what its DELETE left, and its own.
ChunksAfter(i) ==
    (IF ing[i].cleared THEN {} ELSE chunks[ing[i].pub])
        \cup ChunksUpTo(ing[i].ver, ing[i].next - 1)

\* A DELETE that is waiting will not see the rows this commit puts in place.
Missed(p, j) == ing[j].pc = "deleting" /\ ing[j].pub = p

\* mutant: one transaction for the whole batch
KeptByBatch(lock, i) == IF ing[i].todo = {} THEN Without(lock, i) ELSE lock

\* The locks that outlive i's commit: none, a transaction serves one target.
KeptAfterCommit(lock, i) == Without(lock, i)

CommitIngest(i) ==
    LET p == ing[i].pub IN
    /\ ing[i].pc = "commit"
    /\ docs' = docs \cup {p}
    /\ chunks' = [chunks EXCEPT ![p] = ChunksAfter(i)]
    /\ reg' = [reg EXCEPT ![p] = Apply(@, ing[i].write)]
    /\ rowLock' = KeptAfterCommit(rowLock, i)
    /\ docLock' = KeptAfterCommit(docLock, i)
    /\ ing' = [j \in Ingesters |->
                 IF j = i THEN NextTarget(ing[i].todo)
                 ELSE [ing[j] EXCEPT !.missed = ing[j].missed \/ Missed(p, j)]]
    /\ UNCHANGED <<live, cache, crawl, unseen>>

\* mutant: the session is dropped without a rollback
RollBackIngestLeaky(i) ==
    /\ ing' = [ing EXCEPT ![i] = AtRest("idle", {})]
    /\ UNCHANGED <<live, cache, reg, docs, chunks, rowLock, docLock, crawl,
                   unseen>>

\* Only IngestionError is caught per publication.  Any other exception ends
\* the batch: the session rolls back and the remaining targets are dropped.
RollBackIngest(i) ==
    /\ rowLock' = Without(rowLock, i)
    /\ docLock' = Without(docLock, i)
    /\ ing' = [ing EXCEPT ![i] = AtRest("idle", {})]
    /\ UNCHANGED <<live, cache, reg, docs, chunks, crawl, unseen>>

AbortIngest(i) == ing[i].pc # "idle" /\ RollBackIngest(i)

\* Another ingest committed the document row, or the chunk rows, first.
IngestCollides(i) ==
    /\ \/ ing[i].pc = "create" /\ ing[i].pub \in docs
       \/ ing[i].pc = "insert" /\ Collides(i)
    /\ Free(docLock, ing[i].pub, i)
    /\ RollBackIngest(i)

-----------------------------------------------------------------------------
(* Lock waits.                                                             *)

\* The process that q's next statement waits for.
Blocker(q) ==
    CASE q \in Crawlers /\ crawl[q].pc = "flush"
           /\ ~Free(rowLock, crawl[q].pub, q) -> rowLock[crawl[q].pub]
      [] q \in Ingesters /\ ing[q].pc \in {"create", "deleting", "insert"}
           /\ ~Free(docLock, ing[q].pub, q) -> docLock[ing[q].pub]
      [] q \in Ingesters /\ ing[q].pc = "flush"
           /\ ing[q].loaded.status # "ingested"
           /\ ~Free(rowLock, ing[q].pub, q) -> rowLock[ing[q].pub]
      [] OTHER -> NoProc

\* The members of S wait for each other in a circle (or several): PostgreSQL
\* ends one of them.
WaitCycle(S) == S # {} /\ {Blocker(q) : q \in S} = S

BreakDeadlock ==
    \E S \in SUBSET Procs :
      /\ WaitCycle(S)
      /\ \/ \E c \in S \cap Crawlers : RollBackCrawl(c)
         \/ \E i \in S \cap Ingesters : RollBackIngest(i)

-----------------------------------------------------------------------------
CrawlStep(c) == \/ CrawlFetch(c) \/ CrawlLoad(c) \/ CrawlFlush(c)
                \/ CommitCrawl(c) \/ CrawlCollides(c)

IngestStep(i) == \/ IngestFetch(i) \/ IngestFails(i)
                 \/ LookUpDocument(i) \/ CreateDocument(i)
                 \/ StartDelete(i) \/ FinishDelete(i) \/ InsertChunk(i)
                 \/ LoadStatus(i) \/ FlushStatus(i) \/ CommitIngest(i)
                 \/ IngestCollides(i)

Next == \/ \E p \in Pubs : Publish(p)
        \/ \E c \in Crawlers : StartCrawl(c) \/ CrawlStep(c) \/ AbortCrawl(c)
        \/ \E i \in Ingesters :
             StartIngest(i) \/ IngestStep(i) \/ AbortIngest(i)
        \/ BreakDeadlock

Spec == Init /\ [][Next]_vars

\* A process that runs keeps running: every await returns or times out.  A
\* lock wait needs strong fairness, which PostgreSQL's queue of waiters gives.
\* Nothing makes the operator start a command or the site publish.
Fairness == /\ \A c \in Crawlers : SF_vars(CrawlStep(c))
            /\ \A i \in Ingesters : SF_vars(IngestStep(i))
            /\ WF_vars(BreakDeadlock)

FairSpec == Spec /\ Fairness

-----------------------------------------------------------------------------
(* Properties.                                                             *)

\* A committed document holds exactly the chunks of one content of its page,
\* never a mixture, a part or none (delete_chunks, insert_chunk and the commit
\* in _run_ingest_html, against every other ingest of the same publication).
WholeDocument ==
    \A p \in Pubs :
      IF p \in docs THEN \E v \in Versions : /\ ChunkCount[v] > 0
                                             /\ chunks[p] = ChunksOf(v)
                    ELSE chunks[p] = {}

\* 'ingested' is only ever committed together with the document, whatever
\* crawls, crashes and collisions happen around it.
IngestedIsIndexed ==
    \A p \in Pubs : reg[p].status = "ingested" => p \in docs

\* Why the two hold.  An ingest at work has a registered page that parses; it
\* has either removed the rows there were or found none; it holds the lock on
\* the document as soon as it changed it; and it commits a complete set.
IngestWrites(s) ==
    /\ s.pc \notin {"idle", "fetch"} =>
         /\ s.pub \in Pubs
         /\ s.ver \in Versions
         /\ ChunkCount[s.ver] > 0
    /\ s.pc \in {"load", "flush", "commit"} => s.next = ChunkCount[s.ver] + 1
    /\ s.pc = "insert" => s.next \in 1 .. ChunkCount[s.ver]
    /\ s.pc \notin {"insert", "load", "flush", "commit"} => s.next = 1
    /\ "status" \in s.write.cols => s.write.row.status = "ingested"

IngestHolds(i) ==
    /\ ing[i].next > 1 =>
         /\ docLock[ing[i].pub] = i
         /\ ing[i].cleared \/ chunks[ing[i].pub] = {}
    /\ ing[i].pc = "insert" /\ ing[i].cleared => docLock[ing[i].pub] = i

IngestInv == \A i \in Ingesters : IngestWrites(ing[i]) /\ IngestHolds(i)

\* What a crawl has flushed never says 'ingested'.
CrawlInv ==
    \A c \in Crawlers, p \in Pubs :
      LET w == crawl[c].writes[p] IN
      "status" \in w.cols => w.row.status \in {"discovered", "stale"}

CrawlAtWork ==
    \A c \in Crawlers : crawl[c].pc \in {"load", "flush"} =>
      crawl[c].pub \in Pubs /\ crawl[c].ver \in Versions

IInv == /\ TypeOK /\ IngestInv /\ CrawlInv /\ CrawlAtWork
        /\ WholeDocument /\ IngestedIsIndexed

\* Only crawls ever wait for each other in a circle: an ingest takes its rows
\* in one order and gives them back per publication.
DeadlocksAreAmongCrawls ==
    \A S \in SUBSET Procs : WaitCycle(S) => S \subseteq Crawlers

\* The version readers are served from; ~\in Versions when there is no one.
IndexedVersion(p) ==
    IF chunks[p] = {} THEN 0
    ELSE IF \E v \in Versions : chunks[p] = ChunksOf(v)
         THEN CHOOSE v \in Versions : chunks[p] = ChunksOf(v)
         ELSE MaxVersion + 1

\* 'stale' is cleared only by an ingest whose text is at least as new as the
\* content that made it stale: the change detection of the discovery design.
StaleClearedByNewerText ==
    [][\A p \in Pubs :
         reg[p].status = "stale" /\ reg'[p].status = "ingested"
           => IndexedVersion(p)' >= reg[p].hash]_vars

\* A publication that counts as ingested is not older than the content that
\* discovery recorded: nothing needs re-ingesting and nobody knows.
IngestedIsCurrent ==
    \A p \in Pubs :
      reg[p].status = "ingested" => IndexedVersion(p) >= reg[p].hash

\* The merged evidence of a publication (referenced_by_models) loses a model
\* only to an overlap of two crawls: the one whose commit drops it had read the
\* row, and was about to write it, when the other's commit brought the model.
\* No other commit loses any (upsert merges into the list it loaded).
EvidenceLostOnlyToOverlap ==
    [][\A p \in Pubs : \A m \in reg[p].refs \ reg'[p].refs :
         \E c \in Crawlers : /\ crawl[c].pc = "commit" /\ crawl'[c].pc = "idle"
                             /\ m \in unseen[c][p]]_vars

\* Every command that was started ends: none runs for ever.
CommandsEnd == \A q \in Procs : []<>~Running(q)

\* Readers of the database see the promises of PublicationIndex.
Index == INSTANCE PublicationIndex WITH
            page <- live,
            indexed <- [p \in Pubs |-> IndexedVersion(p)],
            status <- [p \in Pubs |-> reg[p].status]
ImplementsIndex == Index!Spec
=============================================================================

------------------------ MODULE HtmlIngestionProofs ------------------------
(***************************************************************************)
(* What HtmlIngestion guarantees for any number of publications, crawls,   *)
(* ingests, page contents and chunks per content.                          *)
(*                                                                         *)
(*  - Every variable keeps its type, documents are whole, and 'ingested'   *)
(*    is never committed without a document.                               *)
(*  - What commands commit is, for a reader of the database, a behaviour   *)
(*    of PublicationIndex: a CommitCrawl is a Discover, a CommitIngest an  *)
(*    Ingest, and every other step but Publish a stutter.                  *)
(*  - Ingests never wait for each other, or for a crawl, in a circle.      *)
(*  - Crawl evidence is lost only to an overlap of two crawls.             *)
(*  - As long as the operator runs one command after the other, nothing    *)
(*    that says 'ingested' has a text older than the content discovery     *)
(*    recorded for it.                                                     *)
(***************************************************************************)
EXTENDS HtmlIngestion, TLAPS

\* What the registry computes is a write of the right shape.
LEMMA UpsertIsWrite ==
    ASSUME NEW loaded \in Row, NEW v \in Versions, NEW refs \in SUBSET Models
    PROVE  Upsert(loaded, v, refs) \in Write
<1>1. StatusAfter(loaded, v) \in Statuses
  BY DEF StatusAfter, Row, Statuses
<1>2. MergedRefs(loaded, refs) \in SUBSET Models
  BY DEF MergedRefs, Row
<1>3. v \in 0 .. MaxVersion
  BY MaxVersionAssumption DEF Versions
<1>4. [status |-> StatusAfter(loaded, v), hash |-> v,
       refs |-> MergedRefs(loaded, refs)] \in Row
  BY <1>1, <1>2, <1>3 DEF Row
<1> QED
  BY <1>4 DEF Upsert, Dirty, Write, Columns

LEMMA SetStatusIsWrite ==
    ASSUME NEW loaded \in Row
    PROVE  SetStatus(loaded, "ingested") \in Write
<1>1. [loaded EXCEPT !.status = "ingested"] \in Row
  BY DEF Row, Statuses
<1> QED
  BY <1>1 DEF SetStatus, Dirty, Write, Columns

LEMMA ApplyIsRow ==
    ASSUME NEW row \in Row, NEW w \in Write
    PROVE  Apply(row, w) \in Row
BY DEF Apply, Row, Write

\* An upsert never makes a publication 'ingested'.
LEMMA UpsertNeverIngests ==
    ASSUME NEW loaded \in Row, NEW v \in Versions, NEW refs \in SUBSET Models,
           NEW row \in Row,
           Apply(row, Upsert(loaded, v, refs)).status = "ingested"
    PROVE  row.status = "ingested"
BY DEF Apply, Upsert, Dirty, StatusAfter, Row

LEMMA RestIsIngestState ==
    ASSUME NEW pc \in {"idle", "fetch"}, NEW todo \in SUBSET Pubs
    PROVE  AtRest(pc, todo) \in IngestState
<1>1. NoWrite \in Write /\ NoRow \in Row
  BY MaxVersionAssumption DEF NoWrite, Write, NoRow, Row
<1>2. 0 \in 0 .. MaxVersion
  BY MaxVersionAssumption
<1> QED
  BY <1>1, <1>2 DEF AtRest, Between, IngestState

LEMMA IdleIsCrawlState == IdleCrawl \in CrawlState
<1>1. NoWrite \in Write /\ NoRow \in Row
  BY MaxVersionAssumption DEF NoWrite, Write, NoRow, Row
<1>2. 0 \in 0 .. MaxVersion
  BY MaxVersionAssumption
<1> QED
  BY <1>1, <1>2 DEF IdleCrawl, CrawlState

LEMMA WithoutType ==
    ASSUME NEW Q, NEW lock \in [Pubs -> Q \cup {NoProc}], NEW q
    PROVE  Without(lock, q) \in [Pubs -> Q \cup {NoProc}]
BY DEF Without

-----------------------------------------------------------------------------
(* Type correctness.                                                       *)

LEMMA InitType == Init => TypeOK
<1> SUFFICES ASSUME Init PROVE TypeOK
  OBVIOUS
<1>1. live \in [Pubs -> Versions] /\ cache \in [Pubs -> 0 .. MaxVersion]
  BY MaxVersionAssumption DEF Init, Versions
<1>2. NoRow \in Row
  BY MaxVersionAssumption DEF NoRow, Row
<1>3. AtRest("idle", {}) \in IngestState
  BY RestIsIngestState
<1> QED
  BY <1>1, <1>2, <1>3, IdleIsCrawlState DEF Init, TypeOK, NothingUnseen

\* One lemma per process: the site, a crawl, an ingest, the lock manager.
LEMMA RollBackCrawlType ==
    ASSUME TypeOK, NEW c \in Crawlers, RollBackCrawl(c)
    PROVE  TypeOK'
<1>1. rowLock' \in [Pubs -> Procs \cup {NoProc}]
  BY WithoutType DEF TypeOK, RollBackCrawl
<1>2. crawl' \in [Crawlers -> CrawlState]
  BY IdleIsCrawlState DEF TypeOK, RollBackCrawl
<1>3. unseen' \in [Crawlers -> [Pubs -> SUBSET Models]]
  BY DEF TypeOK, RollBackCrawl, NothingUnseen
<1> QED
  BY <1>1, <1>2, <1>3 DEF TypeOK, RollBackCrawl

LEMMA RollBackIngestType ==
    ASSUME TypeOK, NEW i \in Ingesters, RollBackIngest(i)
    PROVE  TypeOK'
<1>1. rowLock' \in [Pubs -> Procs \cup {NoProc}]
  BY WithoutType DEF TypeOK, RollBackIngest
<1>2. docLock' \in [Pubs -> Ingesters \cup {NoProc}]
  BY WithoutType DEF TypeOK, RollBackIngest
<1>3. ing' \in [Ingesters -> IngestState]
  BY RestIsIngestState DEF TypeOK, RollBackIngest
<1> QED
  BY <1>1, <1>2, <1>3 DEF TypeOK, RollBackIngest

LEMMA PublishType ==
    ASSUME TypeOK, NEW p \in Pubs, Publish(p)
    PROVE  TypeOK'
<1>1. live[p] + 1 \in Versions
  BY MaxVersionAssumption DEF TypeOK, Publish, Versions
<1> QED
  BY <1>1 DEF TypeOK, Publish

LEMMA CommitUnseenType ==
    ASSUME TypeOK, NEW c \in Crawlers, CommitCrawl(c)
    PROVE  unseen' \in [Crawlers -> [Pubs -> SUBSET Models]]
<1> DEFINE u(d, p) == CASE d = c -> {}
                        [] d # c /\ HasRead(d, p) -> unseen[d][p] \cup Brought(c, p)
                        [] OTHER -> unseen[d][p]
<1>1. unseen' = [d \in Crawlers |-> [p \in Pubs |-> u(d, p)]]
  BY DEF CommitCrawl
<1>2. ASSUME NEW d \in Crawlers, NEW p \in Pubs
      PROVE  u(d, p) \in SUBSET Models
  <2>1. unseen[d][p] \in SUBSET Models
    BY DEF TypeOK
  <2>2. Apply(reg[p], crawl[c].writes[p]) \in Row
    BY ApplyIsRow DEF TypeOK, CrawlState
  <2>3. Brought(c, p) \in SUBSET Models
    BY <2>2 DEF Brought, Row
  <2> QED
    BY <2>1, <2>3
<1> HIDE DEF u
<1> QED
  BY <1>1, <1>2

LEMMA CrawlType ==
    ASSUME TypeOK, NEW c \in Crawlers,
           StartCrawl(c) \/ CrawlStep(c) \/ AbortCrawl(c),
           crawl[c].pc \in {"load", "flush"} =>
             crawl[c].pub \in Pubs /\ crawl[c].ver \in Versions
    PROVE  TypeOK'
<1> USE DEF TypeOK
<1>1. CASE StartCrawl(c)
  <2>1. PICK refresh \in BOOLEAN, found \in Links :
          crawl' = [crawl EXCEPT ![c] =
            [IdleCrawl EXCEPT
               !.pc = IF {p \in Pubs : found[p] # {}} = {} THEN "commit"
                                                           ELSE "fetch",
               !.refresh = refresh, !.found = found,
               !.todo = {p \in Pubs : found[p] # {}}]]
    BY <1>1 DEF StartCrawl
  <2>2. crawl' \in [Crawlers -> CrawlState]
    BY <2>1, IdleIsCrawlState, LinksAssumption DEF CrawlState
  <2> QED
    BY <1>1, <2>2 DEF StartCrawl
<1>2. CASE CrawlFetch(c)
  <2>1. PICK p \in crawl[c].todo : \E ver \in {cache[p], live[p]} :
          /\ cache' = [cache EXCEPT ![p] = ver]
          /\ crawl' = [crawl EXCEPT ![c] =
               [@ EXCEPT !.pc = "load", !.pub = p, !.ver = ver]]
    BY <1>2 DEF CrawlFetch
  <2>2. p \in Pubs
    BY <2>1 DEF CrawlState
  <2>3. {cache[p], live[p]} \subseteq 0 .. MaxVersion
    BY <2>2, MaxVersionAssumption DEF Versions
  <2>4. cache' \in [Pubs -> 0 .. MaxVersion]
    BY <2>1, <2>2, <2>3
  <2>5. \A ver \in {cache[p], live[p]} :
          [crawl[c] EXCEPT !.pc = "load", !.pub = p, !.ver = ver] \in CrawlState
    <3>1. crawl[c] \in CrawlState
      OBVIOUS
    <3> QED
      BY <2>2, <2>3, <3>1 DEF CrawlState
  <2>6. crawl' \in [Crawlers -> CrawlState]
    BY <2>1, <2>5
  <2> QED
    BY <1>2, <2>4, <2>6 DEF CrawlFetch
<1>3. CASE CrawlLoad(c)
  <2>1. [crawl[c] EXCEPT !.pc = "flush", !.loaded = reg[crawl[c].pub]]
          \in CrawlState
    <3>1. crawl[c] \in CrawlState /\ reg[crawl[c].pub] \in Row
      BY <1>3 DEF CrawlLoad
    <3> QED
      BY <3>1 DEF CrawlState
  <2>2. crawl' \in [Crawlers -> CrawlState]
    BY <1>3, <2>1 DEF CrawlLoad
  <2> QED
    BY <1>3, <2>2 DEF CrawlLoad
<1>4. CASE CrawlFlush(c)
  <2>1. /\ crawl[c].pub \in Pubs /\ crawl[c].ver \in Versions
        /\ crawl[c].loaded \in Row
        /\ crawl[c].found \in [Pubs -> SUBSET Models]
    BY <1>4 DEF CrawlFlush, CrawlState
  <2>2. Upsert(crawl[c].loaded, crawl[c].ver, crawl[c].found[crawl[c].pub])
          \in Write
    BY <2>1, UpsertIsWrite
  <2>3. NoRow \in Row /\ 0 \in 0 .. MaxVersion
    BY MaxVersionAssumption DEF NoRow, Row
  <2> DEFINE p == crawl[c].pub
             todo == crawl[c].todo \ {p}
             w == Upsert(crawl[c].loaded, crawl[c].ver, crawl[c].found[p])
  <2>4. [crawl[c].writes EXCEPT ![p] = w] \in [Pubs -> Write]
    BY <2>1, <2>2 DEF CrawlState
  <2>5. [crawl[c] EXCEPT !.pc = IF todo = {} THEN "commit" ELSE "fetch",
                         !.todo = todo, !.pub = NoPub, !.ver = 0,
                         !.loaded = NoRow,
                         !.writes = [crawl[c].writes EXCEPT ![p] = w]] \in CrawlState
    <3>1. crawl[c] \in CrawlState /\ todo \in SUBSET Pubs
      BY DEF CrawlState
    <3> HIDE DEF w, todo, p
    <3>2. (IF todo = {} THEN "commit" ELSE "fetch")
            \in {"idle", "fetch", "load", "flush", "commit"}
      OBVIOUS
    <3> DEFINE ws == [crawl[c].writes EXCEPT ![p] = w]
    <3> HIDE DEF ws
    <3>3. ws \in [Pubs -> Write]
      BY <2>4 DEF ws
    <3>4. [crawl[c] EXCEPT !.pc = IF todo = {} THEN "commit" ELSE "fetch",
                           !.todo = todo, !.pub = NoPub, !.ver = 0,
                           !.loaded = NoRow, !.writes = ws] \in CrawlState
      BY <2>3, <3>1, <3>2, <3>3 DEF CrawlState
    <3> QED BY <3>4 DEF ws
  <2>6. crawl' \in [Crawlers -> CrawlState]
    BY <1>4, <2>5 DEF CrawlFlush
  <2>7. rowLock' \in [Pubs -> Procs \cup {NoProc}]
    BY <1>4 DEF CrawlFlush, Procs
  <2> QED
    BY <1>4, <2>6, <2>7 DEF CrawlFlush
<1>5. CASE CommitCrawl(c)
  <2>1. \A p \in Pubs : crawl[c].writes[p] \in Write
    BY DEF CrawlState
  <2>2. reg' \in [Pubs -> Row]
    BY <1>5, <2>1, ApplyIsRow DEF CommitCrawl
  <2>3. crawl' \in [Crawlers -> CrawlState]
    BY <1>5, IdleIsCrawlState DEF CommitCrawl
  <2>4. rowLock' \in [Pubs -> Procs \cup {NoProc}]
    BY <1>5, WithoutType DEF CommitCrawl
  <2>5. unseen' \in [Crawlers -> [Pubs -> SUBSET Models]]
    BY <1>5, CommitUnseenType
  <2> QED
    BY <1>5, <2>2, <2>3, <2>4, <2>5 DEF CommitCrawl
<1>6. CASE CrawlCollides(c) \/ AbortCrawl(c)
  BY <1>6, RollBackCrawlType DEF CrawlCollides, AbortCrawl
<1> QED
  BY <1>1, <1>2, <1>3, <1>4, <1>5, <1>6 DEF CrawlStep

\* The local state an ingest moves to has the right type whenever the fields
\* that change do; IngestStep leaves the others alone.
LEMMA IngestType ==
    ASSUME TypeOK, NEW i \in Ingesters, IngestWrites(ing[i]),
           StartIngest(i) \/ IngestStep(i) \/ AbortIngest(i)
    PROVE  TypeOK'
<1> USE DEF TypeOK
<1>0. /\ ing[i] \in IngestState
      /\ ing[i].pc \notin {"idle", "fetch"} => ing[i].pub \in Pubs
  BY DEF IngestWrites
<1>1. CASE StartIngest(i)
  <2>1. PICK todo \in SUBSET Pubs :
          ing' = [ing EXCEPT ![i] = AtRest("fetch", todo)]
    BY <1>1 DEF StartIngest, Targets, Registered
  <2>2. ing' \in [Ingesters -> IngestState]
    BY <2>1, RestIsIngestState
  <2> QED
    BY <1>1, <2>2 DEF StartIngest
<1>2. CASE IngestFetch(i)
  <2>1. PICK p \in ing[i].todo :
          /\ cache' = [cache EXCEPT ![p] = live[p]]
          /\ ing' = [ing EXCEPT ![i] =
               [@ EXCEPT !.pc = "lookup", !.pub = p,
                         !.todo = ing[i].todo \ {p}, !.ver = live[p]]]
    BY <1>2 DEF IngestFetch
  <2>2. p \in Pubs /\ live[p] \in 0 .. MaxVersion
    BY <1>0, <2>1, MaxVersionAssumption DEF IngestState, Versions
  <2>3. [ing[i] EXCEPT !.pc = "lookup", !.pub = p,
                       !.todo = ing[i].todo \ {p}, !.ver = live[p]] \in IngestState
    BY <1>0, <2>2 DEF IngestState
  <2>4. ing' \in [Ingesters -> IngestState]
    BY <2>1, <2>3
  <2>5. cache' \in [Pubs -> 0 .. MaxVersion]
    BY <2>1, <2>2
  <2> QED
    BY <1>2, <2>4, <2>5 DEF IngestFetch
<1>3. CASE IngestFails(i)
  <2>1. PICK p \in ing[i].todo :
          /\ cache' \in {cache, [cache EXCEPT ![p] = live[p]]}
          /\ ing' = [ing EXCEPT ![i] = NextTarget(@.todo \ {p})]
    BY <1>3 DEF IngestFails
  <2>2. p \in Pubs /\ live[p] \in 0 .. MaxVersion
    BY <1>0, <2>1, MaxVersionAssumption DEF IngestState, Versions
  <2>3. NextTarget(ing[i].todo \ {p}) \in IngestState
    BY <1>0, RestIsIngestState DEF NextTarget, IngestState
  <2>4. ing' \in [Ingesters -> IngestState]
    BY <2>1, <2>3
  <2>5. cache' \in [Pubs -> 0 .. MaxVersion]
    BY <2>1, <2>2
  <2> QED
    BY <1>3, <2>4, <2>5 DEF IngestFails
<1>4. CASE LookUpDocument(i)
  <2>1. [ing[i] EXCEPT !.pc = IF ing[i].pub \in docs THEN "delete" ELSE "create"]
          \in IngestState
    BY <1>0 DEF IngestState
  <2> QED
    BY <1>4, <2>1 DEF LookUpDocument
<1>5. CASE CreateDocument(i)
  <2>1. [ing[i] EXCEPT !.pc = "delete"] \in IngestState
    BY <1>0 DEF IngestState
  <2> QED
    BY <1>5, <2>1 DEF CreateDocument
<1>6. CASE StartDelete(i)
  <2>1. [ing[i] EXCEPT !.pc = "deleting", !.missed = FALSE] \in IngestState
    BY <1>0 DEF IngestState
  <2> QED
    BY <1>6, <2>1 DEF StartDelete
<1>7. CASE FinishDelete(i)
  <2>1. [ing[i] EXCEPT !.pc = "insert", !.missed = FALSE,
                       !.cleared = ~ing[i].missed] \in IngestState
    BY <1>0 DEF IngestState
  <2> QED
    BY <1>7, <2>1 DEF FinishDelete
<1>8. CASE InsertChunk(i)
  <2>1. [ing[i] EXCEPT !.next = ing[i].next + 1,
                       !.pc = IF ing[i].next = ChunkCount[ing[i].ver]
                              THEN "load" ELSE "insert"] \in IngestState
    <3>1. ing[i].next + 1 \in Nat
      BY <1>0 DEF IngestState
    <3> QED
      BY <1>0, <3>1 DEF IngestState
  <2>2. ing' \in [Ingesters -> IngestState]
    BY <1>8, <2>1 DEF InsertChunk
  <2> QED
    BY <1>8, <2>2 DEF InsertChunk
<1>9. CASE LoadStatus(i)
  <2>1. reg[ing[i].pub] \in Row
    BY <1>0, <1>9 DEF LoadStatus
  <2>2. [ing[i] EXCEPT !.pc = "flush", !.loaded = reg[ing[i].pub]] \in IngestState
    BY <1>0, <2>1 DEF IngestState
  <2> QED
    BY <1>9, <2>2 DEF LoadStatus
<1>10. CASE FlushStatus(i)
  <2> DEFINE w == SetStatus(ing[i].loaded, "ingested")
  <2>1. w \in Write
    BY <1>0, SetStatusIsWrite DEF IngestState
  <2>2. [ing[i] EXCEPT !.pc = "commit", !.write = w] \in IngestState
    <3> HIDE DEF w
    <3> QED BY <1>0, <2>1 DEF IngestState
  <2>3. ing' \in [Ingesters -> IngestState]
    BY <1>10, <2>2 DEF FlushStatus
  <2>4. rowLock' \in [Pubs -> Procs \cup {NoProc}]
    BY <1>10 DEF FlushStatus, Procs
  <2> QED
    BY <1>10, <2>3, <2>4 DEF FlushStatus
<1>11. CASE CommitIngest(i)
  <2>1. ing[i].pub \in Pubs /\ ing[i].ver \in Versions /\ ing[i].next \in Nat
    BY <1>0, <1>11 DEF CommitIngest, IngestWrites, IngestState
  <2>2. ChunksAfter(i) \in SUBSET Chunk
    BY <2>1 DEF ChunksAfter, ChunksUpTo, Chunk
  <2>3. chunks' \in [Pubs -> SUBSET Chunk]
    BY <1>11, <2>1, <2>2 DEF CommitIngest
  <2>4. reg' \in [Pubs -> Row]
    BY <1>0, <1>11, <2>1, ApplyIsRow DEF CommitIngest, IngestState
  <2>5. /\ rowLock' \in [Pubs -> Procs \cup {NoProc}]
        /\ docLock' \in [Pubs -> Ingesters \cup {NoProc}]
    BY <1>11, WithoutType DEF CommitIngest, KeptAfterCommit
  <2>6. NextTarget(ing[i].todo) \in IngestState
    BY <1>0, RestIsIngestState DEF NextTarget, IngestState
  <2>7. ASSUME NEW j \in Ingesters
        PROVE  [ing[j] EXCEPT !.missed = ing[j].missed \/ Missed(ing[i].pub, j)]
                 \in IngestState
    <3>1. ing[j] \in IngestState
      OBVIOUS
    <3>2. (ing[j].missed \/ Missed(ing[i].pub, j)) \in BOOLEAN
      BY <3>1 DEF IngestState, Missed
    <3> QED
      BY <3>1, <3>2 DEF IngestState
  <2>8. ing' \in [Ingesters -> IngestState]
    BY <1>11, <2>6, <2>7 DEF CommitIngest
  <2> QED
    BY <1>11, <2>1, <2>3, <2>4, <2>5, <2>8 DEF CommitIngest
<1>12. CASE IngestCollides(i) \/ AbortIngest(i)
  BY <1>12, RollBackIngestType DEF IngestCollides, AbortIngest
<1> QED
  BY <1>1, <1>2, <1>3, <1>4, <1>5, <1>6, <1>7, <1>8, <1>9, <1>10, <1>11, <1>12
  DEF IngestStep

-----------------------------------------------------------------------------
(* The inductive invariant.                                                *)

LEMMA InitIInv == Init => IInv
<1> SUFFICES ASSUME Init PROVE IInv
  OBVIOUS
<1>1. TypeOK
  BY InitType
<1>2. IngestInv
  BY DEF Init, IngestInv, IngestWrites, IngestHolds, AtRest, Between, NoWrite
<1>3. CrawlInv /\ CrawlAtWork
  BY DEF Init, CrawlInv, CrawlAtWork, IdleCrawl, NoWrite
<1>4. WholeDocument /\ IngestedIsIndexed
  BY DEF Init, WholeDocument, IngestedIsIndexed, NoRow
<1> QED
  BY <1>1, <1>2, <1>3, <1>4 DEF IInv

\* The state a crawl is in once it has started, and once it has fetched.
LEMMA StartFacts ==
    ASSUME TypeOK, NEW c \in Crawlers, StartCrawl(c)
    PROVE  /\ crawl'[c].writes = [p \in Pubs |-> NoWrite]
           /\ crawl'[c].pc \in {"fetch", "commit"}
<1>1. PICK refresh \in BOOLEAN, found \in Links :
        crawl' = [crawl EXCEPT ![c] =
          [IdleCrawl EXCEPT
             !.pc = IF {p \in Pubs : found[p] # {}} = {} THEN "commit"
                                                         ELSE "fetch",
             !.refresh = refresh, !.found = found,
             !.todo = {p \in Pubs : found[p] # {}}]]
  BY DEF StartCrawl
<1> QED
  BY <1>1 DEF TypeOK, IdleCrawl

LEMMA FetchFacts ==
    ASSUME TypeOK, NEW c \in Crawlers, CrawlFetch(c)
    PROVE  /\ crawl'[c].writes = crawl[c].writes
           /\ crawl'[c].pub \in Pubs /\ crawl'[c].ver \in Versions
           /\ \A d \in Crawlers \ {c} : crawl'[d] = crawl[d]
<1>1. PICK p \in crawl[c].todo :
        LET ver == IF cache[p] # 0 /\ ~crawl[c].refresh THEN cache[p]
                                                        ELSE live[p]
        IN crawl' = [crawl EXCEPT ![c] =
             [@ EXCEPT !.pc = "load", !.pub = p, !.ver = ver]]
  BY DEF CrawlFetch
<1> DEFINE ver == IF cache[p] # 0 /\ ~crawl[c].refresh THEN cache[p] ELSE live[p]
<1>2. p \in Pubs
  BY DEF TypeOK, CrawlState
<1>3. ver \in Versions
  BY <1>2, MaxVersionAssumption DEF TypeOK, Versions
<1>4. crawl' = [crawl EXCEPT ![c] =
         [crawl[c] EXCEPT !.pc = "load", !.pub = p, !.ver = ver]]
  BY <1>1
<1> HIDE DEF ver
<1> QED
  BY <1>2, <1>3, <1>4 DEF TypeOK, CrawlState

\* A crawl rolled back leaves every other process and every row as it was.
LEMMA RollBackCrawlIInv ==
    ASSUME IInv, NEW c \in Crawlers, RollBackCrawl(c)
    PROVE  IInv'
<1> USE DEF IInv, RollBackCrawl
<1>1. TypeOK'
  BY RollBackCrawlType
<1>2. IngestInv' /\ WholeDocument' /\ IngestedIsIndexed'
  BY DEF IngestInv, IngestHolds, WholeDocument, IngestedIsIndexed
<1>3. CrawlInv' /\ CrawlAtWork'
  BY DEF TypeOK, CrawlInv, CrawlAtWork, IdleCrawl, NoWrite
<1> QED
  BY <1>1, <1>2, <1>3

\* Crawls write rows of publications and nothing else, and never 'ingested'.
LEMMA CrawlIInv ==
    ASSUME IInv, NEW c \in Crawlers,
           StartCrawl(c) \/ CrawlStep(c) \/ AbortCrawl(c)
    PROVE  IInv'
<1>1. TypeOK'
  BY CrawlType DEF IInv, CrawlAtWork
<1>2. CASE CrawlCollides(c) \/ AbortCrawl(c)
  BY <1>2, RollBackCrawlIInv DEF CrawlCollides, AbortCrawl
<1>3. CASE \/ StartCrawl(c) \/ CrawlFetch(c) \/ CrawlLoad(c)
           \/ CrawlFlush(c) \/ CommitCrawl(c)
  <2> USE <1>3 DEF IInv
  <2>1. UNCHANGED <<docs, chunks, docLock, ing>>
    BY DEF StartCrawl, CrawlFetch, CrawlLoad, CrawlFlush, CommitCrawl
  <2>2. IngestInv' /\ WholeDocument'
    BY <2>1 DEF IngestInv, IngestHolds, WholeDocument
  <2>3. IngestedIsIndexed'
    <3>1. CASE CommitCrawl(c)
      <4>1. ASSUME NEW p \in Pubs, reg'[p].status = "ingested"
            PROVE  reg[p].status = "ingested"
        BY <3>1, <4>1 DEF CommitCrawl, Apply, CrawlInv
      <4> QED
        BY <2>1, <4>1 DEF IngestedIsIndexed
    <3>2. CASE ~CommitCrawl(c)
      <4>1. UNCHANGED reg
        BY <3>2 DEF StartCrawl, CrawlFetch, CrawlLoad, CrawlFlush
      <4> QED
        BY <2>1, <4>1 DEF IngestedIsIndexed
    <3> QED
      BY <3>1, <3>2
  <2>4. CrawlInv'
    <3>1. CASE StartCrawl(c) \/ CommitCrawl(c)
      <4>1. crawl'[c].writes = [p \in Pubs |-> NoWrite]
        BY <3>1, StartFacts DEF CommitCrawl, IdleCrawl, TypeOK
      <4>2. \A d \in Crawlers \ {c} : crawl'[d] = crawl[d]
        BY <3>1 DEF StartCrawl, CommitCrawl, TypeOK
      <4> QED
        BY <4>1, <4>2 DEF CrawlInv, NoWrite
    <3>2. CASE CrawlFetch(c) \/ CrawlLoad(c)
      <4>1. \A d \in Crawlers : crawl'[d].writes = crawl[d].writes
        BY <3>2, FetchFacts DEF CrawlLoad, TypeOK, CrawlState
      <4> QED
        BY <4>1 DEF CrawlInv
    <3>3. CASE CrawlFlush(c)
      <4> DEFINE p == crawl[c].pub
                 w == Upsert(crawl[c].loaded, crawl[c].ver, crawl[c].found[p])
      <4>1. /\ p \in Pubs /\ crawl[c].writes \in [Pubs -> Write]
            /\ crawl[c].ver \in Versions /\ crawl[c].loaded \in Row
        BY <3>3 DEF CrawlFlush, CrawlAtWork, TypeOK, CrawlState
      <4>2. "status" \in w.cols => w.row.status \in {"discovered", "stale"}
        BY <4>1 DEF Upsert, Dirty, StatusAfter, Row
      <4>3. \A d \in Crawlers : crawl'[d].writes =
              IF d = c THEN [crawl[c].writes EXCEPT ![p] = w]
                       ELSE crawl[d].writes
        BY <3>3 DEF CrawlFlush, TypeOK, CrawlState
      <4>4. ASSUME NEW d \in Crawlers, NEW q \in Pubs
            PROVE  crawl'[d].writes[q] \in {w, crawl[d].writes[q]}
        <5> HIDE DEF w
        <5> QED BY <4>1, <4>3
      <4> HIDE DEF w
      <4> QED
        BY <4>2, <4>4 DEF CrawlInv
    <3> QED
      BY <3>1, <3>2, <3>3
  <2>5. CrawlAtWork'
    <3>1. CASE StartCrawl(c) \/ CommitCrawl(c) \/ CrawlFlush(c)
      <4>1. crawl'[c].pc \notin {"load", "flush"}
        <5>1. CASE StartCrawl(c)
          BY <5>1, StartFacts
        <5>2. CASE CommitCrawl(c)
          BY <5>2 DEF CommitCrawl, IdleCrawl, TypeOK
        <5>3. CASE CrawlFlush(c)
          BY <5>3 DEF CrawlFlush, TypeOK, CrawlState
        <5> QED
          BY <3>1, <5>1, <5>2, <5>3
      <4>2. \A d \in Crawlers \ {c} : crawl'[d] = crawl[d]
        BY <3>1 DEF StartCrawl, CommitCrawl, CrawlFlush, TypeOK
      <4> QED
        BY <4>1, <4>2 DEF CrawlAtWork
    <3>2. CASE CrawlFetch(c)
      BY <3>2, FetchFacts DEF CrawlAtWork
    <3>3. CASE CrawlLoad(c)
      BY <3>3 DEF CrawlLoad, CrawlAtWork, TypeOK, CrawlState
    <3> QED
      BY <3>1, <3>2, <3>3
  <2> QED
    BY <1>1, <2>2, <2>3, <2>4, <2>5
<1> QED
  BY <1>2, <1>3 DEF CrawlStep

\* An ingest that touches only documents nobody else has locked leaves the
\* other ingests' part of the invariant alone.
LEMMA OthersKeep ==
    ASSUME IngestInv, NEW i \in Ingesters,
           \A j \in Ingesters \ {i} :
             /\ ing'[j].pc = ing[j].pc /\ ing'[j].pub = ing[j].pub
             /\ ing'[j].ver = ing[j].ver /\ ing'[j].next = ing[j].next
             /\ ing'[j].cleared = ing[j].cleared
             /\ ing'[j].write = ing[j].write,
           \A p \in Pubs : docLock[p] \notin {NoProc, i} => docLock'[p] = docLock[p],
           \A p \in Pubs : docLock[p] \notin {NoProc, i} => chunks'[p] = chunks[p]
    PROVE  \A j \in Ingesters \ {i} : IngestWrites(ing'[j]) /\ IngestHolds(j)'
<1> SUFFICES ASSUME NEW j \in Ingesters \ {i}
             PROVE  IngestWrites(ing'[j]) /\ IngestHolds(j)'
  OBVIOUS
<1>1. IngestWrites(ing[j]) /\ IngestHolds(j)
  BY DEF IngestInv
<1>2. IngestWrites(ing'[j])
  BY <1>1 DEF IngestWrites
<1>3. ing[j].next > 1 \/ ing[j].pc = "insert" => ing[j].pub \in Pubs
  BY <1>1 DEF IngestWrites
<1>4. j # NoProc
  BY ProcAssumption DEF Procs
<1>5. IngestHolds(j)'
  BY <1>1, <1>3, <1>4 DEF IngestHolds
<1> QED
  BY <1>2, <1>5

LEMMA RollBackIngestIInv ==
    ASSUME IInv, NEW i \in Ingesters, RollBackIngest(i)
    PROVE  IInv'
<1> USE DEF IInv
<1>1. TypeOK'
  BY RollBackIngestType
<1>2. IngestWrites(ing'[i]) /\ IngestHolds(i)'
  BY DEF RollBackIngest, IngestWrites, IngestHolds, AtRest, Between, NoWrite,
         TypeOK
<1>3. \A j \in Ingesters \ {i} : IngestWrites(ing'[j]) /\ IngestHolds(j)'
  BY OthersKeep DEF RollBackIngest, Without, TypeOK
<1>4. IngestInv'
  BY <1>2, <1>3 DEF IngestInv
<1>5. CrawlInv' /\ CrawlAtWork' /\ WholeDocument' /\ IngestedIsIndexed'
  BY DEF RollBackIngest, CrawlInv, CrawlAtWork, WholeDocument, IngestedIsIndexed
<1> QED
  BY <1>1, <1>4, <1>5

\* The steps before the commit change the ingest's own state and locks only.
LEMMA IngestWorkIInv ==
    ASSUME IInv, NEW i \in Ingesters,
           \/ StartIngest(i) \/ IngestFetch(i) \/ IngestFails(i)
           \/ LookUpDocument(i) \/ CreateDocument(i) \/ StartDelete(i)
           \/ FinishDelete(i) \/ InsertChunk(i) \/ LoadStatus(i)
           \/ FlushStatus(i)
    PROVE  IInv'
<1> USE DEF IInv
<1>1. TypeOK'
  BY IngestType DEF IngestInv, IngestStep
<1>2. UNCHANGED <<reg, docs, chunks, crawl>>
  BY DEF StartIngest, IngestFetch, IngestFails, LookUpDocument, CreateDocument,
         StartDelete, FinishDelete, InsertChunk, LoadStatus, FlushStatus
<1>3. CrawlInv' /\ CrawlAtWork' /\ WholeDocument' /\ IngestedIsIndexed'
  BY <1>2 DEF CrawlInv, CrawlAtWork, WholeDocument, IngestedIsIndexed
<1>4. \A j \in Ingesters \ {i} : ing'[j] = ing[j]
  BY DEF StartIngest, IngestFetch, IngestFails, LookUpDocument, CreateDocument,
         StartDelete, FinishDelete, InsertChunk, LoadStatus, FlushStatus, TypeOK
<1>5. \A p \in Pubs : docLock[p] \notin {NoProc, i} => docLock'[p] = docLock[p]
  BY DEF StartIngest, IngestFetch, IngestFails, LookUpDocument, CreateDocument,
         StartDelete, FinishDelete, InsertChunk, LoadStatus, FlushStatus,
         TypeOK, Free
<1>6. \A j \in Ingesters \ {i} : IngestWrites(ing'[j]) /\ IngestHolds(j)'
  BY <1>2, <1>4, <1>5, OthersKeep
<1>7. /\ ing[i] \in IngestState /\ IngestWrites(ing[i]) /\ IngestHolds(i)
      /\ docLock \in [Pubs -> Ingesters \cup {NoProc}]
  BY DEF TypeOK, IngestInv
<1>8. IngestWrites(ing'[i]) /\ IngestHolds(i)'
  <2>1. CASE StartIngest(i) \/ IngestFails(i)
    <3>1. \E pc \in {"idle", "fetch"} : \E todo : ing'[i] = AtRest(pc, todo)
      BY <2>1 DEF StartIngest, IngestFails, NextTarget, TypeOK
    <3> QED
      BY <3>1 DEF IngestWrites, IngestHolds, AtRest, Between, NoWrite
  <2>2. CASE IngestFetch(i)
    <3>1. PICK p \in ing[i].todo :
            /\ ChunkCount[live[p]] > 0
            /\ ing' = [ing EXCEPT ![i] =
                 [@ EXCEPT !.pc = "lookup", !.pub = p,
                           !.todo = ing[i].todo \ {p}, !.ver = live[p]]]
      BY <2>2 DEF IngestFetch
    <3>2. p \in Pubs /\ live[p] \in Versions /\ ing[i].next = 1
      BY <1>7, <2>2 DEF TypeOK, IngestState, IngestFetch, IngestWrites
    <3>3. /\ ing'[i].pc = "lookup" /\ ing'[i].pub = p /\ ing'[i].ver = live[p]
          /\ ing'[i].next = ing[i].next /\ ing'[i].write = ing[i].write
      BY <1>7, <3>1 DEF TypeOK, IngestState
    <3> QED
      BY <1>7, <3>1, <3>2, <3>3 DEF IngestWrites, IngestHolds
  <2>3. CASE LookUpDocument(i) \/ CreateDocument(i) \/ StartDelete(i)
    <3>1. /\ ing[i].pc \in {"lookup", "create", "delete"}
          /\ ing'[i].pc \in {"create", "delete", "deleting"}
          /\ ing'[i].pub = ing[i].pub /\ ing'[i].ver = ing[i].ver
          /\ ing'[i].next = ing[i].next /\ ing'[i].write = ing[i].write
      <4>1. CASE LookUpDocument(i)
        BY <1>7, <4>1 DEF LookUpDocument, TypeOK, IngestState
      <4>2. CASE CreateDocument(i)
        BY <1>7, <4>2 DEF CreateDocument, TypeOK, IngestState
      <4>3. CASE StartDelete(i)
        BY <1>7, <4>3 DEF StartDelete, TypeOK, IngestState
      <4> QED
        BY <2>3, <4>1, <4>2, <4>3
    <3> QED
      BY <1>7, <3>1 DEF IngestWrites, IngestHolds
  <2>4. CASE FinishDelete(i)
    <3>1. /\ ing[i].pc = "deleting" /\ ing'[i].pc = "insert"
          /\ ing'[i].pub = ing[i].pub /\ ing'[i].ver = ing[i].ver
          /\ ing'[i].next = ing[i].next /\ ing'[i].write = ing[i].write
          /\ ing'[i].cleared = ~ing[i].missed
      BY <1>7, <2>4 DEF FinishDelete, TypeOK, IngestState
    <3>2. ing[i].next = 1 /\ ing[i].pub \in Pubs /\ ing[i].ver \in Versions
          /\ ChunkCount[ing[i].ver] > 0
      BY <1>7, <3>1 DEF IngestWrites
    <3>3. 1 \in 1 .. ChunkCount[ing[i].ver]
      BY <3>2, ChunkCountAssumption
    <3>4. ~ing[i].missed => docLock'[ing[i].pub] = i
      BY <1>7, <2>4, <3>2 DEF FinishDelete
    <3>5. IngestWrites(ing'[i])
      BY <1>7, <3>1, <3>2, <3>3 DEF IngestWrites
    <3>6. ing'[i].cleared => docLock'[ing'[i].pub] = i
      BY <3>1, <3>4
    <3>7. IngestHolds(i)'
      BY <3>1, <3>2, <3>6 DEF IngestHolds
    <3> QED
      BY <3>5, <3>7
  <2>5. CASE InsertChunk(i)
    <3>1. /\ ing[i].pc = "insert" /\ ing'[i].next = ing[i].next + 1
          /\ ing'[i].pc = IF ing[i].next = ChunkCount[ing[i].ver]
                          THEN "load" ELSE "insert"
          /\ ing'[i].pub = ing[i].pub /\ ing'[i].ver = ing[i].ver
          /\ ing'[i].write = ing[i].write /\ ing'[i].cleared = ing[i].cleared
      BY <1>7, <2>5 DEF InsertChunk, TypeOK, IngestState
    <3>2. /\ ing[i].next \in 1 .. ChunkCount[ing[i].ver]
          /\ ing[i].pub \in Pubs /\ ing[i].ver \in Versions
          /\ ChunkCount[ing[i].ver] > 0 /\ ChunkCount[ing[i].ver] \in Nat
      BY <1>7, <3>1, ChunkCountAssumption DEF IngestWrites
    <3>3. IngestWrites(ing'[i])
      BY <1>7, <3>1, <3>2 DEF IngestWrites
    <3>4. docLock'[ing[i].pub] = i
      BY <1>7, <2>5, <3>2 DEF InsertChunk
    \* The first insert went through, so no committed row has its ordinal;
    \* a committed document always has a row with ordinal 1.
    <3>5. ing[i].cleared \/ chunks[ing[i].pub] = {}
      <4>1. CASE ing[i].next > 1
        BY <1>7, <4>1 DEF IngestHolds
      <4>2. CASE ing[i].next = 1
        <5> SUFFICES ASSUME ~ing[i].cleared, ing[i].pub \in docs
                     PROVE  FALSE
          BY <3>2 DEF WholeDocument
        <5>1. \A k \in chunks[ing[i].pub] : k.ord # 1
          BY <2>5, <4>2 DEF InsertChunk, Collides
        <5>2. PICK v \in Versions : /\ ChunkCount[v] > 0
                                    /\ chunks[ing[i].pub] = ChunksOf(v)
          BY <3>2 DEF WholeDocument
        <5>3. 1 \in 1 .. ChunkCount[v]
          BY <5>2, ChunkCountAssumption
        <5>4. [ord |-> 1, ver |-> v] \in chunks[ing[i].pub]
          BY <5>2, <5>3 DEF ChunksOf, ChunksUpTo
        <5> QED
          BY <5>1, <5>4
      <4> QED
        BY <3>2, <4>1, <4>2
    <3>6. IngestHolds(i)'
      BY <1>2, <3>1, <3>4, <3>5 DEF IngestHolds
    <3> QED
      BY <3>3, <3>6
  <2>6. CASE LoadStatus(i)
    <3>1. /\ ing[i].pc = "load" /\ ing'[i].pc = "flush"
          /\ ing'[i].pub = ing[i].pub /\ ing'[i].ver = ing[i].ver
          /\ ing'[i].next = ing[i].next /\ ing'[i].write = ing[i].write
          /\ ing'[i].cleared = ing[i].cleared /\ UNCHANGED docLock
      BY <1>7, <2>6 DEF LoadStatus, TypeOK, IngestState
    <3> QED
      BY <1>2, <1>7, <3>1 DEF IngestWrites, IngestHolds
  <2>7. CASE FlushStatus(i)
    <3> DEFINE w == SetStatus(ing[i].loaded, "ingested")
    <3>1. "status" \in w.cols => w.row.status = "ingested"
      BY <1>7 DEF SetStatus, Dirty, IngestState, Row
    <3>2. ing' = [ing EXCEPT ![i] = [ing[i] EXCEPT !.pc = "commit", !.write = w]]
      BY <2>7 DEF FlushStatus
    <3> HIDE DEF w
    <3>3. /\ ing[i].pc = "flush" /\ ing'[i].pc = "commit"
          /\ ing'[i].pub = ing[i].pub /\ ing'[i].ver = ing[i].ver
          /\ ing'[i].next = ing[i].next /\ ing'[i].write = w
          /\ ing'[i].cleared = ing[i].cleared /\ UNCHANGED docLock
      <4>1. ing[i].pc = "flush" /\ UNCHANGED docLock
        BY <2>7 DEF FlushStatus
      <4>2. ing'[i] = [ing[i] EXCEPT !.pc = "commit", !.write = w]
        BY <3>2 DEF TypeOK
      <4> QED
        BY <1>7, <4>1, <4>2 DEF IngestState
    <3> QED
      BY <1>2, <1>7, <3>1, <3>3 DEF IngestWrites, IngestHolds
  <2> QED
    BY <2>1, <2>2, <2>3, <2>4, <2>5, <2>6, <2>7
<1>9. IngestInv'
  BY <1>6, <1>8 DEF IngestInv
<1> QED
  BY <1>1, <1>3, <1>9

\* The commit: what becomes visible is one complete content, and 'ingested'
\* comes with it.
LEMMA CommitIngestIInv ==
    ASSUME IInv, NEW i \in Ingesters, CommitIngest(i)
    PROVE  IInv'
<1> USE DEF IInv
<1> DEFINE p == ing[i].pub
           v == ing[i].ver
<1>1. TypeOK'
  BY IngestType DEF IngestInv, IngestStep
<1>2. /\ ing[i] \in IngestState /\ IngestWrites(ing[i]) /\ IngestHolds(i)
      /\ ing[i].pc = "commit"
  BY DEF TypeOK, IngestInv, CommitIngest
<1>3. /\ p \in Pubs /\ v \in Versions /\ ChunkCount[v] \in Nat
      /\ ChunkCount[v] > 0 /\ ing[i].next = ChunkCount[v] + 1
  BY <1>2, ChunkCountAssumption DEF IngestWrites
<1>4. docLock[p] = i /\ (ing[i].cleared \/ chunks[p] = {})
  BY <1>2, <1>3 DEF IngestHolds
<1>5. ChunksAfter(i) = ChunksOf(v)
  <2>1. ChunkCount[v] + 1 - 1 = ChunkCount[v]
    BY <1>3
  <2> QED
    BY <1>3, <1>4, <2>1 DEF ChunksAfter, ChunksOf
<1>6. chunks' = [chunks EXCEPT ![p] = ChunksOf(v)] /\ docs' = docs \cup {p}
  BY <1>5 DEF CommitIngest
<1>7. WholeDocument'
  <2>1. ASSUME NEW q \in Pubs, q # p
        PROVE  chunks'[q] = chunks[q] /\ (q \in docs' <=> q \in docs)
    BY <1>6, <2>1 DEF TypeOK
  <2>2. p \in docs' /\ chunks'[p] = ChunksOf(v)
    BY <1>3, <1>6 DEF TypeOK
  <2> QED
    BY <1>3, <2>1, <2>2 DEF WholeDocument
<1>8. IngestedIsIndexed'
  <2>1. \A q \in Pubs : q # p => reg'[q] = reg[q]
    BY DEF CommitIngest, TypeOK
  <2> QED
    BY <1>6, <2>1 DEF IngestedIsIndexed
<1>9. CrawlInv' /\ CrawlAtWork'
  BY DEF CommitIngest, CrawlInv, CrawlAtWork
<1>10. IngestWrites(ing'[i]) /\ IngestHolds(i)'
  BY DEF CommitIngest, NextTarget, IngestWrites, IngestHolds, AtRest, Between,
         NoWrite
<1>11. \A j \in Ingesters \ {i} : IngestWrites(ing'[j]) /\ IngestHolds(j)'
  <2>1. ASSUME NEW j \in Ingesters \ {i}
        PROVE  /\ ing'[j].pc = ing[j].pc /\ ing'[j].pub = ing[j].pub
               /\ ing'[j].ver = ing[j].ver /\ ing'[j].next = ing[j].next
               /\ ing'[j].cleared = ing[j].cleared
               /\ ing'[j].write = ing[j].write
    <3>1. ing'[j] = [ing[j] EXCEPT !.missed = ing[j].missed \/ Missed(p, j)]
      BY DEF CommitIngest
    <3>2. ing[j] \in IngestState
      BY DEF TypeOK
    <3> QED
      BY <3>1, <3>2 DEF IngestState
  <2>2. \A q \in Pubs : docLock[q] \notin {NoProc, i} => docLock'[q] = docLock[q]
    BY DEF CommitIngest, KeptAfterCommit, Without
  <2>3. \A q \in Pubs : docLock[q] \notin {NoProc, i} => chunks'[q] = chunks[q]
    BY <1>4, <1>6 DEF TypeOK
  <2> QED
    BY <2>1, <2>2, <2>3, OthersKeep
<1>12. IngestInv'
  BY <1>10, <1>11 DEF IngestInv
<1> QED
  BY <1>1, <1>7, <1>8, <1>9, <1>12

LEMMA NextIInv == IInv /\ [Next]_vars => IInv'
<1> SUFFICES ASSUME IInv, [Next]_vars PROVE IInv'
  OBVIOUS
<1>1. ASSUME NEW p \in Pubs, Publish(p) PROVE IInv'
  <2>1. TypeOK'
    BY <1>1, PublishType DEF IInv
  <2> QED
    BY <1>1, <2>1 DEF IInv, Publish, IngestInv, IngestHolds, CrawlInv,
       CrawlAtWork, WholeDocument, IngestedIsIndexed
<1>2. ASSUME NEW c \in Crawlers, StartCrawl(c) \/ CrawlStep(c) \/ AbortCrawl(c)
      PROVE  IInv'
  BY <1>2, CrawlIInv
<1>3. ASSUME NEW i \in Ingesters,
             StartIngest(i) \/ IngestStep(i) \/ AbortIngest(i)
      PROVE  IInv'
  BY <1>3, IngestWorkIInv, CommitIngestIInv, RollBackIngestIInv
  DEF IngestStep, IngestCollides, AbortIngest
<1>4. CASE BreakDeadlock
  BY <1>4, RollBackCrawlIInv, RollBackIngestIInv DEF BreakDeadlock
<1>5. CASE UNCHANGED vars
  BY <1>5 DEF vars, IInv, TypeOK, IngestInv, IngestHolds, CrawlInv,
     CrawlAtWork, WholeDocument, IngestedIsIndexed
<1> QED
  BY <1>1, <1>2, <1>3, <1>4, <1>5 DEF Next

\* The invariant behind the theorems below holds throughout.
THEOREM Invariance == Spec => []IInv
BY InitIInv, NextIInv, PTL DEF Spec

\* Every variable keeps its type.
THEOREM TypeCorrect == Spec => []TypeOK
<1>1. IInv => TypeOK
  BY DEF IInv
<1> QED
  BY <1>1, Invariance, PTL

\* However many ingests work on a publication, however they crash, wait and
\* collide, a committed document is one whole content of the page.
THEOREM DocumentsAreWhole == Spec => []WholeDocument
<1>1. IInv => WholeDocument
  BY DEF IInv
<1> QED
  BY <1>1, Invariance, PTL

\* A publication that is 'ingested' has a document to be found by search.
THEOREM IngestedHasDocument == Spec => []IngestedIsIndexed
<1>1. IInv => IngestedIsIndexed
  BY DEF IInv
<1> QED
  BY <1>1, Invariance, PTL

-----------------------------------------------------------------------------
(* The refinement of PublicationIndex.  A process commits what it computed *)
(* from a row it read long ago.  The status it writes is still a legal     *)
(* successor of the one in the row because of the row's lock, and the      *)
(* status it leaves alone because no row is ever taken back to 'absent' or *)
(* 'discovered'.                                                           *)

\* A crawl holds the rows it wrote; a row it found missing is missing until it
\* commits, and one it found is there.
CrawlKnows(c) ==
    /\ \A p \in Pubs :
         LET w == crawl[c].writes[p] IN
         /\ w.cols # {} => rowLock[p] = c
         /\ "status" \in w.cols =>
              (w.row.status = "discovered" <=> reg[p].status = "absent")
    /\ crawl[c].pc = "flush" /\ crawl[c].loaded.status # "absent" =>
         reg[crawl[c].pub].status # "absent"

HasText == {"ingested", "stale"}

\* An ingest works on registered publications and on contents the site has
\* served; it holds the row if it wrote it, and left it alone only if it said
\* 'ingested' already.
IngestKnows(i) ==
    /\ \A p \in ing[i].todo : reg[p].status # "absent"
    /\ ing[i].pc \notin {"idle", "fetch"} =>
         /\ reg[ing[i].pub].status # "absent"
         /\ ing[i].ver <= live[ing[i].pub]
    /\ ing[i].write.cols # {} => ing[i].pc = "commit" /\ rowLock[ing[i].pub] = i
    /\ ing[i].pc \in {"flush", "commit"} /\ ing[i].loaded.status = "ingested" =>
         reg[ing[i].pub].status \in HasText
    /\ ing[i].pc = "commit" => ing[i].write = SetStatus(ing[i].loaded, "ingested")

IndexInv == /\ \A c \in Crawlers : CrawlKnows(c)
            /\ \A i \in Ingesters : IngestKnows(i)

\* What q's step leaves alone: rows that others hold, and how far a row and
\* the site have come.
Respects(q) ==
    \A p \in Pubs :
      /\ rowLock[p] \notin {NoProc, q} => rowLock'[p] = rowLock[p] /\ reg'[p] = reg[p]
      /\ reg[p].status # "absent" => reg'[p].status # "absent"
      /\ reg[p].status \in HasText => reg'[p].status \in HasText
      /\ live[p] <= live'[p]

\* Nothing is known at the start.
LEMMA InitIndexInv == Init => IndexInv
BY DEF Init, IndexInv, CrawlKnows, IngestKnows, IdleCrawl, AtRest, Between, NoWrite

-----------------------------------------------------------------------------
(* The steps of the others.                                                *)

LEMMA OtherCrawlsKnow ==
    ASSUME IInv, IndexInv, NEW q, Respects(q), NEW c \in Crawlers, c # q,
           crawl'[c] = crawl[c]
    PROVE  CrawlKnows(c)'
<1>1. c # NoProc /\ CrawlKnows(c)
  BY ProcAssumption DEF Procs, IndexInv
<1>2. crawl[c].pc = "flush" => crawl[c].pub \in Pubs
  BY DEF IInv, CrawlAtWork
<1>3. \A p \in Pubs : crawl[c].writes[p].cols # {} =>
        rowLock'[p] = c /\ reg'[p] = reg[p]
  BY <1>1 DEF CrawlKnows, Respects
<1>4. \A p \in Pubs : "status" \in crawl[c].writes[p].cols =>
        crawl[c].writes[p].cols # {}
  OBVIOUS
<1>5. crawl[c].pc = "flush" /\ crawl[c].loaded.status # "absent" =>
        reg'[crawl[c].pub].status # "absent"
  BY <1>1, <1>2 DEF CrawlKnows, Respects
<1> QED
  BY <1>1, <1>3, <1>4, <1>5 DEF CrawlKnows

LEMMA OtherIngestsKnow ==
    ASSUME IInv, IndexInv, NEW q, Respects(q), NEW i \in Ingesters, i # q,
           ing'[i].pc = ing[i].pc, ing'[i].todo = ing[i].todo,
           ing'[i].pub = ing[i].pub, ing'[i].ver = ing[i].ver,
           ing'[i].loaded = ing[i].loaded, ing'[i].write = ing[i].write,
           live' \in [Pubs -> Versions]
    PROVE  IngestKnows(i)'
<1>1. i # NoProc /\ IngestKnows(i)
  BY ProcAssumption DEF Procs, IndexInv
<1>2. /\ ing[i].todo \subseteq Pubs
      /\ ing[i].pc \notin {"idle", "fetch"} =>
           ing[i].pub \in Pubs /\ ing[i].ver \in Versions
  BY DEF IInv, TypeOK, IngestState, IngestInv, IngestWrites
<1>3. live \in [Pubs -> Versions] /\ Versions \subseteq Nat
  BY MaxVersionAssumption DEF IInv, TypeOK, Versions
<1>4. ing[i].pc \notin {"idle", "fetch"} => ing[i].ver <= live'[ing[i].pub]
  <2> SUFFICES ASSUME ing[i].pc \notin {"idle", "fetch"}
               PROVE  ing[i].ver <= live'[ing[i].pub]
    OBVIOUS
  <2>1. ing[i].ver <= live[ing[i].pub] /\ ing[i].pub \in Pubs
    BY <1>1, <1>2 DEF IngestKnows
  <2>2. live[ing[i].pub] <= live'[ing[i].pub]
    BY <2>1 DEF Respects
  <2>3. /\ ing[i].ver \in Nat /\ live[ing[i].pub] \in Nat
        /\ live'[ing[i].pub] \in Nat
    BY <1>2, <1>3, <2>1
  <2> QED
    BY <2>1, <2>2, <2>3
<1>5. ing[i].write.cols # {} => rowLock'[ing[i].pub] = i
  BY <1>1, <1>2 DEF IngestKnows, Respects
<1>6. ing[i].pc \in {"flush", "commit"} /\ ing[i].loaded.status = "ingested" =>
        reg'[ing[i].pub].status \in HasText
  BY <1>1, <1>2 DEF IngestKnows, Respects
<1>7. \A p \in ing[i].todo : reg'[p].status # "absent"
  BY <1>1, <1>2 DEF IngestKnows, Respects
<1>8. ing[i].pc \notin {"idle", "fetch"} => reg'[ing[i].pub].status # "absent"
  BY <1>1, <1>2 DEF IngestKnows, Respects
<1> QED
  BY <1>1, <1>4, <1>5, <1>6, <1>7, <1>8 DEF IngestKnows

\* A step that touches neither the rows nor the site, and no lock of others.
LEMMA RespectsByStanding ==
    ASSUME TypeOK, NEW q, UNCHANGED <<reg, live>>,
           \A p \in Pubs : rowLock[p] \notin {NoProc, q} => rowLock'[p] = rowLock[p]
    PROVE  Respects(q)
<1>1. \A p \in Pubs : live[p] <= live[p]
  BY MaxVersionAssumption DEF TypeOK, Versions
<1> QED
  BY <1>1 DEF Respects

-----------------------------------------------------------------------------
(* A crawl's steps.                                                        *)

\* What upsert sends: 'discovered' for a row it did not find, and 'stale' for
\* one it did, or no status.
LEMMA UpsertStatus ==
    ASSUME NEW loaded \in Row, NEW v \in Versions, NEW refs \in SUBSET Models
    PROVE  LET w == Upsert(loaded, v, refs) IN
           "status" \in w.cols =>
             (w.row.status = "discovered" <=> loaded.status = "absent")
BY DEF Upsert, Dirty, StatusAfter, Row, Statuses

LEMMA CrawlCommits ==
    ASSUME IInv, IndexInv, NEW c \in Crawlers, CommitCrawl(c)
    PROVE  /\ Respects(c)
           /\ \A p \in Pubs : \/ reg'[p].status = reg[p].status
                              \/ reg[p].status = "absent"
                                   /\ reg'[p].status = "discovered"
                              \/ reg[p].status # "absent"
                                   /\ reg'[p].status = "stale"
<1>0. CrawlKnows(c) /\ reg \in [Pubs -> Row] /\ live \in [Pubs -> Versions]
  BY DEF IndexInv, IInv, TypeOK
<1>1. ASSUME NEW p \in Pubs
      PROVE  /\ reg'[p] = Apply(reg[p], crawl[c].writes[p])
             /\ crawl[c].writes[p].cols = {} => reg'[p] = reg[p]
  <2>1. reg'[p] = Apply(reg[p], crawl[c].writes[p])
    BY DEF CommitCrawl
  <2>2. reg[p] \in Row
    BY <1>0
  <2> QED
    BY <2>1, <2>2 DEF Apply, Row
<1>2. ASSUME NEW p \in Pubs
      PROVE  \/ reg'[p].status = reg[p].status
             \/ reg[p].status = "absent" /\ reg'[p].status = "discovered"
             \/ reg[p].status # "absent" /\ reg'[p].status = "stale"
  <2> DEFINE w == crawl[c].writes[p]
  <2>1. reg'[p].status = IF "status" \in w.cols THEN w.row.status ELSE reg[p].status
    <3>1. reg'[p] = Apply(reg[p], w)
      BY <1>1
    <3> HIDE DEF w
    <3> QED
      BY <3>1 DEF Apply
  <2>2. "status" \in w.cols =>
          /\ w.row.status \in {"discovered", "stale"}
          /\ w.row.status = "discovered" <=> reg[p].status = "absent"
    BY <1>0 DEF IInv, CrawlInv, CrawlKnows
  <2> QED
    BY <2>1, <2>2
<1>3. Respects(c)
  <2>1. ASSUME NEW p \in Pubs, rowLock[p] \notin {NoProc, c}
        PROVE  rowLock'[p] = rowLock[p] /\ reg'[p] = reg[p]
    BY <1>0, <1>1, <2>1 DEF CommitCrawl, Without, CrawlKnows
  <2>2. \A p \in Pubs : live[p] <= live'[p]
    BY <1>0, MaxVersionAssumption DEF CommitCrawl, Versions
  <2>3. ASSUME NEW p \in Pubs
        PROVE  /\ reg[p].status # "absent" => reg'[p].status # "absent"
               /\ reg[p].status \in HasText => reg'[p].status \in HasText
    BY <1>2 DEF HasText
  <2> QED
    BY <2>1, <2>2, <2>3 DEF Respects
<1> QED
  BY <1>2, <1>3

\* A crawl that has written nothing, and is not at a row, has nothing to know.
LEMMA FreshCrawlKnows ==
    ASSUME NEW c \in Crawlers, crawl'[c].writes = [p \in Pubs |-> NoWrite],
           crawl'[c].pc # "flush"
    PROVE  CrawlKnows(c)'
BY DEF CrawlKnows, NoWrite

LEMMA CrawlFlushes ==
    ASSUME IInv, IndexInv, NEW c \in Crawlers, CrawlFlush(c)
    PROVE  Respects(c) /\ CrawlKnows(c)'
<1> DEFINE p == crawl[c].pub
           w == Upsert(crawl[c].loaded, crawl[c].ver, crawl[c].found[p])
<1>1. /\ crawl[c] \in CrawlState /\ CrawlKnows(c) /\ p \in Pubs
      /\ crawl[c].ver \in Versions /\ crawl[c].pc = "flush"
      /\ rowLock \in [Pubs -> Procs \cup {NoProc}]
  BY DEF IInv, TypeOK, IndexInv, CrawlAtWork, CrawlFlush
<1>2. /\ crawl[c].writes \in [Pubs -> Write] /\ crawl[c].loaded \in Row
      /\ crawl[c].found[p] \in SUBSET Models
  BY <1>1 DEF CrawlState
<1>3. /\ rowLock' = [rowLock EXCEPT ![p] = c] /\ rowLock[p] \in {NoProc, c}
      /\ crawl[c].loaded.status = "absent" => reg[p].status = "absent"
      /\ UNCHANGED <<reg, live>>
  BY DEF CrawlFlush, Free
<1>4. Respects(c)
  BY <1>1, <1>3, RespectsByStanding DEF IInv
<1>5. "status" \in w.cols =>
        (w.row.status = "discovered" <=> crawl[c].loaded.status = "absent")
  BY <1>1, <1>2, UpsertStatus
<1>6. crawl[c].loaded.status # "absent" => reg[p].status # "absent"
  BY <1>1 DEF CrawlKnows
<1>7. /\ crawl'[c].writes = [crawl[c].writes EXCEPT ![p] = w]
      /\ crawl'[c].pc # "flush"
  BY <1>1 DEF CrawlFlush, CrawlState, IInv, TypeOK
<1> HIDE DEF w
<1>8. ASSUME NEW q \in Pubs
      PROVE  LET u == crawl'[c].writes[q] IN
             /\ u.cols # {} => rowLock'[q] = c
             /\ "status" \in u.cols =>
                  (u.row.status = "discovered" <=> reg'[q].status = "absent")
  <2>1. CASE q = p
    <3>1. crawl'[c].writes[q] = w
      BY <1>1, <1>2, <1>7, <2>1
    <3>2. rowLock'[q] = c
      BY <1>1, <1>3, <2>1
    <3> QED
      BY <1>3, <1>5, <1>6, <2>1, <3>1, <3>2
  <2>2. CASE q # p
    <3>1. crawl'[c].writes[q] = crawl[c].writes[q] /\ rowLock'[q] = rowLock[q]
      BY <1>1, <1>2, <1>3, <1>7, <2>2
    <3> QED
      BY <1>1, <1>3, <3>1 DEF CrawlKnows
  <2> QED
    BY <2>1, <2>2
<1>9. CrawlKnows(c)'
  BY <1>7, <1>8 DEF CrawlKnows
<1> QED
  BY <1>4, <1>9

\* Every step of a crawl but the commit: nothing a reader sees changes.
LEMMA CrawlWorks ==
    ASSUME IInv, IndexInv, NEW c \in Crawlers,
           StartCrawl(c) \/ CrawlStep(c) \/ AbortCrawl(c) \/ RollBackCrawl(c)
    PROVE  /\ Respects(c)
           /\ CrawlKnows(c)'
           /\ \A d \in Crawlers \ {c} : crawl'[d] = crawl[d]
           /\ UNCHANGED <<live, docs, chunks, ing>>
           /\ ~CommitCrawl(c) => UNCHANGED reg
<1>1. /\ \A d \in Crawlers \ {c} : crawl'[d] = crawl[d]
      /\ UNCHANGED <<live, docs, chunks, ing>>
      /\ ~CommitCrawl(c) => UNCHANGED reg
  BY DEF StartCrawl, CrawlStep, AbortCrawl, CrawlFetch, CrawlLoad, CrawlFlush,
         CommitCrawl, CrawlCollides, RollBackCrawl, IInv, TypeOK
<1>2. CASE RollBackCrawl(c) \/ CrawlCollides(c) \/ AbortCrawl(c)
  <2>1. RollBackCrawl(c)
    BY <1>2 DEF CrawlCollides, AbortCrawl
  <2>2. Respects(c)
    BY <2>1, RespectsByStanding DEF RollBackCrawl, Without, IInv
  <2>3. crawl'[c] = IdleCrawl
    BY <2>1 DEF RollBackCrawl, IInv, TypeOK
  <2>4. CrawlKnows(c)'
    BY <2>3, FreshCrawlKnows DEF IdleCrawl
  <2> QED
    BY <1>1, <2>2, <2>4
<1>3. CASE CommitCrawl(c)
  <2>1. crawl'[c] = IdleCrawl
    BY <1>3 DEF CommitCrawl, IInv, TypeOK
  <2>2. CrawlKnows(c)'
    BY <2>1, FreshCrawlKnows DEF IdleCrawl
  <2> QED
    BY <1>1, <1>3, <2>2, CrawlCommits
<1>4. CASE StartCrawl(c)
  <2>1. Respects(c)
    BY <1>4, RespectsByStanding DEF StartCrawl, IInv
  <2>2. CrawlKnows(c)'
    BY <1>4, StartFacts, FreshCrawlKnows DEF IInv
  <2> QED
    BY <1>1, <2>1, <2>2
<1>5. CASE CrawlFetch(c) \/ CrawlLoad(c)
  <2>1. Respects(c) /\ UNCHANGED <<reg, rowLock>>
    BY <1>5, RespectsByStanding DEF CrawlFetch, CrawlLoad, IInv
  <2>2. crawl'[c].writes = crawl[c].writes
    <3>1. CASE CrawlFetch(c)
      BY <3>1, FetchFacts DEF IInv
    <3>2. CASE CrawlLoad(c)
      BY <3>2 DEF CrawlLoad, IInv, TypeOK, CrawlState
    <3> QED
      BY <1>5, <3>1, <3>2
  <2>3. crawl'[c].pc = "flush" =>
          crawl'[c].loaded = reg[crawl[c].pub] /\ crawl'[c].pub = crawl[c].pub
    <3>1. CASE CrawlFetch(c)
      <4>1. PICK p \in crawl[c].todo : \E ver \in {cache[p], live[p]} :
              crawl' = [crawl EXCEPT ![c] =
                [@ EXCEPT !.pc = "load", !.pub = p, !.ver = ver]]
        BY <3>1 DEF CrawlFetch
      <4> QED
        BY <4>1 DEF IInv, TypeOK, CrawlState
    <3>2. CASE CrawlLoad(c)
      BY <3>2 DEF CrawlLoad, IInv, TypeOK, CrawlState
    <3> QED
      BY <1>5, <3>1, <3>2
  <2>4. CrawlKnows(c)
    BY DEF IndexInv
  <2>5. CrawlKnows(c)'
    BY <2>1, <2>2, <2>3, <2>4 DEF CrawlKnows
  <2> QED
    BY <1>1, <2>1, <2>5
<1>6. CASE CrawlFlush(c)
  BY <1>1, <1>6, CrawlFlushes
<1> QED
  BY <1>2, <1>3, <1>4, <1>5, <1>6 DEF CrawlStep

-----------------------------------------------------------------------------
(* An ingest's steps.                                                      *)

\* An ingest that is between two publications knows its targets only.
LEMMA RestingIngestKnows ==
    ASSUME NEW i \in Ingesters, NEW pc \in {"idle", "fetch"}, NEW todo,
           ing'[i] = AtRest(pc, todo), \A p \in todo : reg'[p].status # "absent"
    PROVE  IngestKnows(i)'
<1>1. ing'[i].pc = pc /\ ing'[i].todo = todo /\ ing'[i].write = NoWrite
  BY DEF AtRest, Between
<1> QED
  BY <1>1 DEF IngestKnows, NoWrite

\* The commit of an ingest, seen on its row.
LEMMA IngestCommits ==
    ASSUME IInv, IndexInv, NEW i \in Ingesters, CommitIngest(i)
    PROVE  /\ Respects(i)
           /\ IngestKnows(i)'
           /\ reg[ing[i].pub].status # "absent"
           /\ \A p \in Pubs \ {ing[i].pub} : reg'[p] = reg[p]
           /\ \/ reg'[ing[i].pub].status = "ingested"
              \/ /\ reg[ing[i].pub].status = "stale"
                 /\ reg'[ing[i].pub].status = "stale"
<1> DEFINE p == ing[i].pub
           w == ing[i].write
<1>1. /\ IngestKnows(i) /\ ing[i] \in IngestState /\ IngestWrites(ing[i])
      /\ reg \in [Pubs -> Row] /\ live \in [Pubs -> Versions]
      /\ ing[i].pc = "commit" /\ UNCHANGED live
  BY DEF IndexInv, IInv, TypeOK, IngestInv, CommitIngest
<1>2. p \in Pubs /\ reg[p].status # "absent" /\ reg[p] \in Row
  BY <1>1 DEF IngestWrites, IngestKnows
<1>3. /\ reg' = [reg EXCEPT ![p] = Apply(reg[p], w)]
      /\ rowLock' = Without(rowLock, i)
  BY DEF CommitIngest, KeptAfterCommit
<1>4. \A q \in Pubs \ {p} : reg'[q] = reg[q]
  BY <1>1, <1>3
<1>5. reg'[p] = Apply(reg[p], w)
  BY <1>1, <1>2, <1>3
<1>6. ing[i].loaded \in Row
  BY <1>1 DEF IngestState
<1>7. /\ w.cols = {} => ing[i].loaded.status = "ingested"
      /\ w.cols # {} => "status" \in w.cols /\ w.row.status = "ingested"
  <2>1. w = SetStatus(ing[i].loaded, "ingested")
    BY <1>1 DEF IngestKnows
  <2> HIDE DEF w
  <2> QED
    BY <1>6, <2>1 DEF SetStatus, Dirty, Row
<1>8. \/ reg'[p].status = "ingested"
      \/ reg[p].status = "stale" /\ reg'[p].status = "stale"
  <2>1. CASE w.cols = {}
    <3>1. reg[p].status \in HasText
      BY <1>1, <1>7, <2>1 DEF IngestKnows
    <3>2. reg'[p].status = reg[p].status
      <4> HIDE DEF w
      <4> QED BY <1>5, <2>1 DEF Apply
    <3> QED
      BY <3>1, <3>2 DEF HasText
  <2>2. CASE w.cols # {}
    <3> HIDE DEF w
    <3> QED BY <1>5, <1>7, <2>2 DEF Apply
  <2> QED
    BY <2>1, <2>2
<1>9. Respects(i)
  <2>1. ASSUME NEW q \in Pubs, rowLock[q] \notin {NoProc, i}
        PROVE  rowLock'[q] = rowLock[q] /\ reg'[q] = reg[q]
    <3>1. rowLock'[q] = rowLock[q]
      BY <1>3, <2>1 DEF Without
    <3>2. CASE q # p
      BY <1>4, <3>1, <3>2
    <3>3. CASE q = p
      <4>1. w.cols = {}
        BY <1>1, <2>1, <3>3 DEF IngestKnows
      <4> HIDE DEF w
      <4>2. reg'[p] = reg[p]
        BY <1>2, <1>5, <4>1 DEF Apply, Row
      <4> QED
        BY <3>1, <3>3, <4>2
    <3> QED
      BY <3>2, <3>3
  <2>2. \A q \in Pubs : live[q] <= live'[q]
    BY <1>1, MaxVersionAssumption DEF Versions
  <2>3. ASSUME NEW q \in Pubs
        PROVE  /\ reg[q].status # "absent" => reg'[q].status # "absent"
               /\ reg[q].status \in HasText => reg'[q].status \in HasText
    BY <1>4, <1>8 DEF HasText
  <2> QED
    BY <2>1, <2>2, <2>3 DEF Respects
<1>10. IngestKnows(i)'
  <2>1. ing'[i] = NextTarget(ing[i].todo)
    BY DEF CommitIngest
  <2>2. ing[i].todo \subseteq Pubs
    BY <1>1 DEF IngestState
  <2>3. \A q \in ing[i].todo : reg'[q].status # "absent"
    BY <1>1, <1>9, <2>2 DEF IngestKnows, Respects
  <2> QED
    BY <2>1, <2>3, RestingIngestKnows DEF NextTarget
<1> QED
  BY <1>2, <1>4, <1>8, <1>9, <1>10

\* Every step of an ingest but the commit: nothing a reader sees changes.
LEMMA IngestWorks ==
    ASSUME IInv, IndexInv, NEW i \in Ingesters, ~CommitIngest(i),
           StartIngest(i) \/ IngestStep(i) \/ AbortIngest(i) \/ RollBackIngest(i)
    PROVE  /\ Respects(i)
           /\ IngestKnows(i)'
           /\ \A j \in Ingesters \ {i} : ing'[j] = ing[j]
           /\ UNCHANGED <<live, reg, docs, chunks, crawl>>
<1>1. /\ IngestKnows(i) /\ ing[i] \in IngestState /\ IngestWrites(ing[i])
      /\ reg \in [Pubs -> Row] /\ live \in [Pubs -> Versions]
      /\ ing \in [Ingesters -> IngestState]
      /\ rowLock \in [Pubs -> Procs \cup {NoProc}]
  BY DEF IndexInv, IInv, TypeOK, IngestInv
<1>2. /\ \A j \in Ingesters \ {i} : ing'[j] = ing[j]
      /\ UNCHANGED <<live, reg, docs, chunks, crawl>>
  BY <1>1 DEF StartIngest, IngestStep, AbortIngest, RollBackIngest, IngestFetch,
     IngestFails, LookUpDocument, CreateDocument, StartDelete, FinishDelete,
     InsertChunk, LoadStatus, FlushStatus, IngestCollides
<1>3. Respects(i)
  <2>1. \A p \in Pubs : rowLock[p] \notin {NoProc, i} => rowLock'[p] = rowLock[p]
    <3>1. CASE UNCHANGED rowLock
      BY <3>1
    <3>2. CASE rowLock' = Without(rowLock, i)
      BY <3>2 DEF Without
    <3>3. CASE FlushStatus(i)
      BY <1>1, <3>3 DEF FlushStatus, Free
    <3> QED
      BY <3>1, <3>2, <3>3
      DEF StartIngest, IngestStep, AbortIngest, RollBackIngest, IngestFetch,
          IngestFails, LookUpDocument, CreateDocument, StartDelete, FinishDelete,
          InsertChunk, LoadStatus, IngestCollides
  <2> QED
    BY <1>2, <2>1, RespectsByStanding DEF IInv
<1>4. CASE RollBackIngest(i) \/ AbortIngest(i) \/ IngestCollides(i)
  <2>1. ing'[i] = AtRest("idle", {})
    BY <1>1, <1>4 DEF RollBackIngest, AbortIngest, IngestCollides
  <2>2. IngestKnows(i)'
    BY <2>1, RestingIngestKnows
  <2> QED
    BY <1>2, <1>3, <2>2
<1>5. CASE StartIngest(i)
  <2>1. PICK todo \in Targets : ing' = [ing EXCEPT ![i] = AtRest("fetch", todo)]
    BY <1>5 DEF StartIngest
  <2>2. ing'[i] = AtRest("fetch", todo)
    BY <1>1, <2>1
  <2>3. \A p \in todo : reg'[p].status # "absent"
    BY <1>2, <2>1 DEF Targets, Registered
  <2>4. IngestKnows(i)'
    BY <2>2, <2>3, RestingIngestKnows
  <2> QED
    BY <1>2, <1>3, <2>4
<1>6. CASE IngestFails(i)
  <2>1. PICK p \in ing[i].todo :
          ing' = [ing EXCEPT ![i] = NextTarget(ing[i].todo \ {p})]
    BY <1>6 DEF IngestFails
  <2>2. ing'[i] = NextTarget(ing[i].todo \ {p})
    BY <1>1, <2>1
  <2>3. \A q \in ing[i].todo \ {p} : reg'[q].status # "absent"
    BY <1>1, <1>2 DEF IngestKnows
  <2>4. IngestKnows(i)'
    BY <2>2, <2>3, RestingIngestKnows DEF NextTarget
  <2> QED
    BY <1>2, <1>3, <2>4
<1>7. CASE IngestFetch(i)
  <2>1. PICK p \in ing[i].todo :
          ing' = [ing EXCEPT ![i] =
            [@ EXCEPT !.pc = "lookup", !.pub = p,
                      !.todo = ing[i].todo \ {p}, !.ver = live[p]]]
    BY <1>7 DEF IngestFetch
  <2>2. p \in Pubs /\ live[p] \in Nat /\ ing[i].pc = "fetch"
    BY <1>1, <1>7, <2>1, MaxVersionAssumption DEF IngestState, Versions, IngestFetch
  <2>3. /\ ing'[i].pc = "lookup" /\ ing'[i].pub = p /\ ing'[i].ver = live[p]
        /\ ing'[i].todo = ing[i].todo \ {p} /\ ing'[i].write = ing[i].write
    BY <1>1, <2>1 DEF IngestState
  <2>4. IngestKnows(i)'
    BY <1>1, <1>2, <2>1, <2>2, <2>3 DEF IngestKnows
  <2> QED
    BY <1>2, <1>3, <2>4
<1>8. CASE \/ LookUpDocument(i) \/ CreateDocument(i) \/ StartDelete(i)
           \/ FinishDelete(i) \/ InsertChunk(i)
  <2>1. /\ ing[i].pc \in {"lookup", "create", "delete", "deleting", "insert"}
        /\ ing'[i].pc \in {"create", "delete", "deleting", "insert", "load"}
        /\ ing'[i].pub = ing[i].pub /\ ing'[i].ver = ing[i].ver
        /\ ing'[i].todo = ing[i].todo /\ ing'[i].write = ing[i].write
    <3>1. CASE LookUpDocument(i)
      BY <1>1, <3>1 DEF LookUpDocument, IngestState
    <3>2. CASE CreateDocument(i)
      BY <1>1, <3>2 DEF CreateDocument, IngestState
    <3>3. CASE StartDelete(i)
      BY <1>1, <3>3 DEF StartDelete, IngestState
    <3>4. CASE FinishDelete(i)
      BY <1>1, <3>4 DEF FinishDelete, IngestState
    <3>5. CASE InsertChunk(i)
      BY <1>1, <3>5 DEF InsertChunk, IngestState
    <3> QED
      BY <1>8, <3>1, <3>2, <3>3, <3>4, <3>5
  <2>2. IngestKnows(i)'
    BY <1>1, <1>2, <2>1 DEF IngestKnows
  <2> QED
    BY <1>2, <1>3, <2>2
<1>9. CASE LoadStatus(i)
  <2>1. /\ ing[i].pc = "load" /\ ing'[i].pc = "flush"
        /\ ing'[i].pub = ing[i].pub /\ ing'[i].ver = ing[i].ver
        /\ ing'[i].todo = ing[i].todo /\ ing'[i].write = ing[i].write
        /\ ing'[i].loaded = reg[ing[i].pub]
    BY <1>1, <1>9 DEF LoadStatus, IngestState
  <2>2. IngestKnows(i)'
    BY <1>1, <1>2, <2>1 DEF IngestKnows, HasText
  <2> QED
    BY <1>2, <1>3, <2>2
<1>10. CASE FlushStatus(i)
  <2> DEFINE w == SetStatus(ing[i].loaded, "ingested")
  <2>1. /\ ing[i].pc = "flush" /\ ing[i].pub \in Pubs
        /\ ing' = [ing EXCEPT ![i] = [ing[i] EXCEPT !.pc = "commit", !.write = w]]
        /\ w.cols # {} => rowLock' = [rowLock EXCEPT ![ing[i].pub] = i]
    BY <1>1, <1>10 DEF FlushStatus, IngestWrites
  <2> HIDE DEF w
  <2>2. /\ ing'[i].pc = "commit" /\ ing'[i].write = w
        /\ ing'[i].pub = ing[i].pub /\ ing'[i].ver = ing[i].ver
        /\ ing'[i].todo = ing[i].todo /\ ing'[i].loaded = ing[i].loaded
    BY <1>1, <2>1 DEF IngestState
  <2>3. w.cols # {} => rowLock'[ing[i].pub] = i
    BY <1>1, <2>1
  <2>4. w = SetStatus(ing'[i].loaded, "ingested")
    BY <2>2 DEF w
  <2>5. IngestKnows(i)'
    BY <1>1, <1>2, <2>1, <2>2, <2>3, <2>4 DEF IngestKnows
  <2> QED
    BY <1>2, <1>3, <2>5
<1> QED
  BY <1>4, <1>5, <1>6, <1>7, <1>8, <1>9, <1>10 DEF IngestStep

\* The other ingests stay where they are; a commit only tells those that wait
\* to delete the same rows that there are new ones.
LEMMA OtherIngestsStand ==
    ASSUME IInv, IndexInv, NEW i \in Ingesters,
           StartIngest(i) \/ IngestStep(i) \/ AbortIngest(i) \/ RollBackIngest(i)
    PROVE  \A j \in Ingesters \ {i} :
             /\ ing'[j].pc = ing[j].pc /\ ing'[j].todo = ing[j].todo
             /\ ing'[j].pub = ing[j].pub /\ ing'[j].ver = ing[j].ver
             /\ ing'[j].loaded = ing[j].loaded /\ ing'[j].write = ing[j].write
<1> SUFFICES ASSUME NEW j \in Ingesters \ {i}
             PROVE  /\ ing'[j].pc = ing[j].pc /\ ing'[j].todo = ing[j].todo
                    /\ ing'[j].pub = ing[j].pub /\ ing'[j].ver = ing[j].ver
                    /\ ing'[j].loaded = ing[j].loaded /\ ing'[j].write = ing[j].write
  OBVIOUS
<1>1. CASE CommitIngest(i)
  <2>1. ing'[j] = [ing[j] EXCEPT !.missed = ing[j].missed \/ Missed(ing[i].pub, j)]
    BY <1>1 DEF CommitIngest
  <2> QED
    BY <2>1 DEF IInv, TypeOK, IngestState
<1>2. CASE ~CommitIngest(i)
  <2>1. ing'[j] = ing[j]
    BY <1>2, IngestWorks
  <2> QED
    BY <2>1
<1> QED
  BY <1>1, <1>2

\* The invariant is kept by every step.
LEMMA NextIndexInv ==
    ASSUME IInv, IInv', IndexInv, [Next]_vars
    PROVE  IndexInv'
<1>0. live' \in [Pubs -> Versions]
  BY DEF IInv, TypeOK
<1>1. ASSUME NEW c \in Crawlers,
             StartCrawl(c) \/ CrawlStep(c) \/ AbortCrawl(c) \/ RollBackCrawl(c)
      PROVE  IndexInv'
  <2>1. /\ Respects(c) /\ CrawlKnows(c)'
        /\ \A d \in Crawlers \ {c} : crawl'[d] = crawl[d]
        /\ UNCHANGED ing
    BY <1>1, CrawlWorks
  <2>2. \A d \in Crawlers : CrawlKnows(d)'
    BY <2>1, OtherCrawlsKnow
  <2>3. \A i \in Ingesters : IngestKnows(i)'
    <3>1. \A i \in Ingesters : i # c
      BY ProcAssumption
    <3> QED
      BY <1>0, <2>1, <3>1, OtherIngestsKnow
  <2> QED
    BY <2>2, <2>3 DEF IndexInv
<1>2. ASSUME NEW i \in Ingesters,
             StartIngest(i) \/ IngestStep(i) \/ AbortIngest(i) \/ RollBackIngest(i)
      PROVE  IndexInv'
  <2>1. /\ Respects(i) /\ IngestKnows(i)' /\ UNCHANGED crawl
    BY <1>2, IngestWorks, IngestCommits DEF CommitIngest
  <2>3. \A j \in Ingesters : IngestKnows(j)'
    <3>1. ASSUME NEW j \in Ingesters \ {i} PROVE IngestKnows(j)'
      BY <1>0, <1>2, <2>1, OtherIngestsStand, OtherIngestsKnow
    <3> QED
      BY <2>1, <3>1
  <2>4. \A c \in Crawlers : CrawlKnows(c)'
    <3>1. \A c \in Crawlers : c # i
      BY ProcAssumption
    <3> QED
      BY <2>1, <3>1, OtherCrawlsKnow
  <2> QED
    BY <2>3, <2>4 DEF IndexInv
<1>3. ASSUME NEW p \in Pubs, Publish(p) PROVE IndexInv'
  <2>1. UNCHANGED <<reg, rowLock, crawl, ing>> /\ live' = [live EXCEPT ![p] = live[p] + 1]
    BY <1>3 DEF Publish
  <2>2. \A q \in Pubs : live[q] <= live'[q]
    BY <2>1, MaxVersionAssumption DEF IInv, TypeOK, Versions
  <2>3. Respects(NoProc)
    BY <2>1, <2>2 DEF Respects
  <2>4. \A q \in Procs : q # NoProc
    BY ProcAssumption
  <2>5. \A c \in Crawlers : CrawlKnows(c)'
    BY <2>1, <2>3, <2>4, OtherCrawlsKnow DEF Procs
  <2>6. \A i \in Ingesters : IngestKnows(i)'
    BY <1>0, <2>1, <2>3, <2>4, OtherIngestsKnow DEF Procs
  <2> QED
    BY <2>5, <2>6 DEF IndexInv
<1>4. CASE UNCHANGED vars
  BY <1>4 DEF vars, IndexInv, CrawlKnows, IngestKnows
<1> QED
  BY <1>1, <1>2, <1>3, <1>4 DEF Next, BreakDeadlock

-----------------------------------------------------------------------------
(* The refinement.                                                         *)

\* The rows of a content name it.
LEMMA ChunksNameContent ==
    ASSUME NEW u \in Versions, NEW v \in Versions, ChunkCount[v] > 0
    PROVE  /\ ChunksOf(v) # {}
           /\ ChunksOf(u) = ChunksOf(v) => u = v
<1>1. 1 \in 1 .. ChunkCount[v]
  BY ChunkCountAssumption
<1>2. [ord |-> 1, ver |-> v] \in ChunksOf(v)
  BY <1>1 DEF ChunksOf, ChunksUpTo
<1>3. [ord |-> 1, ver |-> v] \in ChunksOf(u) => u = v
  BY DEF ChunksOf, ChunksUpTo
<1> QED
  BY <1>2, <1>3

\* So a document that was just committed is indexed with its content.
LEMMA IndexedIsCommitted ==
    ASSUME IInv, NEW i \in Ingesters, CommitIngest(i),
           NEW p, p = ing[i].pub, NEW v, v = ing[i].ver
    PROVE  /\ p \in Pubs /\ v \in Versions
           /\ IndexedVersion(p)' = v
           /\ \A q \in Pubs \ {p} : IndexedVersion(q)' = IndexedVersion(q)
<1>1. /\ IngestWrites(ing[i]) /\ IngestHolds(i) /\ ing[i].pc = "commit"
      /\ chunks \in [Pubs -> SUBSET Chunk]
  BY DEF IInv, TypeOK, IngestInv, CommitIngest
<1>2. /\ p \in Pubs /\ v \in Versions /\ ChunkCount[v] > 0
      /\ ChunkCount[v] \in Nat /\ ing[i].next = ChunkCount[v] + 1
  BY <1>1, ChunkCountAssumption DEF IngestWrites
<1>3. ing[i].cleared \/ chunks[p] = {}
  BY <1>1, <1>2 DEF IngestHolds
<1>4. ChunksAfter(i) = ChunksOf(v)
  <2>1. ChunkCount[v] + 1 - 1 = ChunkCount[v]
    BY <1>2
  <2> QED
    BY <1>2, <1>3, <2>1 DEF ChunksAfter, ChunksOf
<1>5. chunks' = [chunks EXCEPT ![p] = ChunksOf(v)]
  BY <1>4 DEF CommitIngest
<1>6. chunks'[p] = ChunksOf(v)
  BY <1>1, <1>2, <1>5
<1>7. IndexedVersion(p)' = v
  <2>1. chunks'[p] # {}
    BY <1>2, <1>6, ChunksNameContent
  <2>2. \A u \in Versions : chunks'[p] = ChunksOf(u) <=> u = v
    BY <1>2, <1>6, ChunksNameContent
  <2>3. (CHOOSE u \in Versions : chunks'[p] = ChunksOf(u)) = v
    BY <1>2, <2>2
  <2> QED
    BY <1>2, <2>1, <2>2, <2>3 DEF IndexedVersion
<1>8. ASSUME NEW q \in Pubs \ {p} PROVE IndexedVersion(q)' = IndexedVersion(q)
  <2>1. chunks'[q] = chunks[q]
    BY <1>1, <1>5
  <2> QED
    BY <2>1 DEF IndexedVersion
<1> QED
  BY <1>2, <1>7, <1>8

\* A state of the database as a state of PublicationIndex.
Indexed == [p \in Pubs |-> IndexedVersion(p)]
Status == [p \in Pubs |-> reg[p].status]

LEMMA InitMaps == Init => Index!Init
<1> SUFFICES ASSUME Init PROVE Index!Init
  OBVIOUS
<1>1. \A p \in Pubs : IndexedVersion(p) = 0 /\ reg[p].status = "absent"
  BY DEF Init, IndexedVersion, NoRow
<1>2. Indexed = [p \in Pubs |-> 0] /\ Status = [p \in Pubs |-> "absent"]
  BY <1>1 DEF Indexed, Status
<1>3. live = [p \in Pubs |-> 1]
  BY DEF Init
<1> QED
  BY <1>2, <1>3 DEF Index!Init, Indexed, Status

\* A step that leaves the rows alone is none of the index's.
LEMMA StandingMaps ==
    ASSUME UNCHANGED <<live, reg, chunks>>
    PROVE  UNCHANGED Index!vars
<1>1. \A p \in Pubs : IndexedVersion(p)' = IndexedVersion(p)
  BY DEF IndexedVersion
<1>2. Indexed' = Indexed /\ Status' = Status
  BY <1>1 DEF Indexed, Status
<1> QED
  BY <1>2 DEF Index!vars, Indexed, Status

LEMMA NextMaps ==
    ASSUME IInv, IndexInv, [Next]_vars
    PROVE  [Index!Next]_(Index!vars)
<1>1. ASSUME NEW p \in Pubs, Publish(p) PROVE Index!Publish(p)
  <2>1. UNCHANGED <<reg, chunks>> /\ live[p] < MaxVersion
        /\ live' = [live EXCEPT ![p] = live[p] + 1]
    BY <1>1 DEF Publish
  <2>2. \A q \in Pubs : IndexedVersion(q)' = IndexedVersion(q)
    BY <2>1 DEF IndexedVersion
  <2>3. Indexed' = Indexed /\ Status' = Status
    BY <2>1, <2>2 DEF Indexed, Status
  <2> QED
    BY <2>1, <2>3 DEF Index!Publish, Indexed, Status
<1>2. ASSUME NEW c \in Crawlers, CommitCrawl(c) PROVE Index!Discover
  <2>1. UNCHANGED <<live, chunks>>
    BY <1>2 DEF CommitCrawl
  <2>2. \A q \in Pubs : IndexedVersion(q)' = IndexedVersion(q)
    BY <2>1 DEF IndexedVersion
  <2>3. Indexed' = Indexed
    BY <2>2 DEF Indexed
  <2>4. \A p \in Pubs : \/ Status'[p] = Status[p]
                        \/ Status[p] = "absent" /\ Status'[p] = "discovered"
                        \/ Status[p] # "absent" /\ Status'[p] = "stale"
    BY <1>2, CrawlCommits DEF Status
  <2>5. \A p \in Pubs : Status[p] \in {"absent", "discovered", "ingested", "stale"}
    BY DEF Status, IInv, TypeOK, Row, Statuses
  <2>6. Status' \in [Pubs -> {"absent", "discovered", "ingested", "stale"}]
    <3>1. \A p \in Pubs : Status'[p] \in {"absent", "discovered", "ingested", "stale"}
      BY <2>4, <2>5
    <3>2. Status' = [p \in Pubs |-> reg'[p].status]
      BY DEF Status
    <3> QED
      BY <3>1, <3>2
  <2> QED
    BY <2>1, <2>3, <2>4, <2>6 DEF Index!Discover, Indexed, Status
<1>3. ASSUME NEW i \in Ingesters, CommitIngest(i)
      PROVE  \E p \in Pubs : Index!Ingest(p)
  <2>0. PICK p, v : p = ing[i].pub /\ v = ing[i].ver
    OBVIOUS
  <2>1. /\ p \in Pubs /\ v \in Versions
        /\ IndexedVersion(p)' = v
        /\ \A q \in Pubs \ {p} : IndexedVersion(q)' = IndexedVersion(q)
    BY <1>3, <2>0, IndexedIsCommitted
  <2>2. /\ reg[p].status # "absent"
        /\ \A q \in Pubs \ {p} : reg'[q] = reg[q]
        /\ \/ reg'[p].status = "ingested"
           \/ reg[p].status = "stale" /\ reg'[p].status = "stale"
    BY <1>3, <2>0, IngestCommits
  <2>3. v \in 1 .. live[p]
    <3>1. v <= live[p]
      BY <1>3, <2>0 DEF IndexInv, IngestKnows, CommitIngest
    <3> QED
      BY <2>1, <3>1, MaxVersionAssumption DEF Versions, IInv, TypeOK
  <2>4. UNCHANGED live
    BY <1>3 DEF CommitIngest
  <2>5. Indexed' = [Indexed EXCEPT ![p] = v]
    BY <2>1 DEF Indexed
  <2>6. \/ Status' = [Status EXCEPT ![p] = "ingested"]
        \/ Status[p] = "stale" /\ Status' = Status
    BY <2>1, <2>2 DEF Status
  <2>7. Status[p] # "absent"
    BY <2>1, <2>2 DEF Status
  <2> QED
    BY <2>1, <2>3, <2>4, <2>5, <2>6, <2>7 DEF Index!Ingest, Indexed, Status
<1>4. ASSUME NEW c \in Crawlers, ~CommitCrawl(c),
             StartCrawl(c) \/ CrawlStep(c) \/ AbortCrawl(c) \/ RollBackCrawl(c)
      PROVE  UNCHANGED Index!vars
  BY <1>4, CrawlWorks, StandingMaps
<1>5. ASSUME NEW i \in Ingesters, ~CommitIngest(i),
             StartIngest(i) \/ IngestStep(i) \/ AbortIngest(i) \/ RollBackIngest(i)
      PROVE  UNCHANGED Index!vars
  BY <1>5, IngestWorks, StandingMaps
<1>6. CASE UNCHANGED vars
  BY <1>6, StandingMaps DEF vars
<1>7. CASE \E p \in Pubs : Publish(p)
  BY <1>1, <1>7 DEF Index!Next
<1>8. ASSUME NEW c \in Crawlers,
             StartCrawl(c) \/ CrawlStep(c) \/ AbortCrawl(c) \/ RollBackCrawl(c)
      PROVE  Index!Next \/ UNCHANGED Index!vars
  BY <1>2, <1>4, <1>8 DEF Index!Next
<1>9. ASSUME NEW i \in Ingesters,
             StartIngest(i) \/ IngestStep(i) \/ AbortIngest(i) \/ RollBackIngest(i)
      PROVE  Index!Next \/ UNCHANGED Index!vars
  BY <1>3, <1>5, <1>9 DEF Index!Next
<1> QED
  BY <1>6, <1>7, <1>8, <1>9 DEF Next, BreakDeadlock

\* However crawls and ingests interleave, fail, collide and deadlock, readers of
\* the database see whole texts that the site once served, replaced at once
\* with the status, and statuses in the order of the registry's design.
THEOREM Implements == Spec => ImplementsIndex
<1>1. Spec => []IInv
  BY Invariance
<1>2. IInv /\ IInv' /\ IndexInv /\ [Next]_vars => IndexInv'
  BY NextIndexInv
<1>3. IInv /\ IndexInv /\ [Next]_vars => [Index!Next]_(Index!vars)
  BY NextMaps
<1> QED
  BY <1>1, <1>2, <1>3, InitIndexInv, InitMaps, PTL
  DEF Spec, ImplementsIndex, Index!Spec

-----------------------------------------------------------------------------
(* Locks.  A lock on a document is held by the ingest that works on it,    *)
(* and a lock on a row of publications by an ingest that only has to       *)
(* commit.                                                                 *)

\* From the document row on, up to the commit.
AtDocument == {"delete", "deleting", "insert", "load", "flush", "commit"}

HoldsInOrder(i) ==
    \A p \in Pubs :
      /\ docLock[p] = i => ing[i].pub = p /\ ing[i].pc \in AtDocument
      /\ rowLock[p] = i => ing[i].pc = "commit"

LockInv == \A i \in Ingesters : HoldsInOrder(i)

\* Nobody holds anything at the start.
LEMMA InitLockInv == Init => LockInv
  BY ProcAssumption DEF Init, LockInv, HoldsInOrder, Procs

\* An ingest that stays where it is and takes no lock keeps the order.
LEMMA StaysInOrder ==
    ASSUME NEW i \in Ingesters, HoldsInOrder(i),
           ing'[i].pub = ing[i].pub, ing'[i].pc = ing[i].pc,
           \A p \in Pubs : /\ docLock'[p] = i => docLock[p] = i
                           /\ rowLock'[p] = i => rowLock[p] = i
    PROVE  HoldsInOrder(i)'
  BY DEF HoldsInOrder

\* A crawl takes and gives back rows of publications for itself only.
LEMMA CrawlLocks ==
    ASSUME TypeOK, LockInv, NEW c \in Crawlers,
           \/ StartCrawl(c) \/ CrawlStep(c) \/ AbortCrawl(c) \/ RollBackCrawl(c)
    PROVE  LockInv'
<1>1. UNCHANGED <<ing, docLock>>
  BY DEF StartCrawl, CrawlStep, AbortCrawl, CrawlFetch, CrawlLoad, CrawlFlush,
         CommitCrawl, CrawlCollides, RollBackCrawl
<1>2. ASSUME NEW i \in Ingesters, NEW p \in Pubs, rowLock'[p] = i
      PROVE  rowLock[p] = i
  <2>1. i # c /\ i # NoProc
    BY ProcAssumption DEF Procs
  <2>2. CASE UNCHANGED rowLock
    BY <1>2, <2>2
  <2>3. CASE rowLock' = Without(rowLock, c)
    BY <1>2, <2>1, <2>3 DEF Without
  <2>4. CASE CrawlFlush(c)
    BY <1>2, <2>1, <2>4 DEF CrawlFlush, TypeOK
  <2> QED
    BY <2>2, <2>3, <2>4
    DEF StartCrawl, CrawlStep, AbortCrawl, CrawlFetch, CrawlLoad, CommitCrawl,
        CrawlCollides, RollBackCrawl
<1> QED
  BY <1>1, <1>2, StaysInOrder DEF LockInv

\* Another ingest's step changes nothing of what i holds.
LEMMA OthersStayInOrder ==
    ASSUME TypeOK, LockInv, NEW j \in Ingesters,
           StartIngest(j) \/ IngestStep(j) \/ AbortIngest(j) \/ RollBackIngest(j)
    PROVE  \A i \in Ingesters \ {j} : HoldsInOrder(i)'
<1> SUFFICES ASSUME NEW i \in Ingesters \ {j} PROVE HoldsInOrder(i)'
  OBVIOUS
<1>0. i # NoProc /\ HoldsInOrder(i)
  BY ProcAssumption DEF Procs, LockInv
<1>1. ing'[i].pub = ing[i].pub /\ ing'[i].pc = ing[i].pc
  <2>1. CASE CommitIngest(j)
    <3>1. ing'[i] = [ing[i] EXCEPT !.missed = ing[i].missed \/ Missed(ing[j].pub, i)]
      BY <2>1 DEF CommitIngest
    <3> QED
      BY <3>1 DEF TypeOK, IngestState
  <2>2. CASE ~CommitIngest(j)
    <3>1. ing'[i] = ing[i]
      BY <2>2 DEF StartIngest, IngestStep, AbortIngest, RollBackIngest, IngestFetch,
         IngestFails, LookUpDocument, CreateDocument, StartDelete, FinishDelete,
         InsertChunk, LoadStatus, FlushStatus, IngestCollides, TypeOK
    <3> QED
      BY <3>1
  <2> QED
    BY <2>1, <2>2
<1>2. ASSUME NEW p \in Pubs
      PROVE  /\ docLock'[p] = i => docLock[p] = i
             /\ rowLock'[p] = i => rowLock[p] = i
  <2>1. CASE /\ docLock' \in {docLock, Without(docLock, j)}
             /\ rowLock' \in {rowLock, Without(rowLock, j)}
    BY <1>0, <2>1 DEF Without
  <2>2. CASE CreateDocument(j) \/ FinishDelete(j) \/ InsertChunk(j) \/ FlushStatus(j)
    BY <1>0, <2>2 DEF CreateDocument, FinishDelete, InsertChunk, FlushStatus, TypeOK
  <2> QED
    BY <2>1, <2>2
    DEF StartIngest, IngestStep, AbortIngest, RollBackIngest, IngestFetch, IngestFails,
        LookUpDocument, StartDelete, LoadStatus, CommitIngest, KeptAfterCommit,
        IngestCollides
<1> QED
  BY <1>0, <1>1, <1>2, StaysInOrder

\* An ingest takes its document first, then the row, and then commits.
LEMMA OwnLocks ==
    ASSUME TypeOK, LockInv, NEW i \in Ingesters,
           StartIngest(i) \/ IngestStep(i) \/ AbortIngest(i) \/ RollBackIngest(i)
    PROVE  HoldsInOrder(i)'
<1>0. /\ i # NoProc /\ HoldsInOrder(i) /\ ing[i] \in IngestState
      /\ docLock \in [Pubs -> Ingesters \cup {NoProc}]
      /\ rowLock \in [Pubs -> Procs \cup {NoProc}]
      /\ ing \in [Ingesters -> IngestState]
  BY ProcAssumption DEF Procs, LockInv, TypeOK
<1>1. CASE CommitIngest(i) \/ AbortIngest(i) \/ IngestCollides(i) \/ RollBackIngest(i)
  <2>1. docLock' = Without(docLock, i) /\ rowLock' = Without(rowLock, i)
    BY <1>1 DEF CommitIngest, KeptAfterCommit, AbortIngest, IngestCollides, RollBackIngest
  <2> QED
    BY <1>0, <2>1 DEF Without, HoldsInOrder
<1>2. CASE StartIngest(i) \/ IngestFetch(i) \/ IngestFails(i) \/ LookUpDocument(i)
  <2>1. ing[i].pc \notin AtDocument /\ UNCHANGED <<docLock, rowLock>>
    BY <1>2 DEF StartIngest, IngestFetch, IngestFails, LookUpDocument, AtDocument
  <2> QED
    BY <1>0, <2>1 DEF HoldsInOrder, AtDocument
<1>3. CASE CreateDocument(i)
  <2>1. /\ ing'[i].pc = "delete" /\ ing'[i].pub = ing[i].pub
        /\ UNCHANGED rowLock
        /\ docLock' = [docLock EXCEPT ![ing[i].pub] = i]
        /\ ing[i].pc = "create"
    BY <1>0, <1>3 DEF CreateDocument, IngestState
  <2> QED
    BY <1>0, <2>1 DEF HoldsInOrder, AtDocument
<1>4. CASE StartDelete(i) \/ LoadStatus(i)
  <2>1. /\ ing[i].pc \in {"delete", "load"} /\ ing'[i].pc \in {"deleting", "flush"}
        /\ ing'[i].pub = ing[i].pub /\ UNCHANGED <<docLock, rowLock>>
    <3>1. CASE StartDelete(i)
      BY <1>0, <3>1 DEF StartDelete, IngestState
    <3>2. CASE LoadStatus(i)
      BY <1>0, <3>2 DEF LoadStatus, IngestState
    <3> QED
      BY <1>4, <3>1, <3>2
  <2> QED
    BY <1>0, <2>1 DEF HoldsInOrder, AtDocument
<1>5. CASE FinishDelete(i)
  <2>1. /\ ing[i].pc = "deleting" /\ ing'[i].pc = "insert" /\ UNCHANGED rowLock
        /\ ing'[i].pub = ing[i].pub
        /\ docLock' \in {docLock, [docLock EXCEPT ![ing[i].pub] = i]}
    BY <1>0, <1>5 DEF FinishDelete, IngestState
  <2> QED
    BY <1>0, <2>1 DEF HoldsInOrder, AtDocument
<1>6. CASE InsertChunk(i)
  <2>1. /\ ing[i].pc = "insert" /\ ing'[i].pc \in {"insert", "load"}
        /\ ing'[i].pub = ing[i].pub /\ UNCHANGED rowLock
        /\ docLock' = [docLock EXCEPT ![ing[i].pub] = i]
    BY <1>0, <1>6 DEF InsertChunk, IngestState
  <2> QED
    BY <1>0, <2>1 DEF HoldsInOrder, AtDocument
<1>7. CASE FlushStatus(i)
  <2>1. /\ ing'[i].pc = "commit" /\ ing'[i].pub = ing[i].pub /\ UNCHANGED docLock
        /\ ing[i].pc = "flush"
    BY <1>0, <1>7 DEF FlushStatus, IngestState
  <2> QED
    BY <1>0, <2>1 DEF HoldsInOrder, AtDocument
<1> QED
  BY <1>1, <1>2, <1>3, <1>4, <1>5, <1>6, <1>7 DEF IngestStep

\* Every step keeps the order.
LEMMA NextLockInv == TypeOK /\ LockInv /\ [Next]_vars => LockInv'
<1> SUFFICES ASSUME TypeOK, LockInv, [Next]_vars PROVE LockInv'
  OBVIOUS
<1>1. ASSUME NEW c \in Crawlers,
             StartCrawl(c) \/ CrawlStep(c) \/ AbortCrawl(c) \/ RollBackCrawl(c)
      PROVE  LockInv'
  BY <1>1, CrawlLocks
<1>2. ASSUME NEW i \in Ingesters,
             StartIngest(i) \/ IngestStep(i) \/ AbortIngest(i) \/ RollBackIngest(i)
      PROVE  LockInv'
  BY <1>2, OwnLocks, OthersStayInOrder DEF LockInv
<1>3. CASE (\E p \in Pubs : Publish(p)) \/ UNCHANGED vars
  BY <1>3 DEF Publish, vars, LockInv, HoldsInOrder
<1> QED
  BY <1>1, <1>2, <1>3 DEF Next, BreakDeadlock

-----------------------------------------------------------------------------
(* Who waits for whom.                                                     *)

\* A process that is waited for, and waits itself, is not about to commit.
LEMMA CommittersDoNotWait ==
    ASSUME NEW i \in Ingesters, ing[i].pc = "commit"
    PROVE  Blocker(i) = NoProc
  BY ProcAssumption DEF Blocker, Procs

\* A crawl waits for a crawl, or for an ingest that only has to commit.
LEMMA CrawlWaitsForRow ==
    ASSUME IInv, LockInv, NEW c \in Crawlers, NEW i \in Ingesters, Blocker(c) = i
    PROVE  ing[i].pc = "commit"
<1>1. c \notin Ingesters /\ i # NoProc
  BY ProcAssumption DEF Procs
<1>2. crawl[c].pc = "flush" /\ rowLock[crawl[c].pub] = i
  BY <1>1 DEF Blocker
<1>3. crawl[c].pub \in Pubs
  BY <1>2 DEF IInv, CrawlAtWork
<1> QED
  BY <1>2, <1>3 DEF LockInv, HoldsInOrder

\* An ingest that waits for another one waits for its document, or the other
\* one only has to commit.
LEMMA IngestWaitsForDocument ==
    ASSUME IInv, LockInv, NEW a \in Ingesters, NEW i \in Ingesters, Blocker(a) = i
    PROVE  \/ ing[i].pc = "commit"
           \/ /\ docLock[ing[a].pub] = i /\ i # a
              /\ ing[a].pub \in Pubs /\ ing[i].pub = ing[a].pub
<1>1. a \notin Crawlers /\ i # NoProc
  BY ProcAssumption DEF Procs
<1>2. \/ /\ ing[a].pc \in {"create", "deleting", "insert"}
         /\ docLock[ing[a].pub] = i /\ ~Free(docLock, ing[a].pub, a)
      \/ ing[a].pc = "flush" /\ rowLock[ing[a].pub] = i
  BY <1>1 DEF Blocker
<1>3. ing[a].pub \in Pubs
  BY <1>2 DEF IInv, IngestInv, IngestWrites
<1> QED
  BY <1>2, <1>3 DEF LockInv, HoldsInOrder, Free

\* So no ingest is in a circle.
LEMMA NoIngestInCircle == IInv /\ LockInv => DeadlocksAreAmongCrawls
<1> SUFFICES ASSUME IInv, LockInv, NEW S \in SUBSET Procs, WaitCycle(S),
                    NEW i \in S, i \notin Crawlers
             PROVE  FALSE
  BY DEF DeadlocksAreAmongCrawls
<1>1. \A q \in S : Blocker(q) \in S /\ Blocker(q) # NoProc
  BY ProcAssumption DEF WaitCycle, Procs
<1>2. \A q \in S : q \in Ingesters => ing[q].pc # "commit"
  BY <1>1, CommittersDoNotWait
<1>3. ASSUME NEW q \in S, q \in Ingesters
      PROVE  \E b \in S : b \in Ingesters /\ Blocker(b) = q
  <2>1. PICK b \in S : Blocker(b) = q
    BY DEF WaitCycle
  <2>2. b \notin Crawlers
    BY <1>2, <1>3, <2>1, CrawlWaitsForRow
  <2> QED
    BY <2>1, <2>2 DEF Procs
<1>4. i \in Ingesters
  BY DEF Procs
<1>5. PICK a \in S : a \in Ingesters /\ Blocker(a) = i
  BY <1>3, <1>4
<1>6. PICK b \in S : b \in Ingesters /\ Blocker(b) = a
  BY <1>3, <1>5
<1>7. docLock[ing[a].pub] = i /\ i # a
  BY <1>2, <1>4, <1>5, IngestWaitsForDocument
<1>8. docLock[ing[b].pub] = a /\ ing[a].pub = ing[b].pub
  BY <1>2, <1>5, <1>6, IngestWaitsForDocument
<1> QED
  BY <1>7, <1>8

\* However many crawls, ingests and publications there are: whenever processes
\* wait for each other in a circle, all of them are crawls.
THEOREM IngestsDoNotDeadlock == Spec => []DeadlocksAreAmongCrawls
<1>1. Init => LockInv
  BY InitLockInv
<1>2. IInv /\ LockInv /\ [Next]_vars => LockInv'
  BY NextLockInv DEF IInv
<1>3. Spec => []IInv
  BY Invariance
<1>4. IInv /\ LockInv => DeadlocksAreAmongCrawls
  BY NoIngestInCircle
<1> QED
  BY <1>1, <1>2, <1>3, <1>4, PTL DEF Spec

-----------------------------------------------------------------------------
(* Crawl evidence.  A row a crawl has read keeps its evidence until the    *)
(* crawl commits.                                                          *)

\* What a crawl has read, and what it is going to write, includes the evidence
\* that is in the row, except what came since it read.
HasEvidence(c) ==
    /\ crawl[c].pc = "flush" =>
         reg[crawl[c].pub].refs
           \subseteq crawl[c].loaded.refs \cup unseen[c][crawl[c].pub]
    /\ \A p \in Pubs : LET w == crawl[c].writes[p] IN
         "refs" \in w.cols => reg[p].refs \subseteq w.row.refs \cup unseen[c][p]

EvidenceInv == \A c \in Crawlers : HasEvidence(c)

\* How the step of a crawl that commits nothing changes its own state.
CrawlGoes(c) ==
    \/ crawl'[c].writes = [p \in Pubs |-> NoWrite] /\ crawl'[c].pc \in {"fetch", "commit"}
    \/ crawl'[c] = IdleCrawl
    \/ CrawlFetch(c) /\ crawl'[c].writes = crawl[c].writes /\ crawl'[c].pc = "load"
    \/ /\ crawl'[c].writes = crawl[c].writes /\ crawl'[c].pc = "flush"
       /\ crawl[c].pc = "load" /\ crawl[c].pub \in Pubs
       /\ crawl'[c].pub = crawl[c].pub /\ crawl'[c].ver = crawl[c].ver
       /\ crawl'[c].loaded = reg[crawl[c].pub]
    \/ /\ crawl[c].pc = "flush" /\ crawl'[c].pc \in {"fetch", "commit"}
       /\ crawl[c].pub \in Pubs /\ crawl[c].ver \in Versions /\ crawl[c].loaded \in Row
       /\ \E refs \in SUBSET Models :
            crawl'[c].writes = [crawl[c].writes EXCEPT ![crawl[c].pub] =
                                  Upsert(crawl[c].loaded, crawl[c].ver, refs)]

LEMMA CrawlGoesOn ==
    ASSUME IInv, NEW c \in Crawlers, ~CommitCrawl(c),
           StartCrawl(c) \/ CrawlStep(c) \/ AbortCrawl(c) \/ RollBackCrawl(c)
    PROVE  CrawlGoes(c)
<1>1. crawl \in [Crawlers -> CrawlState] /\ TypeOK
  BY DEF IInv, TypeOK
<1>2. CASE RollBackCrawl(c) \/ CrawlCollides(c) \/ AbortCrawl(c)
  BY <1>1, <1>2 DEF RollBackCrawl, CrawlCollides, AbortCrawl, CrawlGoes
<1>3. CASE StartCrawl(c)
  BY <1>1, <1>3, StartFacts DEF CrawlGoes
<1>4. CASE CrawlFetch(c)
  <2>1. crawl'[c].pc = "load"
    BY <1>1, <1>4 DEF CrawlFetch, CrawlState
  <2> QED
    BY <1>1, <1>4, <2>1, FetchFacts DEF CrawlGoes
<1>5. CASE CrawlLoad(c)
  <2>1. /\ crawl'[c].writes = crawl[c].writes /\ crawl'[c].pc = "flush"
        /\ crawl[c].pc = "load"
        /\ crawl'[c].pub = crawl[c].pub /\ crawl'[c].ver = crawl[c].ver
        /\ crawl'[c].loaded = reg[crawl[c].pub]
    BY <1>1, <1>5 DEF CrawlLoad, CrawlState
  <2>2. crawl[c].pub \in Pubs
    BY <2>1 DEF IInv, CrawlAtWork
  <2> QED
    BY <2>1, <2>2 DEF CrawlGoes
<1>6. CASE CrawlFlush(c)
  <2>1. /\ crawl[c].pc = "flush" /\ crawl[c] \in CrawlState
        /\ crawl[c].pub \in Pubs /\ crawl[c].ver \in Versions
    BY <1>1, <1>6 DEF CrawlFlush, IInv, CrawlAtWork
  <2>2. crawl[c].loaded \in Row /\ crawl[c].found[crawl[c].pub] \in SUBSET Models
    BY <2>1 DEF CrawlState
  <2>3. crawl'[c].writes = [crawl[c].writes EXCEPT ![crawl[c].pub] =
          Upsert(crawl[c].loaded, crawl[c].ver, crawl[c].found[crawl[c].pub])]
    BY <1>1, <1>6 DEF CrawlFlush, CrawlState
  <2>4. crawl'[c].pc \in {"fetch", "commit"}
    BY <1>1, <1>6 DEF CrawlFlush, CrawlState
  <2> QED
    BY <2>1, <2>2, <2>3, <2>4 DEF CrawlGoes
<1> QED
  BY <1>2, <1>3, <1>4, <1>5, <1>6 DEF CrawlStep

\* An ingest's commit leaves the hash and the evidence of every row alone.
LEMMA IngestLeavesEvidence ==
    ASSUME IInv, IndexInv, NEW i \in Ingesters,
           StartIngest(i) \/ IngestStep(i) \/ AbortIngest(i) \/ RollBackIngest(i),
           NEW p \in Pubs
    PROVE  reg'[p].refs = reg[p].refs /\ reg'[p].hash = reg[p].hash
<1>1. CASE CommitIngest(i)
  <2> DEFINE w == ing[i].write
  <2>1. ing[i].loaded \in Row /\ w = SetStatus(ing[i].loaded, "ingested")
    BY <1>1 DEF IInv, TypeOK, IngestState, IndexInv, IngestKnows, CommitIngest
  <2>2. reg'[p] = IF p = ing[i].pub THEN Apply(reg[p], w) ELSE reg[p]
    BY <1>1 DEF CommitIngest, IInv, TypeOK
  <2> HIDE DEF w
  <2>3. "refs" \notin w.cols /\ "hash" \notin w.cols
    BY <2>1 DEF SetStatus, Dirty, Row
  <2> QED
    BY <2>2, <2>3 DEF Apply
<1>2. CASE ~CommitIngest(i)
  BY <1>2, IngestWorks
<1> QED
  BY <1>1, <1>2

\* What a new upsert sends: all the evidence it has read, the hash it was
\* called with, and no status only for a row that is 'stale' already.
LEMMA UpsertSends ==
    ASSUME NEW loaded \in Row, NEW v \in Versions, NEW refs \in SUBSET Models
    PROVE  LET w == Upsert(loaded, v, refs) IN
           /\ loaded.refs \subseteq w.row.refs
           /\ w.row.hash = v
           /\ "hash" \in w.cols => "status" \in w.cols \/ loaded.status = "stale"
BY DEF Upsert, Dirty, StatusAfter, MergedRefs, Row, Statuses

\* What was brought to a row since a crawl read it is kept until that ends.
LEMMA CrawlRemembers ==
    ASSUME IInv, NEW c \in Crawlers, ~CommitCrawl(c),
           StartCrawl(c) \/ CrawlStep(c) \/ AbortCrawl(c) \/ RollBackCrawl(c)
    PROVE  /\ \A d \in Crawlers \ {c} : unseen'[d] = unseen[d]
           /\ crawl'[c] = IdleCrawl \/ UNCHANGED unseen
BY DEF StartCrawl, CrawlStep, AbortCrawl, CrawlFetch, CrawlLoad, CrawlFlush,
       CrawlCollides, RollBackCrawl, IInv, TypeOK

LEMMA IngestRemembers ==
    ASSUME NEW i \in Ingesters,
           StartIngest(i) \/ IngestStep(i) \/ AbortIngest(i) \/ RollBackIngest(i)
    PROVE  UNCHANGED unseen
BY DEF StartIngest, IngestStep, AbortIngest, RollBackIngest, IngestFetch,
       IngestFails, LookUpDocument, CreateDocument, StartDelete, FinishDelete,
       InsertChunk, LoadStatus, FlushStatus, CommitIngest, IngestCollides

LEMMA IdleHasEvidence ==
    ASSUME NEW c \in Crawlers, crawl'[c] = IdleCrawl
    PROVE  HasEvidence(c)'
BY DEF HasEvidence, IdleCrawl, NoWrite

\* The rows after a commit, and what it adds to the history of another crawl.
LEMMA CommitBrings ==
    ASSUME IInv, NEW c \in Crawlers, CommitCrawl(c),
           NEW d \in Crawlers, d # c, NEW p \in Pubs
    PROVE  /\ reg'[p] = Apply(reg[p], crawl[c].writes[p])
           /\ crawl'[d] = crawl[d]
           /\ unseen[d][p] \subseteq unseen'[d][p]
           /\ HasRead(d, p) =>
                reg'[p].refs \subseteq reg[p].refs \cup unseen'[d][p]
<1>1. reg'[p] = Apply(reg[p], crawl[c].writes[p])
  BY DEF CommitCrawl
<1>2. crawl'[d] = crawl[d]
  BY DEF CommitCrawl, IInv, TypeOK
<1>3. unseen'[d][p] = IF HasRead(d, p) THEN unseen[d][p] \cup Brought(c, p)
                                       ELSE unseen[d][p]
  BY DEF CommitCrawl
<1>4. reg'[p].refs \subseteq reg[p].refs \cup Brought(c, p)
  BY <1>1 DEF Brought
<1> QED
  BY <1>1, <1>2, <1>3, <1>4

\* A commit adds to what another crawl has not seen; a row that the other wrote
\* is its own, and this commit has nothing for it.
LEMMA CommitTellsOthers ==
    ASSUME IInv, IndexInv, EvidenceInv, NEW c \in Crawlers, CommitCrawl(c),
           NEW d \in Crawlers, d # c
    PROVE  HasEvidence(d)'
<1>1. HasEvidence(d) /\ CrawlKnows(d) /\ CrawlKnows(c) /\ crawl'[d] = crawl[d]
  BY DEF EvidenceInv, IndexInv, CommitCrawl, IInv, TypeOK
<1>2. ASSUME crawl'[d].pc = "flush"
      PROVE  reg'[crawl'[d].pub].refs
               \subseteq crawl'[d].loaded.refs \cup unseen'[d][crawl'[d].pub]
  <2>1. PICK p : p = crawl[d].pub
    OBVIOUS
  <2>2. p \in Pubs /\ HasRead(d, p)
    BY <1>1, <1>2, <2>1 DEF IInv, CrawlAtWork, HasRead
  <2>3. reg[p].refs \subseteq crawl[d].loaded.refs \cup unseen[d][p]
    BY <1>1, <1>2, <2>1 DEF HasEvidence
  <2>4. /\ unseen[d][p] \subseteq unseen'[d][p]
        /\ reg'[p].refs \subseteq reg[p].refs \cup unseen'[d][p]
    BY <2>2, CommitBrings
  <2> QED
    BY <1>1, <2>1, <2>3, <2>4
<1>3. ASSUME NEW p \in Pubs, "refs" \in crawl'[d].writes[p].cols
      PROVE  reg'[p].refs \subseteq crawl'[d].writes[p].row.refs \cup unseen'[d][p]
  <2>1. rowLock[p] = d
    BY <1>1, <1>3 DEF CrawlKnows
  <2>2. crawl[c].writes[p].cols = {}
    BY <1>1, <2>1 DEF CrawlKnows
  <2>3. /\ reg'[p] = Apply(reg[p], crawl[c].writes[p])
        /\ unseen[d][p] \subseteq unseen'[d][p]
    BY CommitBrings
  <2>4. reg'[p].refs = reg[p].refs
    BY <2>2, <2>3 DEF Apply
  <2>5. reg[p].refs \subseteq crawl[d].writes[p].row.refs \cup unseen[d][p]
    BY <1>1, <1>3 DEF HasEvidence
  <2> QED
    BY <1>1, <2>3, <2>4, <2>5
<1> QED
  BY <1>2, <1>3 DEF HasEvidence

\* What p's row loses, it loses to the commit of a crawl that did not see it.
LostUnseen(p) ==
    \A m \in reg[p].refs \ reg'[p].refs :
      \E c \in Crawlers : /\ crawl[c].pc = "commit" /\ crawl'[c].pc = "idle"
                          /\ m \in unseen[c][p]

LEMMA CommitLosesUnseen ==
    ASSUME IInv, EvidenceInv, NEW c \in Crawlers, CommitCrawl(c), NEW p \in Pubs
    PROVE  LostUnseen(p)
<1> DEFINE w == crawl[c].writes[p]
<1>1. reg'[p] = Apply(reg[p], w) /\ crawl[c].pc = "commit" /\ crawl'[c].pc = "idle"
  BY DEF CommitCrawl, IInv, TypeOK, IdleCrawl
<1>2. "refs" \in w.cols => reg[p].refs \subseteq w.row.refs \cup unseen[c][p]
  BY DEF EvidenceInv, HasEvidence
<1> HIDE DEF w
<1>3. reg[p].refs \ reg'[p].refs \subseteq unseen[c][p]
  BY <1>1, <1>2 DEF Apply
<1> QED
  BY <1>1, <1>3 DEF LostUnseen

LEMMA CrawlKeepsEvidence ==
    ASSUME IInv, EvidenceInv, NEW c \in Crawlers, CrawlGoes(c), UNCHANGED reg,
           crawl'[c] = IdleCrawl \/ UNCHANGED unseen
    PROVE  HasEvidence(c)'
<1>0. /\ HasEvidence(c) /\ reg \in [Pubs -> Row]
      /\ crawl[c].writes \in [Pubs -> Write]
  BY DEF EvidenceInv, IInv, TypeOK, CrawlState
<1>2. CASE crawl'[c] = IdleCrawl
  BY <1>2, IdleHasEvidence
<1>3. CASE crawl'[c].writes = [p \in Pubs |-> NoWrite] /\ crawl'[c].pc # "flush"
  BY <1>3 DEF HasEvidence, NoWrite
<1>4. CASE /\ crawl'[c].writes = crawl[c].writes /\ UNCHANGED unseen
           /\ crawl'[c].pc = "flush" => crawl'[c].loaded = reg[crawl'[c].pub]
  BY <1>0, <1>4 DEF HasEvidence
<1>5. ASSUME crawl[c].pc = "flush", crawl'[c].pc # "flush", crawl[c].pub \in Pubs,
             crawl[c].ver \in Versions, crawl[c].loaded \in Row,
             UNCHANGED unseen, NEW refs \in SUBSET Models,
             crawl'[c].writes = [crawl[c].writes EXCEPT ![crawl[c].pub] =
                                   Upsert(crawl[c].loaded, crawl[c].ver, refs)]
      PROVE  HasEvidence(c)'
  <2> DEFINE w == Upsert(crawl[c].loaded, crawl[c].ver, refs)
  <2>1. crawl[c].loaded.refs \subseteq w.row.refs
    BY <1>5, UpsertSends
  <2>2. crawl'[c].writes = [crawl[c].writes EXCEPT ![crawl[c].pub] = w]
    BY <1>5
  <2> HIDE DEF w
  <2>3. reg[crawl[c].pub].refs \subseteq w.row.refs \cup unseen[c][crawl[c].pub]
    BY <1>0, <1>5, <2>1 DEF HasEvidence
  <2>4. ASSUME NEW p \in Pubs, "refs" \in crawl'[c].writes[p].cols
        PROVE  reg'[p].refs
                 \subseteq crawl'[c].writes[p].row.refs \cup unseen'[c][p]
    <3>1. CASE p = crawl[c].pub
      BY <1>0, <1>5, <2>2, <2>3, <3>1
    <3>2. CASE p # crawl[c].pub
      <4>1. crawl'[c].writes[p] = crawl[c].writes[p]
        BY <1>0, <2>2, <3>2
      <4> QED
        BY <1>0, <1>5, <2>4, <4>1 DEF HasEvidence
    <3> QED
      BY <3>1, <3>2
  <2> QED
    BY <1>5, <2>4 DEF HasEvidence
<1> QED
  BY <1>2, <1>3, <1>4, <1>5 DEF CrawlGoes

LEMMA NextEvidenceInv ==
    ASSUME IInv, IndexInv, EvidenceInv, [Next]_vars
    PROVE  EvidenceInv' /\ \A p \in Pubs : LostUnseen(p)
<1>1. ASSUME NEW c \in Crawlers,
             StartCrawl(c) \/ CrawlStep(c) \/ AbortCrawl(c) \/ RollBackCrawl(c)
      PROVE  EvidenceInv' /\ \A p \in Pubs : LostUnseen(p)
  <2>1. CASE CommitCrawl(c)
    <3>1. crawl'[c] = IdleCrawl
      BY <2>1 DEF CommitCrawl, IInv, TypeOK
    <3>2. \A d \in Crawlers : HasEvidence(d)'
      BY <2>1, <3>1, IdleHasEvidence, CommitTellsOthers
    <3> QED
      BY <2>1, <3>2, CommitLosesUnseen DEF EvidenceInv
  <2>2. CASE ~CommitCrawl(c)
    <3>1. UNCHANGED reg /\ \A d \in Crawlers \ {c} : crawl'[d] = crawl[d]
      BY <1>1, <2>2, CrawlWorks
    <3>2. /\ \A d \in Crawlers \ {c} : unseen'[d] = unseen[d]
          /\ crawl'[c] = IdleCrawl \/ UNCHANGED unseen
      BY <1>1, <2>2, CrawlRemembers
    <3>3. HasEvidence(c)'
      BY <1>1, <2>2, <3>1, <3>2, CrawlGoesOn, CrawlKeepsEvidence
    <3>4. ASSUME NEW d \in Crawlers \ {c} PROVE HasEvidence(d)'
      <4>1. HasEvidence(d) /\ crawl'[d] = crawl[d] /\ unseen'[d] = unseen[d]
        BY <3>1, <3>2 DEF EvidenceInv
      <4> QED
        BY <3>1, <4>1 DEF HasEvidence
    <3> QED
      BY <3>1, <3>3, <3>4 DEF EvidenceInv, LostUnseen
  <2> QED
    BY <2>1, <2>2
<1>2. ASSUME NEW i \in Ingesters,
             StartIngest(i) \/ IngestStep(i) \/ AbortIngest(i) \/ RollBackIngest(i)
      PROVE  EvidenceInv' /\ \A p \in Pubs : LostUnseen(p)
  <2>1. UNCHANGED <<crawl, unseen>>
    BY <1>2, IngestWorks, IngestRemembers DEF CommitIngest
  <2>2. \A p \in Pubs : reg'[p].refs = reg[p].refs
    BY <1>2, IngestLeavesEvidence
  <2>3. ASSUME NEW c \in Crawlers PROVE HasEvidence(c)'
    <3>1. HasEvidence(c) /\ (crawl[c].pc = "flush" => crawl[c].pub \in Pubs)
      BY DEF EvidenceInv, IInv, CrawlAtWork
    <3> QED
      BY <2>1, <2>2, <3>1 DEF HasEvidence
  <2> QED
    BY <2>2, <2>3 DEF EvidenceInv, LostUnseen
<1>3. CASE UNCHANGED <<reg, crawl, unseen>>
  BY <1>3 DEF EvidenceInv, HasEvidence, LostUnseen
<1> QED
  BY <1>1, <1>2, <1>3 DEF Next, BreakDeadlock, Publish, vars

\* However many crawls and ingests run, a row loses a model only to the commit
\* of a crawl that had read the row before the model was added to it.
THEOREM EvidenceIsLostOnlyToOverlap == Spec => EvidenceLostOnlyToOverlap
<1>1. Init => EvidenceInv
  BY DEF Init, EvidenceInv, HasEvidence, IdleCrawl, NoWrite
<1>2. IInv /\ IndexInv /\ EvidenceInv /\ [Next]_vars =>
        EvidenceInv' /\ [\A p \in Pubs : \A m \in reg[p].refs \ reg'[p].refs :
          \E c \in Crawlers : /\ crawl[c].pc = "commit" /\ crawl'[c].pc = "idle"
                              /\ m \in unseen[c][p]]_vars
  BY NextEvidenceInv DEF LostUnseen
<1>3. IInv /\ IInv' /\ IndexInv /\ [Next]_vars => IndexInv'
  BY NextIndexInv
<1>4. Spec => []IInv
  BY Invariance
<1> QED
  BY <1>1, <1>2, <1>3, <1>4, InitIndexInv, PTL DEF Spec, EvidenceLostOnlyToOverlap

-----------------------------------------------------------------------------
(* One command after the other.                                            *)

OneAtATime == \A q, r \in Procs : Running(q) /\ Running(r) => q = r

\* A step of q leaves alone who else runs, and starts q only if q may start.
LEMMA RunsAlone ==
    ASSUME Exclusive, OneAtATime, NEW q \in Procs,
           \A r \in Procs \ {q} : Running(r)' <=> Running(r),
           Running(q)' => Running(q) \/ MayStart
    PROVE  OneAtATime'
BY DEF OneAtATime, MayStart

LEMMA NextOneAtATime ==
    ASSUME Exclusive, IInv, IndexInv, OneAtATime, [Next]_vars
    PROVE  OneAtATime'
<1>1. ASSUME NEW c \in Crawlers,
             StartCrawl(c) \/ CrawlStep(c) \/ AbortCrawl(c) \/ RollBackCrawl(c)
      PROVE  OneAtATime'
  <2>1. (\A d \in Crawlers \ {c} : crawl'[d] = crawl[d]) /\ UNCHANGED ing
    BY <1>1, CrawlWorks
  <2>2. \A r \in Procs \ {c} : Running(r)' <=> Running(r)
    BY <2>1 DEF Procs, Running
  <2>3. ASSUME Running(c)' PROVE Running(c) \/ MayStart
    <3>1. crawl'[c].pc # "idle"
      BY <2>3, ProcAssumption DEF Running
    <3>2. CASE RollBackCrawl(c)
      BY <3>1, <3>2 DEF RollBackCrawl, IdleCrawl, IInv, TypeOK
    <3> QED
      BY <1>1, <3>2 DEF StartCrawl, CrawlStep, AbortCrawl, CrawlFetch, CrawlLoad,
         CrawlFlush, CommitCrawl, CrawlCollides, Running
  <2> QED
    BY <2>2, <2>3, RunsAlone DEF Procs
<1>2. ASSUME NEW i \in Ingesters,
             StartIngest(i) \/ IngestStep(i) \/ AbortIngest(i) \/ RollBackIngest(i)
      PROVE  OneAtATime'
  <2>1. (\A j \in Ingesters \ {i} : ing'[j].pc = ing[j].pc) /\ UNCHANGED crawl
    BY <1>2, OtherIngestsStand, IngestWorks DEF CommitIngest
  <2>2. \A r \in Procs \ {i} : Running(r)' <=> Running(r)
    BY <2>1 DEF Procs, Running
  <2>3. ASSUME Running(i)' PROVE Running(i) \/ MayStart
    <3>1. ing'[i].pc # "idle"
      BY <2>3, ProcAssumption DEF Running
    <3>2. CASE RollBackIngest(i)
      BY <3>1, <3>2 DEF RollBackIngest, AtRest, IInv, TypeOK
    <3> QED
      BY <1>2, <3>2 DEF StartIngest, IngestStep, AbortIngest, IngestFetch,
         IngestFails, LookUpDocument, CreateDocument, StartDelete, FinishDelete,
         InsertChunk, LoadStatus, FlushStatus, CommitIngest, IngestCollides, Running
  <2> QED
    BY <2>2, <2>3, RunsAlone DEF Procs
<1>3. CASE UNCHANGED <<crawl, ing>>
  BY <1>3 DEF OneAtATime, Running
<1> QED
  BY <1>1, <1>2, <1>3 DEF Next, BreakDeadlock, Publish, vars

LEMMA CommandsTakeTurns == ASSUME Exclusive PROVE Spec => []OneAtATime
<1>1. Init => OneAtATime
  BY DEF Init, OneAtATime, Running, IdleCrawl, AtRest
<1>2. IInv /\ IndexInv /\ OneAtATime /\ [Next]_vars => OneAtATime'
  BY NextOneAtATime
<1>3. IInv /\ IInv' /\ IndexInv /\ [Next]_vars => IndexInv'
  BY NextIndexInv
<1>4. Spec => []IInv
  BY Invariance
<1> QED
  BY <1>1, <1>2, <1>3, <1>4, InitIndexInv, PTL DEF Spec

\* No two crawls run at once.
OneCrawlAtATime ==
    \A c, d \in Crawlers : crawl[c].pc # "idle" /\ crawl[d].pc # "idle" => c = d

AtRestIsIdle(c) == crawl[c].pc = "idle" => crawl[c] = IdleCrawl

\* With the commit of the only crawl that runs, all are at rest.
LEMMA LastCrawlEnds ==
    ASSUME IInv, OneCrawlAtATime, NEW c \in Crawlers, CommitCrawl(c),
           \A d \in Crawlers : AtRestIsIdle(d)
    PROVE  \A d \in Crawlers : crawl'[d] = IdleCrawl
<1> SUFFICES ASSUME NEW d \in Crawlers PROVE crawl'[d] = IdleCrawl
  OBVIOUS
<1>1. CASE d = c
  BY <1>1 DEF CommitCrawl, IInv, TypeOK
<1>2. CASE d # c
  <2>1. crawl[c].pc # "idle" /\ crawl'[d] = crawl[d]
    BY <1>2 DEF CommitCrawl, IInv, TypeOK
  <2> QED
    BY <1>2, <2>1 DEF OneCrawlAtATime, AtRestIsIdle
<1> QED
  BY <1>1, <1>2

\* Nothing is ahead of the site.
SiteIsAhead ==
    \A p \in Pubs : reg[p].hash <= live[p] /\ cache[p] <= live[p]

\* A crawl works on contents the site has served; a row it has read still says
\* what it read; and it writes a new hash without a status only to a row that
\* does not say 'ingested'.
IsCurrent(c) ==
    /\ crawl[c].pc \in {"load", "flush"} => crawl[c].ver <= live[crawl[c].pub]
    /\ crawl[c].pc = "flush" => crawl[c].loaded.status = reg[crawl[c].pub].status
    /\ \A p \in Pubs : LET w == crawl[c].writes[p] IN
         "hash" \in w.cols =>
           /\ w.row.hash <= live[p]
           /\ "status" \in w.cols \/ reg[p].status # "ingested"

\* What an ingest has fetched is as new as what the registry knows.
IsNewest(i) ==
    ing[i].pc \notin {"idle", "fetch"} => reg[ing[i].pub].hash <= ing[i].ver

CurrentInv ==
    /\ SiteIsAhead
    /\ \A c \in Crawlers : AtRestIsIdle(c) /\ IsCurrent(c)
    /\ \A i \in Ingesters : IsNewest(i)
    /\ IngestedIsCurrent

LEMMA InitCurrentInv == Init => CurrentInv
<1> SUFFICES ASSUME Init PROVE CurrentInv
  OBVIOUS
<1>1. IdleCrawl.pc = "idle" /\ \A p \in Pubs : IdleCrawl.writes[p].cols = {}
  BY DEF IdleCrawl, NoWrite
<1>2. \A c \in Crawlers : AtRestIsIdle(c) /\ IsCurrent(c)
  BY <1>1 DEF Init, AtRestIsIdle, IsCurrent
<1>3. SiteIsAhead /\ IngestedIsCurrent /\ \A i \in Ingesters : IsNewest(i)
  BY DEF Init, SiteIsAhead, IngestedIsCurrent, IsNewest, NoRow, AtRest
<1> QED
  BY <1>2, <1>3 DEF CurrentInv

\* Who runs, runs alone.
LEMMA AloneFacts ==
    ASSUME OneAtATime
    PROVE  /\ OneCrawlAtATime
           /\ \A c \in Crawlers, i \in Ingesters :
                crawl[c].pc = "idle" \/ ing[i].pc = "idle"
           /\ \A i, j \in Ingesters : i = j \/ ing[i].pc = "idle" \/ ing[j].pc = "idle"
<1>1. /\ \A c \in Crawlers : c \in Procs /\ (crawl[c].pc # "idle" => Running(c))
      /\ \A i \in Ingesters : i \in Procs /\ (ing[i].pc # "idle" => Running(i))
  BY DEF Procs, Running
<1>2. \A c \in Crawlers, i \in Ingesters : c # i
  BY ProcAssumption
<1> QED
  BY <1>1, <1>2 DEF OneAtATime, OneCrawlAtATime

LEMMA CommittedCrawlIsCurrent ==
    ASSUME IInv, CurrentInv, OneAtATime, NEW c \in Crawlers, CommitCrawl(c)
    PROVE  CurrentInv'
<1>0. /\ crawl[c].pc = "commit" /\ UNCHANGED <<live, cache, chunks, ing>>
      /\ SiteIsAhead /\ IsCurrent(c) /\ IngestedIsCurrent
      /\ \A d \in Crawlers : AtRestIsIdle(d)
  BY DEF CommitCrawl, CurrentInv
<1>1. ASSUME NEW p \in Pubs
      PROVE  /\ reg'[p].hash <= live[p]
             /\ reg'[p].status = "ingested" => IndexedVersion(p) >= reg'[p].hash
  <2> DEFINE w == crawl[c].writes[p]
  <2>1. reg'[p] = Apply(reg[p], w)
    BY DEF CommitCrawl
  <2>2. "hash" \in w.cols =>
          w.row.hash <= live[p] /\ ("status" \in w.cols \/ reg[p].status # "ingested")
    BY <1>0 DEF IsCurrent
  <2>3. "status" \in w.cols => w.row.status # "ingested"
    BY DEF IInv, CrawlInv
  <2>4. /\ reg[p].hash <= live[p]
        /\ reg[p].status = "ingested" => IndexedVersion(p) >= reg[p].hash
    BY <1>0 DEF SiteIsAhead, IngestedIsCurrent
  <2> HIDE DEF w
  <2> QED
    BY <2>1, <2>2, <2>3, <2>4 DEF Apply
<1>2. SiteIsAhead'
  BY <1>0, <1>1 DEF SiteIsAhead
<1>3. IngestedIsCurrent'
  <2>1. \A p \in Pubs : IndexedVersion(p)' = IndexedVersion(p)
    BY <1>0 DEF IndexedVersion
  <2> QED
    BY <1>1, <2>1 DEF IngestedIsCurrent
<1>4. \A d \in Crawlers : crawl'[d] = IdleCrawl
  BY <1>0, AloneFacts, LastCrawlEnds
<1>5. /\ IdleCrawl.pc = "idle"
      /\ \A p \in Pubs : IdleCrawl.writes[p].cols = {}
  BY DEF IdleCrawl, NoWrite
<1>6. \A d \in Crawlers : AtRestIsIdle(d)' /\ IsCurrent(d)'
  BY <1>4, <1>5 DEF AtRestIsIdle, IsCurrent
<1>7. \A i \in Ingesters : IsNewest(i)'
  BY <1>0, AloneFacts DEF IsNewest
<1> QED
  BY <1>2, <1>3, <1>6, <1>7 DEF CurrentInv

\* A page that is fetched comes from the site or from the cache.
LEMMA FetchedBySite ==
    ASSUME IInv, SiteIsAhead, NEW c \in Crawlers, CrawlFetch(c)
    PROVE  /\ crawl'[c].ver <= live[crawl'[c].pub]
           /\ \A p \in Pubs : cache'[p] <= live[p]
<1>1. PICK p \in crawl[c].todo : \E ver \in {cache[p], live[p]} :
        /\ cache' = [cache EXCEPT ![p] = ver]
        /\ crawl' = [crawl EXCEPT ![c] =
             [@ EXCEPT !.pc = "load", !.pub = p, !.ver = ver]]
  BY DEF CrawlFetch
<1>2. /\ p \in Pubs /\ live \in [Pubs -> Nat] /\ cache \in [Pubs -> Nat]
      /\ crawl[c] \in CrawlState
  BY MaxVersionAssumption DEF IInv, TypeOK, CrawlState, Versions
<1>3. PICK ver \in {cache[p], live[p]} :
        /\ cache' = [cache EXCEPT ![p] = ver]
        /\ crawl' = [crawl EXCEPT ![c] =
             [@ EXCEPT !.pc = "load", !.pub = p, !.ver = ver]]
  BY <1>1
<1>4. ver <= live[p]
  BY <1>2 DEF SiteIsAhead
<1>5. crawl'[c].ver = ver /\ crawl'[c].pub = p
  BY <1>2, <1>3 DEF IInv, TypeOK, CrawlState
<1> QED
  BY <1>2, <1>3, <1>4, <1>5 DEF SiteIsAhead

LEMMA CrawlStaysCurrent ==
    ASSUME IInv, CurrentInv, NEW c \in Crawlers, CrawlGoes(c), UNCHANGED <<reg, live>>
    PROVE  AtRestIsIdle(c)' /\ IsCurrent(c)'
<1>0. IsCurrent(c) /\ SiteIsAhead /\ crawl[c].writes \in [Pubs -> Write]
  BY DEF CurrentInv, IInv, TypeOK, CrawlState
<1>1. AtRestIsIdle(c)'
  BY DEF CrawlGoes, AtRestIsIdle
<1>2. ASSUME crawl'[c].pc \notin {"load", "flush"},
             \A p \in Pubs : crawl'[c].writes[p].cols = {}
      PROVE  IsCurrent(c)'
  BY <1>2 DEF IsCurrent
<1>3. CASE crawl'[c] = IdleCrawl
  <2>1. /\ IdleCrawl.pc = "idle"
        /\ \A p \in Pubs : IdleCrawl.writes[p].cols = {}
    BY DEF IdleCrawl, NoWrite
  <2> QED
    BY <1>1, <1>2, <1>3, <2>1
<1>4. CASE crawl'[c].writes = [p \in Pubs |-> NoWrite] /\ crawl'[c].pc \in {"fetch", "commit"}
  <2>1. NoWrite.cols = {}
    BY DEF NoWrite
  <2> QED
    BY <1>1, <1>2, <1>4, <2>1
<1>5. CASE CrawlFetch(c) /\ crawl'[c].writes = crawl[c].writes /\ crawl'[c].pc = "load"
  BY <1>0, <1>1, <1>5, FetchedBySite DEF IsCurrent
<1>6. CASE /\ crawl'[c].writes = crawl[c].writes /\ crawl'[c].pc = "flush"
           /\ crawl[c].pc = "load" /\ crawl[c].pub \in Pubs
           /\ crawl'[c].pub = crawl[c].pub /\ crawl'[c].ver = crawl[c].ver
           /\ crawl'[c].loaded = reg[crawl[c].pub]
  BY <1>0, <1>1, <1>6 DEF IsCurrent
<1>7. ASSUME crawl[c].pc = "flush", crawl'[c].pc \in {"fetch", "commit"},
             crawl[c].pub \in Pubs, crawl[c].ver \in Versions, crawl[c].loaded \in Row,
             NEW refs \in SUBSET Models,
             crawl'[c].writes = [crawl[c].writes EXCEPT ![crawl[c].pub] =
                                   Upsert(crawl[c].loaded, crawl[c].ver, refs)]
      PROVE  IsCurrent(c)'
  <2> DEFINE q == crawl[c].pub
             w == Upsert(crawl[c].loaded, crawl[c].ver, refs)
  <2>1. /\ w.row.hash = crawl[c].ver
        /\ "hash" \in w.cols => "status" \in w.cols \/ crawl[c].loaded.status = "stale"
    BY <1>7, UpsertSends
  <2>2. crawl'[c].writes = [crawl[c].writes EXCEPT ![q] = w]
    BY <1>7
  <2> HIDE DEF w
  <2>3. /\ w.row.hash <= live[q]
        /\ "hash" \in w.cols => "status" \in w.cols \/ reg[q].status # "ingested"
    BY <1>0, <1>7, <2>1 DEF IsCurrent
  <2>4. ASSUME NEW p \in Pubs, "hash" \in crawl'[c].writes[p].cols
        PROVE  /\ crawl'[c].writes[p].row.hash <= live'[p]
               /\ "status" \in crawl'[c].writes[p].cols \/ reg'[p].status # "ingested"
    <3>1. CASE p = q
      BY <1>0, <2>2, <2>3, <2>4, <3>1
    <3>2. CASE p # q
      <4>1. crawl'[c].writes[p] = crawl[c].writes[p]
        BY <1>0, <2>2, <3>2
      <4> QED
        BY <1>0, <2>4, <4>1 DEF IsCurrent
    <3> QED
      BY <3>1, <3>2
  <2>5. crawl'[c].pc \notin {"load", "flush"}
    BY <1>7
  <2> QED
    BY <2>4, <2>5 DEF IsCurrent
<1> QED
  BY <1>1, <1>3, <1>4, <1>5, <1>6, <1>7 DEF CrawlGoes

\* A step of a crawl that commits nothing.
LEMMA WorkingCrawlIsCurrent ==
    ASSUME IInv, IndexInv, CurrentInv, NEW c \in Crawlers, ~CommitCrawl(c),
           StartCrawl(c) \/ CrawlStep(c) \/ AbortCrawl(c) \/ RollBackCrawl(c)
    PROVE  CurrentInv'
<1>1. /\ UNCHANGED <<live, docs, chunks, ing, reg>>
      /\ \A d \in Crawlers \ {c} : crawl'[d] = crawl[d]
  BY CrawlWorks
<1>2. SiteIsAhead /\ IngestedIsCurrent
  BY DEF CurrentInv
<1>3. SiteIsAhead'
  <2>1. CASE CrawlFetch(c)
    BY <1>1, <1>2, <2>1, FetchedBySite DEF SiteIsAhead
  <2>2. CASE ~CrawlFetch(c)
    <3>1. UNCHANGED cache
      BY <2>2 DEF StartCrawl, CrawlStep, AbortCrawl, CrawlLoad, CrawlFlush,
         CommitCrawl, CrawlCollides, RollBackCrawl
    <3> QED
      BY <1>1, <1>2, <3>1 DEF SiteIsAhead
  <2> QED
    BY <2>1, <2>2
<1>4. IngestedIsCurrent'
  <2>1. \A p \in Pubs : IndexedVersion(p)' = IndexedVersion(p)
    BY <1>1 DEF IndexedVersion
  <2> QED
    BY <1>1, <1>2, <2>1 DEF IngestedIsCurrent
<1>5. AtRestIsIdle(c)' /\ IsCurrent(c)'
  BY <1>1, CrawlGoesOn, CrawlStaysCurrent
<1>6. ASSUME NEW d \in Crawlers \ {c} PROVE AtRestIsIdle(d)' /\ IsCurrent(d)'
  <2>1. AtRestIsIdle(d) /\ IsCurrent(d)
    BY DEF CurrentInv
  <2> QED
    BY <1>1, <2>1 DEF AtRestIsIdle, IsCurrent
<1>7. \A i \in Ingesters : IsNewest(i)'
  BY <1>1 DEF CurrentInv, IsNewest
<1> QED
  BY <1>3, <1>4, <1>5, <1>6, <1>7 DEF CurrentInv

\* An ingest's page comes from the site; what it works on stays what it is.
IngestGoes(i) ==
    \/ ing'[i].pc \in {"idle", "fetch"}
    \/ ing'[i].pub \in Pubs /\ ing'[i].ver = live[ing'[i].pub]
    \/ /\ ing[i].pc \notin {"idle", "fetch"}
       /\ ing'[i].pub = ing[i].pub /\ ing'[i].ver = ing[i].ver

LEMMA IngestGoesOn ==
    ASSUME TypeOK, NEW i \in Ingesters,
           StartIngest(i) \/ IngestStep(i) \/ AbortIngest(i) \/ RollBackIngest(i)
    PROVE  IngestGoes(i)
<1>0. ing[i] \in IngestState /\ ing \in [Ingesters -> IngestState]
  BY DEF TypeOK
<1>1. CASE IngestFetch(i)
  <2>1. PICK p \in ing[i].todo :
          ing' = [ing EXCEPT ![i] =
               [@ EXCEPT !.pc = "lookup", !.pub = p,
                         !.todo = ing[i].todo \ {p}, !.ver = live[p]]]
    BY <1>1 DEF IngestFetch
  <2>2. p \in Pubs /\ ing'[i].pub = p /\ ing'[i].ver = live[p]
    BY <1>0, <2>1 DEF IngestState
  <2> QED
    BY <2>2 DEF IngestGoes
<1>2. CASE IngestFails(i)
  <2>1. PICK p \in ing[i].todo : ing' = [ing EXCEPT ![i] = NextTarget(ing[i].todo \ {p})]
    BY <1>2 DEF IngestFails
  <2>2. ing'[i].pc \in {"idle", "fetch"}
    BY <1>0, <2>1 DEF NextTarget, AtRest
  <2> QED
    BY <2>2 DEF IngestGoes
<1>3. CASE \/ StartIngest(i) \/ CommitIngest(i) \/ RollBackIngest(i)
           \/ AbortIngest(i) \/ IngestCollides(i)
  <2>1. ing'[i].pc \in {"idle", "fetch"}
    BY <1>0, <1>3 DEF StartIngest, CommitIngest, RollBackIngest, AbortIngest,
       IngestCollides, NextTarget, AtRest
  <2> QED
    BY <2>1 DEF IngestGoes
<1>4. CASE \/ LookUpDocument(i) \/ CreateDocument(i) \/ StartDelete(i)
           \/ FinishDelete(i) \/ InsertChunk(i) \/ LoadStatus(i) \/ FlushStatus(i)
  <2>1. /\ ing[i].pc \notin {"idle", "fetch"}
        /\ ing'[i].pub = ing[i].pub /\ ing'[i].ver = ing[i].ver
    <3>1. CASE LookUpDocument(i)
      BY <1>0, <3>1 DEF LookUpDocument, IngestState
    <3>2. CASE CreateDocument(i)
      BY <1>0, <3>2 DEF CreateDocument, IngestState
    <3>3. CASE StartDelete(i)
      BY <1>0, <3>3 DEF StartDelete, IngestState
    <3>4. CASE FinishDelete(i)
      BY <1>0, <3>4 DEF FinishDelete, IngestState
    <3>5. CASE InsertChunk(i)
      BY <1>0, <3>5 DEF InsertChunk, IngestState
    <3>6. CASE LoadStatus(i)
      BY <1>0, <3>6 DEF LoadStatus, IngestState
    <3>7. ASSUME NEW w, ing[i].pc = "flush",
                 ing' = [ing EXCEPT ![i] = [@ EXCEPT !.pc = "commit", !.write = w]]
          PROVE  /\ ing[i].pc \notin {"idle", "fetch"}
                 /\ ing'[i].pub = ing[i].pub /\ ing'[i].ver = ing[i].ver
      BY <1>0, <3>7 DEF IngestState
    <3> QED
      BY <1>4, <3>1, <3>2, <3>3, <3>4, <3>5, <3>6, <3>7 DEF FlushStatus
  <2> QED
    BY <2>1 DEF IngestGoes
<1> QED
  BY <1>1, <1>2, <1>3, <1>4 DEF IngestStep

LEMMA IngestStaysNewest ==
    ASSUME IInv, CurrentInv, NEW i \in Ingesters, UNCHANGED <<reg, live>>,
           StartIngest(i) \/ IngestStep(i) \/ AbortIngest(i) \/ RollBackIngest(i)
    PROVE  IsNewest(i)' /\ SiteIsAhead'
<1>0. /\ SiteIsAhead /\ IsNewest(i) /\ ing[i] \in IngestState
      /\ live \in [Pubs -> Nat] /\ cache \in [Pubs -> 0 .. MaxVersion]
  BY MaxVersionAssumption DEF CurrentInv, IInv, TypeOK, Versions
<1>1. IngestGoes(i)
  BY IngestGoesOn DEF IInv
<1>2. IsNewest(i)'
  BY <1>0, <1>1 DEF IngestGoes, IsNewest, SiteIsAhead
<1>3. CASE IngestFetch(i) \/ IngestFails(i)
  <2>1. PICK p \in ing[i].todo : cache' \in {cache, [cache EXCEPT ![p] = live[p]]}
    BY <1>3 DEF IngestFetch, IngestFails
  <2>2. p \in Pubs
    BY <1>0, <2>1 DEF IngestState
  <2> QED
    BY <1>0, <1>2, <2>1, <2>2 DEF SiteIsAhead
<1>4. CASE ~IngestFetch(i) /\ ~IngestFails(i)
  <2>1. UNCHANGED cache
    BY <1>4 DEF StartIngest, IngestStep, AbortIngest, RollBackIngest, LookUpDocument,
       CreateDocument, StartDelete, FinishDelete, InsertChunk, LoadStatus, FlushStatus,
       CommitIngest, IngestCollides
  <2> QED
    BY <1>0, <1>2, <2>1 DEF SiteIsAhead
<1> QED
  BY <1>3, <1>4

\* A step of an ingest that commits nothing.
LEMMA WorkingIngestIsCurrent ==
    ASSUME IInv, IndexInv, CurrentInv, NEW i \in Ingesters, ~CommitIngest(i),
           StartIngest(i) \/ IngestStep(i) \/ AbortIngest(i) \/ RollBackIngest(i)
    PROVE  CurrentInv'
<1>1. /\ UNCHANGED <<live, reg, chunks, crawl>>
      /\ \A j \in Ingesters \ {i} : ing'[j] = ing[j]
  BY IngestWorks
<1>2. IsNewest(i)' /\ SiteIsAhead'
  BY <1>1, IngestStaysNewest
<1>3. \A j \in Ingesters : IsNewest(j)'
  BY <1>1, <1>2 DEF CurrentInv, IsNewest
<1>4. \A c \in Crawlers : AtRestIsIdle(c)' /\ IsCurrent(c)'
  BY <1>1 DEF CurrentInv, AtRestIsIdle, IsCurrent
<1>5. IngestedIsCurrent'
  <2>1. \A p \in Pubs : IndexedVersion(p)' = IndexedVersion(p)
    BY <1>1 DEF IndexedVersion
  <2> QED
    BY <1>1, <2>1 DEF CurrentInv, IngestedIsCurrent
<1> QED
  BY <1>2, <1>3, <1>4, <1>5 DEF CurrentInv

\* The text that is committed is as new as the hash in the row.
LEMMA CommittedIngestIsCurrent ==
    ASSUME IInv, IndexInv, CurrentInv, OneAtATime, NEW i \in Ingesters, CommitIngest(i)
    PROVE  CurrentInv'
<1>0. /\ ing[i].pc = "commit" /\ UNCHANGED <<live, cache, crawl>>
      /\ SiteIsAhead /\ IsNewest(i) /\ IngestedIsCurrent
  BY DEF CommitIngest, CurrentInv
<1>1. \A p \in Pubs : reg'[p].hash = reg[p].hash
  BY IngestLeavesEvidence DEF IngestStep
<1>2. SiteIsAhead'
  BY <1>0, <1>1 DEF SiteIsAhead
<1>3. IngestedIsCurrent'
  <2>0. PICK p, v : p = ing[i].pub /\ v = ing[i].ver
    OBVIOUS
  <2>1. /\ IndexedVersion(p)' = v
        /\ \A q \in Pubs \ {p} : IndexedVersion(q)' = IndexedVersion(q)
        /\ p \in Pubs /\ v \in Versions
    BY <2>0, IndexedIsCommitted
  <2>2. \A q \in Pubs \ {p} : reg'[q] = reg[q]
    BY <2>0, IngestCommits
  <2>3. v >= reg'[p].hash
    <3>1. reg[p].hash \in Nat /\ v \in Nat
      BY <2>1, MaxVersionAssumption DEF IInv, TypeOK, Row, Versions
    <3>2. reg[p].hash <= v
      BY <1>0, <2>0 DEF IsNewest
    <3> QED
      BY <1>1, <2>1, <3>1, <3>2
  <2> QED
    BY <1>0, <2>1, <2>2, <2>3 DEF IngestedIsCurrent
<1>4. \A c \in Crawlers : AtRestIsIdle(c)' /\ IsCurrent(c)'
  <2>1. \A c \in Crawlers : crawl[c] = IdleCrawl
    BY <1>0, AloneFacts DEF CurrentInv, AtRestIsIdle
  <2>2. /\ IdleCrawl.pc = "idle"
        /\ \A p \in Pubs : IdleCrawl.writes[p].cols = {}
    BY DEF IdleCrawl, NoWrite
  <2> QED
    BY <1>0, <2>1, <2>2 DEF AtRestIsIdle, IsCurrent
<1>5. \A j \in Ingesters : IsNewest(j)'
  <2>1. ing'[i].pc \in {"idle", "fetch"}
    BY DEF CommitIngest, NextTarget, AtRest
  <2>2. \A j \in Ingesters \ {i} : ing'[j].pc = "idle"
    BY <1>0, AloneFacts, OtherIngestsStand DEF IngestStep
  <2> QED
    BY <2>1, <2>2 DEF IsNewest
<1> QED
  BY <1>2, <1>3, <1>4, <1>5 DEF CurrentInv

LEMMA NextCurrentInv ==
    ASSUME IInv, IndexInv, CurrentInv, OneAtATime, [Next]_vars
    PROVE  CurrentInv'
<1>1. ASSUME NEW c \in Crawlers,
             StartCrawl(c) \/ CrawlStep(c) \/ AbortCrawl(c) \/ RollBackCrawl(c)
      PROVE  CurrentInv'
  BY <1>1, CommittedCrawlIsCurrent, WorkingCrawlIsCurrent
<1>2. ASSUME NEW i \in Ingesters,
             StartIngest(i) \/ IngestStep(i) \/ AbortIngest(i) \/ RollBackIngest(i)
      PROVE  CurrentInv'
  BY <1>2, CommittedIngestIsCurrent, WorkingIngestIsCurrent
<1>3. ASSUME NEW p \in Pubs, Publish(p) PROVE CurrentInv'
  <2>1. /\ UNCHANGED <<cache, reg, chunks, crawl, ing>>
        /\ live' = [live EXCEPT ![p] = live[p] + 1]
        /\ live \in [Pubs -> Nat] /\ cache \in [Pubs -> Nat]
        /\ reg \in [Pubs -> Row]
    BY <1>3, MaxVersionAssumption DEF Publish, IInv, TypeOK, Versions
  <2>2. \A q \in Pubs : \A n \in Nat : n <= live[q] => n <= live'[q]
    BY <2>1
  <2>3. \A q \in Pubs : reg[q].hash \in Nat /\ cache[q] \in Nat
    BY <2>1, MaxVersionAssumption DEF Row
  <2>4. SiteIsAhead'
    BY <2>1, <2>2, <2>3 DEF CurrentInv, SiteIsAhead
  <2>5. ASSUME NEW c \in Crawlers PROVE AtRestIsIdle(c)' /\ IsCurrent(c)'
    <3>1. /\ AtRestIsIdle(c) /\ IsCurrent(c)
          /\ crawl[c].pc \in {"load", "flush"} =>
               crawl[c].pub \in Pubs /\ crawl[c].ver \in Nat
          /\ \A q \in Pubs : crawl[c].writes[q].row.hash \in Nat
      BY MaxVersionAssumption
      DEF CurrentInv, IInv, CrawlAtWork, TypeOK, CrawlState, Write, Row, Versions
    <3> QED
      BY <2>1, <2>2, <3>1 DEF AtRestIsIdle, IsCurrent
  <2>6. \A i \in Ingesters : IsNewest(i)'
    BY <2>1 DEF CurrentInv, IsNewest
  <2>7. IngestedIsCurrent'
    <3>1. \A q \in Pubs : IndexedVersion(q)' = IndexedVersion(q)
      BY <2>1 DEF IndexedVersion
    <3> QED
      BY <2>1, <3>1 DEF CurrentInv, IngestedIsCurrent
  <2> QED
    BY <2>4, <2>5, <2>6, <2>7 DEF CurrentInv
<1>4. CASE UNCHANGED vars
  <2>1. \A q \in Pubs : IndexedVersion(q)' = IndexedVersion(q)
    BY <1>4 DEF IndexedVersion, vars
  <2> QED
    BY <1>4, <2>1
    DEF vars, CurrentInv, SiteIsAhead, AtRestIsIdle, IsCurrent, IsNewest, IngestedIsCurrent
<1> QED
  BY <1>1, <1>2, <1>3, <1>4 DEF Next, BreakDeadlock

\* As long as no command is started while another one runs, a publication that
\* says 'ingested' always has a text at least as new as the content discovery
\* recorded: crawls from a stale cache, failures and kills included.
THEOREM NothingLeftBehind == ASSUME Exclusive PROVE Spec => []IngestedIsCurrent
<1>1. Spec => []OneAtATime
  BY CommandsTakeTurns
<1>2. IInv /\ IndexInv /\ CurrentInv /\ OneAtATime /\ [Next]_vars => CurrentInv'
  BY NextCurrentInv
<1>3. IInv /\ IInv' /\ IndexInv /\ [Next]_vars => IndexInv'
  BY NextIndexInv
<1>4. Spec => []IInv
  BY Invariance
<1>5. CurrentInv => IngestedIsCurrent
  BY DEF CurrentInv
<1> QED
  BY <1>1, <1>2, <1>3, <1>4, <1>5, InitIndexInv, InitCurrentInv, PTL DEF Spec
=============================================================================

# Verification of parts-lookup

TLA+ models of parts-lookup, the service that finds torque values and assembly
facts in SRAM's PDF manuals and HTML publications: what `parts-lookup-discover`
and `parts-lookup-ingest` do to the database, the bucket and the page cache, and
what `POST /v1/query` does with them. TLC checks small instances of the models,
TLAPS proves theorems about them for all instances. Paths below are relative to
the repository; line numbers are in `PROJECT.json`, which maps every definition.

## The system

| part | state it keeps | operations | talks to |
|---|---|---|---|
| Discovery: `discovery/cli.py`, `crawler.py`, `registry.py` | table `publications` (status, content_hash, referenced_by_models) | one crawl = one transaction: model pages, then one `upsert` per publication, commit at the end; `list_all`, `set_status` | site through the fetcher, HTML ingestion through the registry |
| Fetcher and probes: `discovery/fetcher.py`, `sitemap.py`, `model_page.py`, `publication_probe.py` | cache files without an age | `get`: robots, pacing, cache, retry | site |
| HTML ingestion: `ingestion/html_pipeline.py`, `cli.py` `_run_ingest_html`, `indexing/repository.py` | tables `documents`, `chunks` | list targets once; per publication fetch, parse, embed, upsert document, delete chunks, insert chunks, set status, commit | registry, fetcher, embedder |
| HTML parser: `ingestion/html_parser.py` | none | the JSON of `<script id="manual-data">` to modules, blocks, ordinals | |
| PDF ingestion: `ingestion/pipeline.py`, `cli.py`, `assets/r2_client.py` | `documents`, `chunks`, objects in the bucket | per file hash, dedup, upload, parse, upsert, embed, render, store images, insert chunks, commit | bucket, embedder, docling, pdfium |
| Embedder: `retrieval/embedder.py` | none | batches by count and by estimated tokens | Voyage |
| Search channels: `retrieval/keyword.py`, `vector.py` | none (SQL) | one statement each | database |
| Ranking: `retrieval/hybrid.py` | none | fusion, title and product rerank, leading document, neighbours, budget | database |
| Product matching: `retrieval/product_match.py`, `scripts/backfill_product_family.py` | columns `product_family`, `brand` of `documents` | facets of titles, scopes of questions, `scope_matches`; the backfill | database |
| Query route: `api/routes/query.py` | a connection per request | retrieve, gather sources, extract, resolve links | ranking, bucket, extractor |
| Extractor: `extraction/claude_client.py` | semaphore, readiness flag | `extract`, classification of errors, parsing of replies | Anthropic |
| Migrations, start script: `infra/migrations`, `scripts` | the schema | upgrade, downgrade, backfill | database |
| Configuration, application start, logging, Sentry, prompts, schemas, evaluation | none that matters here | | |

Components interact in three ways. Processes (crawls, ingests, API) share one
PostgreSQL database at READ COMMITTED and never talk to each other: row locks,
unique keys and commit order are all there is between them. The bucket and the
page cache are shared too, and are *not* part of any transaction. Inside the API
process, requests share the connection pool, the extractor's semaphore and its
readiness flag.

What is hard to get right, and to test:

- crawls hold one transaction for as long as they crawl; ingests load rows and
  write them back later (lost updates of `status` and of the evidence);
- two ingests of one publication, or of one PDF, interleave statement by
  statement; dedup and upsert look before they insert;
- objects are stored before the rows that refer to them; a crash is possible
  between any two awaits; a document that is there is never ingested again;
- the PDF is opened four times by path;
- a request holds a connection while it queues for the semaphore; errors leave
  the route on many paths; readiness is only refreshed by a call;
- a command killed while it writes a cache file leaves the beginning of a page for
  the next, and a cache file has no age;
- what is sent to Voyage is cut by two limits, and the vectors must stay in order;
- the facet of a document is derived in three places, from a hash-ordered set, and
  stored by writers that only send the columns that changed;
- three stable sorts by different keys of the same raw score follow each other,
  and rows may be replaced between the statements of one search.

What makes each part correct:

- discovery: evidence is lost to nothing but an overlap of two crawls, a changed
  content becomes `stale`, and only a newer text clears that;
- HTML ingestion: a document holds all chunks of one content, and `ingested`
  means it is there;
- PDF ingestion: a document that is there can be found and shown, what is under
  a hash is that content (which the code does not keep, see Findings), exit status 0
  means indexed, every batch ends;
- query: no invented citation, each class of failure answered as the contract of the
  repository's README (`:154-157`) says, nothing leaks, every request
  is answered, readiness recovers;
- texts: what is indexed was on the site when the ingest began, a crawl never takes
  an older content from the cache than was indexed, every text has its vector;
- parser: what Claude reads is a whole module of one content, labelled by its title;
- product matching: the stored facet is what the title says, the boost and the
  gate agree, the right manual is never turned away;
- ranking: no duplicate or foreign candidate, the leading PDF is shown, an order
  once established is kept as the comments promise.

## Modules

| module | models | state and actions |
|---|---|---|
| `Registry` | `registry.py` `upsert`, `set_status` as functions of the *loaded* row: the columns SQLAlchemy finds dirty and their new values | operators only |
| `HtmlIngestion` | crawls and HTML ingests of any number of processes against one database and cache, at statement granularity | committed rows (`reg`, `docs`, `chunks`), locks, cache, site; uncommitted work lives in the process (`crawl[c]`, `ing[i]`); a history, `unseen[c]`, collects the evidence that other crawls commit to a row while `c` is between reading and writing it. One action per statement or await: `CrawlFetch`, `CrawlLoad`, `CrawlFlush`, `CommitCrawl`; `IngestFetch`, `LookUpDocument`, `CreateDocument`, `StartDelete`, `FinishDelete`, `InsertChunk`, `LoadStatus`, `FlushStatus`, `CommitIngest`; failures `AbortCrawl`, `AbortIngest`, `IngestFails`, `*Collides`, `BreakDeadlock` |
| `PublicationIndex` | what both promise to a reader: whole texts, `absent -> discovered -> ingested <-> stale` | abstract specification of `HtmlIngestion` |
| `EmbedBatches` | `embed_documents` over any list of texts | `Begin`, `AddText`, `FlushAndAdd`, `FlushLast`, `SendFails`, `Return`: one action per turn of the loop; state `texts`, `batch`, `tokens`, `sent`, `vectors` |
| `PublicationText` | one page on its way from the site over the cache file, the parser and the embedder to the transaction of `HtmlIngestion`; commands run one after the other and may be killed anywhere | `live`, `file`, `job`, `indexed` (history); `Fetcher.get` with robots.txt, cache hit, refresh, download, opening and writing of the file; extends `EmbedBatches` |
| `Listing` | what `sorted()`, `ORDER BY` and loops that skip do to a list: its elements in an order, what it has at some of its places | operators only, used by `Ranking`, `HtmlParser` and `SearchDuringIngest` |
| `HtmlParser` | `html_parser.py` and `fetch_module_text`: the JSON of a page to chunks, and chunks back to a module | operators only |
| `SearchDuringIngest` | one question over the HTML manuals, statement by statement, beside crawls and ingests; composes `HtmlIngestion` and `HtmlParser` | `ask`: two channels, loading of rows, reading of modules; every commit marks the rows that are gone |
| `ProductMatch` | the whole of `product_match.py`, the boost's delta and the gate's test of `IsOutOfCorpus` | operators only; what depends on the hash order of a set is a set of outcomes |
| `ProductFacets` | the stored facet of documents under ingests and the backfill; composes `ProductMatch` | `row`, the two transactions, `settled` (history); `SelectDocument`, `FlushDocument`, `CommitIngest`, `ListDocuments`, `GetDocument`, `SetProductFacet`, `CommitBackfill` and their aborts |
| `PdfIngestion` | `ingest` and `ingest-dir` of any number of processes against one database and bucket | committed `title`, `chunks`; bucket `pdf`, `png`; file contents; per worker the local variables of `ingest_pdf` and the batch. One action per await: `OpenFile` (hash and dedup), `UploadPdf`, `Parse`, `SelectDocument`, `CreateDocument`, `RetitleDocument`, `Embed`, `SkipPage`, `UploadPage`, `InsertPage`, `LastPage`, `Commit`; `FileFails`, `Collides`, `Kill`, `Replace` |
| `PdfLibrary` | a PDF appears as a whole and loses no page | abstract specification of `PdfIngestion` |
| `Extraction` | `_classify_upstream_error` over the SDK's class hierarchy; `_parse_response` with the out-of-corpus gate | operators only |
| `QueryService` | the requests of one API process, upstream outages, the pool, the semaphore, the readiness flag | `req[r].pc` follows `query()`; every `return`, `raise` and uncaught exception is an action that ends the request |
| `Ranking` | `hybrid_search` after the channels answered | one action per function: `Fuse`, `RerankByTitle`, `RerankByProduct`, `PickLeader`, `Assemble` |
| `MC*` | values of the constants for TLC | |
| `*Proofs` | theorems, see below; `ListingProofs` has the lemmas about `Listing` | |

PostgreSQL, the bucket, Voyage, Anthropic, docling and pdfium are external. They
are modelled from how the code uses them: a statement sees what is committed when
it starts, a written row is locked until its transaction ends, a taken unique key
raises IntegrityError, and a DELETE that waited does not see the rows that were
inserted while it did (`missed` in `HtmlIngestion`). Rows that are not committed
are kept in the worker that wrote them; nobody else can see them, and who holds a
key is read off the workers.

Abstractions that a reader should know:

- A content is a number or model value. The number of chunks of an HTML content,
  and the sets of pages a PDF parse may return, are constants, including the
  content without chunks and parses of one PDF that differ.
- In `HtmlIngestion` the title and the facet of a document do not change between
  contents, and a PDF's title is its path; new titles and their facets are in
  `ProductFacets`.
- A text is a sequence of words or tokens. `HtmlParser` starts from stripped
  fragments: tags, entities and the alternative JSON shapes of a content are gone.
  `ProductMatch` keeps whether blanks or hyphens stand between the tokens; its
  `HasPhrase` looks for a phrase of whole tokens where `product_match.py:217` looks for
  a substring, so that a brand's phrase inside a longer word is left out.
  `EmbedBatches` keeps the length of a text only.
- `PublicationText` has one page and runs commands in turn; `HtmlIngestion` has what
  concurrent ones do to the database. A cache file is absent, whole, or cut: `early`,
  inside the manual data or before it, or `late`, after its closing tag. Only the first
  kind does not parse: `publication_probe.py:12` matches up to `</script>`, so a page cut
  later gives the whole manual data. Model pages and sitemaps are not modelled: their
  regular expressions take whatever links there are, see Findings.
- `ProductFacets` has one ingest and one backfill at a time; the backfill's order of
  documents is left open. Its dry run writes nothing and is left out. A ghost,
  `settled`, tells what last wrote a document's facet.
- `SearchDuringIngest` has commands in turn (`Exclusive`): two HTML ingests at once
  are `html_two_ingests`. A channel returns any rows up to a bound.
- `Ranking` counts scores in units of 10^-7 and truncates, where the code has
  floats; `score` is the raw score that each hit carries from the fusion on. The gaps that decide
  an order in the checked instances are larger than the truncation. Texts enter as what the reranks find in them: the number of
  title tokens shared with the question, match / no facet / other product, and
  whether a chunk has a torque value next to a token of the question.
- Retries inside the SDKs are part of a call that succeeds or fails. Stub mode
  makes no calls and is left out.
- Steps of a request that touch only the request (resolving links, building
  prompt blocks) are one action.

## Runs

Symmetry is declared only where a run has no liveness property. The bounds are
CONSTANTS in the `.cfg` files; the models have no other bound.

| run | question | instance, and why it is enough |
|---|---|---|
| `html_two_ingests` | Does a reader ever see a partial or mixed document, or `ingested` without one? Who is in a cycle of lock waits? Is all of it a behaviour of `PublicationIndex`? | one publication, two ingests, one crawl, three contents of 2, 1 and 2 chunks: enough for a delete that misses rows, a shorter text over a longer one, a collision on an ordinal that exists and on one that does not |
| `html_crawls_end` | Does every crawl end, deadlocks included? Is evidence lost to anything but two crawls that overlap? | two crawls over two publications in both orders, so that the deadlock happens and is broken; three models, of which each crawl meets its own: the first to commit adds one to a row that the other has read, and the other's commit drops it. A loss takes three models: a crawl that adds none to what it read does not send the column |
| `search_beside_ingest` | Is what Claude reads a whole module of one content, labelled by its title, and does a question find nothing only for a reason? Is `ingested` never older than what discovery recorded if commands run one at a time? | two publications, contents of several modules and blocks with tools, captions, repeated lines, a skipped block, a module that disappears, one without a title, one with a new title in the later content; one row per channel, so that both channels, one or none see a document |
| `publication_text` | Is an old page ever indexed, or recorded by a crawl after a newer one was indexed? Is a text lost, doubled or sent beyond a limit? | one page in three contents: texts at, below and above each limit (two texts, three tokens, 11 characters), no text at all, an exact fill and one left over; crawls, refreshing crawls and ingests, each killed at any step, the write of the cache file included, which leaves the page cut in either way |
| `product_facets` | Is a stored facet what the title says? Do boost and gate agree, is the right manual let through, a foreign brand turned away? | a PDF and a publication, seven titles (two brands, brand only, family with and without brand, nothing, the word "guide" as a product and as a genre), six questions (two foreign brands, one by a phrase), an ingest beside a backfill, every document there or not |
| `facet_idempotent` | violated, see Findings | one document, one title with two brands |
| `html_lost_stale` | violated, see Findings | one publication, one crawl, one ingest, two contents |
| `pdf_two_workers` | Does a PDF appear as a whole, with pages that can be shown, and lose none? Does status 0 mean indexed? Does every batch end? | two workers, two files, contents of one and two pages; a parse loses one of two pages, so that two ingests of one document find the same page or different ones; files change while nobody has them in hand, also between two ingests |
| `pdf_replaced` | violated, see Findings | one worker, one file, two contents, overwritten at any moment |
| `query_answers` | Is every citation honest, does each class of failure have its status, `Retry-After` and page? Does a way out of the route leak a slot or a connection? Is every request answered, does `/readyz` recover? | two requests for one slot, one of which Anthropic refuses and which so keeps taking the flag down; no hit, wrong product only, right and wrong, missing image; every form of reply, with torque values and without, indexes 0 to 3 over at most two hits; all upstream states |
| `ranking_candidates` | Are the candidates free of duplicates and strangers, is a leading PDF shown, does a hit that leads by more than the boosts stay ahead? | two documents of four and two chunks, every pair of lists of up to two hits, cuts 1 and 3, budgets 2 and 4, titles with four shared tokens (so that the cap matters), a row that is gone |
| `ranking_title_order` | violated, see Findings | as above, two PDFs |

`PagesCanBeShown` is checked where no file in hand is overwritten; the theorem
`CommittedCanBeShown` has it also where they are.

Deadlock is checked everywhere except in the ranking runs, whose single search
ends. In `Ranking` everything that is enumerated is input; the steps are
deterministic.

**Fairness.** `HtmlIngestion`: a process that runs keeps running (the code sets
timeouts on HTTP and embedding calls), a lock wait is granted in turn
(PostgreSQL queues waiters, hence SF), and PostgreSQL breaks deadlocks (WF).
Starting a command, publishing a page, aborts and kills are not fair.
`PdfIngestion`: the same for the steps of a worker. `QueryService`: SF for the
steps of a request, since the pool and `asyncio.Semaphore` serve waiters in
order. `BusySpec`, the specification of the run, adds for readiness that clients
whose requests Claude takes keep asking, `/readyz` or not (WF on `Arrive`), and that
not each of those requests runs into a fault before the call (SF on `Embed`,
`Connect`, `SearchFinds`, `Gather` and `EnterSlot`, each of which competes with a
fault); failures of Anthropic stay unfair, and the property assumes an upstream
that stays up from some point. `RequestsEnd` needs the fairness of the steps only.
The other runs check safety only.

**Mutants.** Each property of each passing run has a mutant, an operator above
the definition it replaces and marked as such: a plausible slip of the code (a
forgotten DELETE, the status flipped in its own transaction, a slot released on
success only, ...) that breaks the property under the same configuration.

## Findings

Behaviours of the code that contradict what the repository says of it, each
shown by a run that ends in a counterexample:

- `html_lost_stale`: a crawl commits `stale` while an ingest holds the older
  text; `set_status` (`registry.py:124`) writes `ingested` over it, and the change
  is never ingested. With one command at a time `ingested` is never older than what
  discovery recorded: `IngestedIsCurrent` of `search_beside_ingest`.
- `pdf_replaced`: hash, upload, parser and rasterizer each open the path
  (`pipeline.py:56,62,67,126`), so a PDF overwritten while it is ingested leaves another
  PDF's text, images or object under the hash, against `pipeline.py:3`, "a PDF is
  identified by its SHA-256"; dedup keeps them.
- `ranking_title_order`: each sort starts from the raw score and undoes the one
  before, so a question that names a product loses the title rerank.
- `facet_idempotent`: `_detect_brand` returns the first brand it meets in a set of
  strings, whose order changes from process to process. Of a title with two brands
  (the pad identification guide of the tests names SRAM and Avid) a second backfill
  stores another brand, although the script says it derives the same values.

Further divergences that the models contain, without a run of their own:

- Two overlapping crawls lose evidence: `upsert` merges into the list it loaded
  (`registry.py:95`), so the later commit drops the model ids that the other crawl
  committed in between. `test_discovery_registry.py:58` expects the union after two
  upserts, and the discovery design (`:113`) calls the column "which model-page IDs linked
  to it". That evidence only grows is false; `EvidenceLostOnlyToOverlap`, checked in
  `html_crawls_end` where the loss happens and proved for all instances, says which ids
  go, and that nothing else in the system loses any.
- Two ingests of one publication: the loser ends in an IntegrityError
  (`IngestCollides`), which is not the IngestionError that
  `html_pipeline.py:47` promises, and ends its batch.
- A URL that cannot be signed: the IngestionError of `r2_client.py:71` leaves the
  route untranslated (`LinksFail`, `GatherFails`), against `domain/errors.py:7`.
- A PDF hit without an image key ends in 500 (`ImageMissing`), so the
  document-level citation of `query.py:192` is unreachable for it.
- An instance drained on `/readyz` (`README.md:151` suggests it) gets no call, and only
  a call sets the flag again (`claude_client.py:220`): it stays down. `ReadyAgain`
  therefore assumes that clients keep asking.
- A publication re-ingested between two statements of a search loses its rows, which
  get new ids: if all hits are among them the answer is a 404 for a question that
  the index could answer before and after. `NothingOnlyWhenReplaced` states that this
  is the only such case; `html_pipeline.py:5-6` calls a re-ingest safe.
- The title heads a module (`html_parser.py:14-18`) only if it has one: of a module
  without a title the label is its tools or its first block. Text and images of a
  block typed `toolList` are dropped.
- A command killed while it writes a cache file (`fetcher.py:107`) leaves a page that
  is cut. Inside the manual data of a publication, every crawl without `--refresh` fails
  on it until an ingest or a refresh downloads it again. After the manual data it does
  no harm. A model page or a sitemap that is cut is taken for a shorter one without an
  error (`model_page.py:10`, `sitemap.py:7`): crawls miss publications until a refresh.
- A backfill that listed a title before an ingest corrects it stores the facet of the
  old title, or family and brand of different titles, since each transaction writes
  only the columns that differ from what it read (`repository.py:214`). Such documents
  are exempt from `FacetAgrees` until their next ingest or backfill (`settled`
  is "raced").
- `_guide_is_product` (`product_match.py:167-168`, `:205`) says a leading "guide" is
  the brake; the code returns `False`. The last branch of `scope_matches` says
  "otherwise non-blocking" (`:377`) and also returns `False`.
- The tokens "rs-1", "industry-nine" and "wolf-tooth" never match, as the tokenizer
  splits at hyphens. A title of several families has the first of the dictionary,
  whatever else it covers. "level", "domain", "code" and "dart" in a question are
  taken for families, which can make the gate abstain.
- The docstring of migration 0005 says `start.sh` stops at 0004 (`0005:6`);
  `start.sh` upgrades to head.
- The rerank within the leading document moves hits of other documents
  (`hybrid.py:672` says it does not), and its anchor has the best raw score, which
  need not be the page ranked highest (`hybrid.py:613`).

## Proofs

All theorems are about every value of the constants that the named ASSUMEs allow.

`HtmlIngestionProofs` proves, for any number of publications, crawls, ingests,
models and contents:

- `TypeCorrect`: `Spec => []TypeOK`;
- `DocumentsAreWhole`: `Spec => []WholeDocument`;
- `IngestedHasDocument`: `Spec => []IngestedIsIndexed`;
- `Implements`: `Spec => ImplementsIndex`, the refinement of `PublicationIndex`;

and, about commands that meet or do not meet,

- `IngestsDoNotDeadlock`: `Spec => []DeadlocksAreAmongCrawls`;
- `EvidenceIsLostOnlyToOverlap`: `Spec => EvidenceLostOnlyToOverlap`;
- `NothingLeftBehind`: `Spec => []IngestedIsCurrent`, assuming `Exclusive`.

Assumed: the named ASSUMEs of `Registry` and `HtmlIngestion` (crawls and ingests
are different processes, the null values are not among the others, there is at
least one content, chunk counts are numbers). TLC evaluates them in every run.

`WholeDocument` is not inductive: whether a commit leaves a whole document depends
on what the transaction did before. `IInv` adds what an ingest has behind it
(`IngestInv`: it works on a content that parses; the next ordinal tells how many
chunks it inserted; once it inserted one it holds the document's lock and either
removed the rows there were or found none) and that a crawl never writes
`ingested` (`CrawlInv`), which `IngestedIsIndexed` needs. The lock is the heart
of it: while an ingest has uncommitted rows nobody else can commit rows of the
same document, so what it removed or found missing stays removed or missing.
The proof has one lemma per action that says what the action changes, and one
step per action and conjunct of `IInv`.

A deadlock needs a circle of processes that each hold a row and wait for another.
`LockInv` is the order in which an ingest takes its locks: that of its document
from the upsert on, that of the publication's row last, when all it has left is the
commit. Who holds a registry row is therefore an ingest that waits for nothing, or
a crawl, and crawls touch no documents: a circle has only crawls in it.

That a crawl's commit drops only what another committed behind its back is about what
it still knows of the rows: `EvidenceInv` says that the models of a row are among those
the crawl read, or is going to write, or that `unseen` has collected since. It needs that
only a crawl's commit changes that column, and that a crawl that wrote to a row has it
locked, so that nothing is unseen from the write on that was not before.

The hypothesis `Exclusive` of the last one is needed: a crawl beside an ingest loses a
`stale` (see Findings). Under `Exclusive` no process starts
while another runs (`OneAtATime`, an invariant by itself), and `CurrentInv` follows
the versions: neither the cache nor the registry is ahead of the site; a crawl sends
a new hash without a status only to a row that does not say `ingested`; and once an
ingest has fetched, its text is at least as new as the row. That last one is why a
crawl from a stale cache does no harm: an ingest always downloads, and what the site
has now is no older than anything discovery can have recorded.

For the refinement, `WholeDocument` alone does not say that a step of the detailed
model is one of the abstract: a process commits what it computed from a row it
read long ago. `IndexInv` says what it still knows of that row. A written row stays
as it is until its writer commits, because of the lock (`Respects`), so a crawl
writes "discovered" only where there is still no row; an ingest works on a
registered publication and on a content the site has served, and it leaves the
status alone only if it read `ingested`, which by then can only have become
`stale`. A commit of a crawl is then a `Discover`, one of an ingest an `Ingest`, and
everything else but `Publish` stutters. TLC checked `IndexInv` on the instance of
`html_two_ingests` first.

`PublicationTextProofs` proves, for any limits, contents and lengths of texts:

- `RequestsAlwaysFit`: `PageSpec => []RequestsFit`;
- `VectorsStayInOrder`: `PageSpec => []VectorsInOrder`;
- `IngestAlwaysReadsTheSite`: `PageSpec => []IngestReadsTheSite`;
- `CrawlIsNeverBehind`: `PageSpec => []CrawlIsNotBehind`;
- `TokensAlwaysCounted`: `PageSpec => []TokensAreCounted`.

Assumed: `LimitsAssumption` (limits are numbers, and a clipped text fits into a
request by itself, as the constants of `embedder.py` do), `VersionsAssumption`,
`LengthsAssumption`. The loop invariant is that vectors and batch together are the
positions of the texts handled so far. `PageInv` orders the versions: what was indexed
last is no newer than the cache file, whole or cut, which is no newer than the site,
since an ingest writes the file before it parses and nothing writes an older page. For
the token counts `TokensInv` says that there is a table of partial sums which ends in what the batch, and each request, was
weighed at; an added text extends the table by one entry. That any such table agrees
with the recursive function of the property is shown without the library's induction
theorems, by a least position at which the two differ (`LeastIsInSet`, from the
well-foundedness of `<`).

`ProductFacetsProofs` proves, over any documents, titles and questions,

- `FacetsAlwaysAgree`: `FacetSpec => []FacetAgrees`;
- `BoostAgrees`: `FacetSpec => []BoostAgreesWithGate`;
- `RightManualPasses`: `FacetSpec => []SameProductPasses`;
- `ForeignBrandsAreTurnedAway`: `FacetSpec => []ForeignBrandIsGated`.

`FacetInv` adds what each transaction knows. The argument is by columns: an ingest
or a backfill that is not raced holds the lock of each row it wrote to, or wrote
nothing because the columns it read are already those it wants; what another
transaction commits in between either is of the same title or marks it as raced. The
facet that ends up in the row is therefore, column by column, the one this
transaction wants. What `derive_facet` computes is not opened: it is some set of
facets per title.

`BoostAgrees` puts `FacetAgrees` together with what `derive_facet` and
`normalize_product` share: a title all of whose derivations are equal has the stored
facet as its live scope, up to the confidence, which the boost and the gate treat
alike. The last two theorems are about the gate itself. No step of the system is
needed for them, but the word lists are: that no family's tokens are among the generic
title words, and that a foreign brand is never the missing brand. They hold for every
text, not only for the titles and questions of the run.

`QueryServiceProofs` proves, for any number of requests, connections and slots, and
any hits and replies:

- `QueryTypeCorrect`: `Spec => []TypeOK`;
- `CitationsAreHonest`: `Spec => []CitationIsHonest`;
- `FailuresAreAlwaysToldApart`: `Spec => []FailuresAreToldApart`;
- `NothingEverLeaks`: `Spec => []NothingLeaks`.

What `FailuresAreToldApart` says is the contract by class: 503 with `Retry-After` for
what is transient, 503 and a page for what an operator has to fix, 502 for any other reply
of Anthropic's without an answer, and neither header nor page on any other response.
`QueryInv` is their conjunction with the one fact that is missing: the response of
a request that is at work is not there yet. With it each action is looked at by
itself, and each `return`, `raise` and uncaught exception has a step of its own.

`PdfIngestionProofs` proves, for any number of workers, files, contents and
pages, and also when files are overwritten during their ingest:

- `TypeCorrect`: `Spec => []TypeOK`;
- `CommittedCanBeShown`: `Spec => []PagesCanBeShown`;
- `ZeroIsHonest`: `Spec => []ZeroMeansIndexed`;

and, assuming `~Replaceable` (a file is overwritten only while no ingest has it in hand;
without that the text parsed may be another PDF's than the one rendered, and neither
holds):

- `CommittedHavePages`: `Spec => []DocumentsHavePages`;
- `Implements`: `Spec => ImplementsLibrary`, the refinement of `PdfLibrary`.

Assumed: the named ASSUMEs of `PdfIngestion` (paths are numbers, the null values
are not among the others, page counts are numbers, a parse reads at least one
page and only pages the rasterizer has).

`PagesCanBeShown` is about committed rows, and a commit shows nothing of how its
rows came about. `SafeInv` says what a worker knows at each point (`Stored`: from
the upload on, the PDF under its hash is there, and so is the image of each page
it has a row for; `Titled`: past the upsert it wrote the document's row or found
one committed; `HoldsAlone`: no two workers, and no worker and the database, have
the row of one page; `DoneIsIndexed`: a batch without a failure has indexed what it
is done with). What makes it inductive is that objects and document rows
are never taken back (`Grows`): rollbacks and kills leave the bucket alone, so what
a worker knows stays true whatever the others do. `FaithfulInv` adds, under
`~Replaceable`, that hash, text and images of a worker are of one content
(`Faithful`, with the loop invariant that the rows so far are the pages read below
the current one, so that at the commit they are all pages read). In the
refinement a `Commit` is `Index` if the document was not there and `Grow` if it was,
with the rows of the worker as the pages; `HoldsAlone` makes them new, and all
other steps stutter. TLC checked `IInv`, the two together, on small instances before they were proved.

`RankingProofs` proves, for any lists the channels return, any documents, titles,
products, cuts and budgets, and whatever rows are gone:

- `TypesHold`: `Spec => []TypeOK`;
- `CandidatesSound`: `Spec => []CandidatesAreSound`;
- `LeaderShown`: `Spec => []LeadingDocumentIsShown`;
- `FarAheadStays`: `Spec => []FarAheadStaysAhead`.

Assumed: ids are positive numbers, there are finitely many chunks, no two chunks of a
document have the same ordinal (a unique key of the table), no channel returns a row
twice (`ChannelsAssumption`: a channel is one SELECT over the chunk rows), cut and
budget are at least 1.

`RankInv` is the invariant at each stage: the list has no chunk twice, every hit has
a score, two hits further apart than the cap are in the order of their scores, the
base holds hits of the list, each once and in such an order too, the leader is none or
a document with an anchor page of its own, and the result is what the properties say of
it. Most of the work
is in what the helpers return (`ListingProofs`). `Listed` is shown to enumerate a finite set in any
total order: the number of elements up to x is a bijection onto `1 .. Cardinality`,
by the pigeonhole facts of `FiniteSetTheorems`. From it follow that `SortBy` returns a
permutation in which a higher key comes first and equal keys stay in order, and that
`Keeping` is a walk through the kept places. `FarAheadStays` then needs only that no
boost exceeds the cap (`Boosts`), since each rerank starts from the raw score, which is
also why the order of the title is lost (see Findings). `LeaderShown` needs that the
anchor is itself one of its neighbours and the closest of them, so that the budget
reaches it first.

`SearchDuringIngestProofs` proves, for any finite set of publications, any pages, any
channels and budgets, and any number of crawls and ingests that run in turn beside the
question:

- `ModulesAreWhole`: `SearchSpec => []SourcesAreWholeModules`;
- `LabelsAreTitles`: `SearchSpec => []LabelIsTheTitle`;
- `NothingIsLostSilently`: `SearchSpec => NothingOnlyWhenReplaced`;
- `SearchedTextIsCurrent`: `SearchSpec => []IngestedIsCurrent`.

Assumed, besides what `HtmlIngestion` assumes: `InTurn` (commands run one at a time),
`ManualAssumption` (`Manual[v]` is a page, and the content `v` has as many chunks as the
parser makes of that page), `LimitsAssumption`, `PubsAssumption`, `HashAssumption`.

The proof has two halves. The first is about the parser, and is where a wrong order or
a lost piece would show. The words of a page go through a chain of lists: fragments
without the blank ones, lines without repetitions, the pieces of a module, all pieces
without the empty ones, numbered; and on the way back the chunks with one
`parent_anchor`, put in a row. At each stage a lemma says that no word is
lost or added (`ContentWords`, `BlockWords`, `ModuleWords`, `PageWords`, `ChunkWords`)
and that what comes first stays first (`KeptBegins`, `HasHead`), so that
`ModuleTextWords` can say of the text put together again: its words are those printed
under the hash, and its first line is the title of the first module there, if that has
one. What `FlattenSeq` does to a list of lists is shown from its definition, as a
recursive function over the lengths, by a least length at which it would fail
(`FlattenJoins`). That the rows of a document in the order of their ordinals are the
chunks of one content is `RowsAreTheChunks`: ordinals count up without a gap, because
`WholeDocument` holds.

The second half is about the steps. `TextInv` adds to what is proved about
`HtmlIngestion` that the text of a document is never newer than the site, and that
an ingest that has fetched is not about to commit an older one: so what is indexed only
grows (`IndexGrows`). `AskInv` says of the request that every row it knows is of a chunk
the parser made, in a content no newer than the indexed one (`Known`), and that
each source is whole and labelled (`Whole`). A commit between two statements raises the
indexed content, which leaves both true: a source may then come from any content between
the one its hit was loaded from and the one indexed now. That ingests run in turn is needed
for `IndexGrows` only: of two ingests that overlap the one with the older text may commit
last. TLC checks all four properties on the instance of `search_beside_ingest`.

Only model-checked:

- all liveness (`CommandsEnd`, `BatchesEnd`, `RequestsEnd`, `ReadyAgain`), which is out
  of the prover's reach.

The properties of the runs that end in a violation are false, and have no proof.

## Not modelled

- Text ranking and vector distance happen in PostgreSQL; a channel returns any list.
- Parsing of the sitemap and of model pages, pacing and retries of the fetcher: which
  publications a crawl meets, and whether a page arrives, are inputs.
- Migrations 0004 and 0005 and the downgrades: the models start from the tables the
  code now writes.
- What docling and pdfium read in a page.
- Stub mode, which replaces every external call by a constant.
- Prompts, wording, schemas, settings, logging, metrics: no state.
- The evaluation harness and the tests, read as documentation of what is promised.

## Plan

Done: `Registry`, `HtmlIngestion`, `PublicationIndex` (the core, with proofs up to the
refinement and the freedom from deadlocks), `PdfIngestion`, `PdfLibrary` (with
proofs), `Extraction`, `QueryService` (with proofs), `Ranking` (with proofs),
`Listing`, `HtmlParser` and `SearchDuringIngest` (with proofs), `EmbedBatches` and
`PublicationText` (with proofs),
`ProductMatch` and `ProductFacets` (with proofs).

Left, in this order:

1. A composition of `SearchDuringIngest` and `Ranking`: which of the rows that a search
   loads survive fusion, reranks and budget, as one theorem over both.
2. Concurrent commands on one cache file in `PublicationText`, and sitemaps and model
   pages that are cut.

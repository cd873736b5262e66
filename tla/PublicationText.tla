-------------------------- MODULE PublicationText ---------------------------
(***************************************************************************)
(* A publication page on its way into a command: out of the cache file or  *)
(* from the site and into the cache file (Fetcher.get), through the        *)
(* parser, and, for an ingest, through the embedder, until it is handed on *)
(* to the transaction that HtmlIngestion models.  Commands run one after   *)
(* the other and any of them may be killed at any step; the cache file is  *)
(* what they leave behind.                                                 *)
(***************************************************************************)
EXTENDS EmbedBatches

CONSTANTS
    MaxVersion,  \* contents the site serves for the page, one after another
    Lengths      \* Lengths[v]: the lengths of the chunks of content v

Versions == 1 .. MaxVersion

ASSUME VersionsAssumption == MaxVersion \in Nat \ {0}
ASSUME LengthsAssumption == Lengths \in [Versions -> Seq(Nat)]

VARIABLES
    live,    \* the content the site serves
    file,    \* the cache file of the page
    job,     \* the command at work
    indexed  \* history: the content the last ingest handed on

allVars == <<live, file, job, indexed, embedVars>>

\* A page; its end may be missing, from before or from after the closing tag
\* of the manual data.
Cuts == {"early", "late"}
PageText == [ver : 0 .. MaxVersion, cut : Cuts \cup {"no"}]
NoPage == [ver |-> 0, cut |-> "no"]

Kinds == {"crawl", "refresh", "ingest"}  \* refresh: a crawl with --refresh

JobState == [kind  : Kinds \cup {"none"},
             pc    : {"idle", "get", "download", "open", "write",
                      "parse", "embed", "handed_on"},
             page  : PageText,
             since : 0 .. MaxVersion]  \* the content served when it started

NoJob == [kind |-> "none", pc |-> "idle", page |-> NoPage, since |-> 0]

PageTypeOK ==
    /\ live \in Versions
    /\ file \in PageText
    /\ job \in JobState
    /\ indexed \in 0 .. MaxVersion

PageInit ==
    /\ live = 1
    /\ file = NoPage
    /\ job = NoJob
    /\ indexed = 0
    /\ EmbedInit

-----------------------------------------------------------------------------
Publish ==
    /\ live < MaxVersion
    /\ live' = live + 1
    /\ UNCHANGED <<file, job, indexed, embedVars>>

Start ==
    /\ job.pc = "idle"
    /\ \E kind \in Kinds :
         job' = [NoJob EXCEPT !.kind = kind, !.pc = "get", !.since = live]
    /\ UNCHANGED <<live, file, indexed, embedVars>>

\* The command is over, one of its steps has failed or it was killed.
Stop ==
    /\ job.pc # "idle"
    /\ job' = NoJob
    /\ Return
    /\ UNCHANGED <<live, file, indexed>>

-----------------------------------------------------------------------------
(* Fetcher.get.                                                            *)

HitsWhateverTheKind == file # NoPage   \* mutant: force_refresh is not passed on

\* An ingest and a crawl with --refresh look past the cache.
Hits == file # NoPage /\ job.kind = "crawl"

ReadCache ==
    /\ job.pc = "get"
    /\ Hits
    /\ job' = [job EXCEPT !.pc = "parse", !.page = file]
    /\ UNCHANGED <<live, file, indexed, embedVars>>

\* The cache is not asked: robots.txt first.  One that forbids the page stops
\* the command, one that cannot be had allows everything.
AskRobots ==
    /\ job.pc = "get"
    /\ ~Hits
    /\ job' = [job EXCEPT !.pc = "download"]
    /\ UNCHANGED <<live, file, indexed, embedVars>>

LivePage == [ver |-> live, cut |-> "no"]

DownloadForIngest ==   \* mutant: an ingest leaves the cache alone altogether
    /\ job.pc = "download"
    /\ job' = [job EXCEPT !.page = LivePage,
                         !.pc = IF job.kind = "ingest" THEN "parse" ELSE "open"]
    /\ UNCHANGED <<live, file, indexed, embedVars>>

\* The page is served whole or the request fails.
Download ==
    /\ job.pc = "download"
    /\ job' = [job EXCEPT !.pc = "open", !.page = LivePage]
    /\ UNCHANGED <<live, file, indexed, embedVars>>

\* write_text empties the file and fills it: a command that is killed meanwhile
\* leaves a beginning of the page ...
OpenFile ==
    /\ job.pc = "open"
    /\ \E cut \in Cuts : file' = [job.page EXCEPT !.cut = cut]
    /\ job' = [job EXCEPT !.pc = "write"]
    /\ UNCHANGED <<live, indexed, embedVars>>

\* ... and one that is not, the page.
WriteFile ==
    /\ job.pc = "write"
    /\ file' = job.page
    /\ job' = [job EXCEPT !.pc = "parse"]
    /\ UNCHANGED <<live, indexed, embedVars>>

-----------------------------------------------------------------------------
(* The page's use.                                                         *)

\* The manual data is what stands before the closing tag of its script block:
\* whole, or there is none.
Parses(page) == page.ver # 0 /\ page.cut # "early"

\* A crawl takes the metadata and the content hash of the page.
Probe ==
    /\ job.pc = "parse"
    /\ job.kind # "ingest"
    /\ Parses(job.page)
    /\ job' = [job EXCEPT !.pc = "handed_on"]
    /\ UNCHANGED <<live, file, indexed, embedVars>>

\* An ingest takes the chunks, and needs some.
ParseChunks ==
    /\ job.pc = "parse"
    /\ job.kind = "ingest"
    /\ Parses(job.page)
    /\ Lengths[job.page.ver] # <<>>
    /\ Begin(Lengths[job.page.ver])
    /\ job' = [job EXCEPT !.pc = "embed"]
    /\ UNCHANGED <<live, file, indexed>>

Embed ==
    /\ job.pc = "embed"
    /\ EmbedStep
    /\ UNCHANGED <<live, file, job, indexed>>

\* The vectors go with the chunks if there are as many.
HandOn ==
    /\ job.pc = "embed"
    /\ phase = "done"
    /\ Len(vectors) = Len(texts)
    /\ job' = [job EXCEPT !.pc = "handed_on"]
    /\ indexed' = job.page.ver
    /\ UNCHANGED <<live, file, embedVars>>

PageNext == \/ Publish \/ Start \/ Stop
            \/ ReadCache \/ AskRobots \/ Download \/ OpenFile \/ WriteFile
            \/ Probe \/ ParseChunks \/ Embed \/ HandOn

PageSpec == PageInit /\ [][PageNext]_allVars

-----------------------------------------------------------------------------
(* Properties.                                                             *)

\* What is indexed was served after the ingest began, whatever commands left
\* in the cache before it.
IngestReadsTheSite ==
    job.kind = "ingest" /\ job.pc = "handed_on" => job.page.ver >= job.since

\* A crawl, with or without --refresh, never records a content older than one
\* that an ingest before it has indexed, whatever killed commands left in the
\* cache file between them (Fetcher.get): the registry would mark as stale a
\* publication that is up to date.
CrawlIsNotBehind ==
    job.kind # "ingest" /\ job.pc = "handed_on" => job.page.ver >= indexed

TokensOf(items) ==
    LET sum[n \in 0 .. Len(items)] ==
          IF n = 0 THEN 0 ELSE sum[n - 1] + Tokens(items[n])
    IN  sum[Len(items)]

\* The estimate a request was sent with is that of its texts.
TokensAreCounted ==
    \A k \in DOMAIN sent : sent[k].tokens = TokensOf(sent[k].items)
=============================================================================

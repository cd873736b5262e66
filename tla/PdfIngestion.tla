---------------------------- MODULE PdfIngestion ----------------------------
(***************************************************************************)
(* PDF ingests (parts-lookup-ingest ingest / ingest-dir) running against   *)
(* one database and one bucket.  Each file is one transaction: hash,       *)
(* look up, store the PDF, parse, upsert the document, embed, then per     *)
(* page render, store the image and insert the chunk, and commit.          *)
(*                                                                         *)
(* The bucket is not part of the transaction: what was uploaded stays when *)
(* the transaction rolls back.  The database is PostgreSQL at READ         *)
(* COMMITTED: an INSERT waits for an uncommitted row with the same unique  *)
(* key and raises IntegrityError once such a row is committed.  Rows that  *)
(* are not committed live in the worker that wrote them, so who holds a    *)
(* key is read off the workers.                                            *)
(*                                                                         *)
(* An ingest of a single file is a batch of one.                           *)
(***************************************************************************)
EXTENDS Naturals

CONSTANTS
    Workers,     \* processes that ingest PDFs
    Files,       \* paths, as numbers: a directory is processed in path order
    Shas,        \* contents, named by their SHA-256
    PageCount,   \* PageCount[s]: pages the rasterizer renders
    Reads,       \* Reads[s]: the page sets a parse of s may come back with
    NoFile, NoSha,
    Replaceable  \* TRUE: a file may be overwritten while an ingest has it in
                 \* hand; FALSE: only before and after

Pages == UNION {1 .. PageCount[s] : s \in Shas}

ASSUME FilesAssumption == Files \subseteq Nat /\ NoFile \notin Files
ASSUME ShasAssumption == NoSha \notin Shas
ASSUME PageCountAssumption == PageCount \in [Shas -> Nat]
\* parse_pdf drops pages without text and raises when no page is left.
ASSUME ReadsAssumption ==
    Reads \in [Shas -> SUBSET SUBSET Pages]
    /\ \A s \in Shas : \A r \in Reads[s] : r # {} /\ r \subseteq 1 .. PageCount[s]

VARIABLES
    content,  \* content[f]: what the file holds
    pdf,      \* pdf[s]: the content of object pdfs/<s>.pdf
    png,      \* png[s][n]: the content object pages/<s>/<n>.png shows
    title,    \* title[s]: committed row of documents, NoFile without one
    chunks,   \* chunks[s]: committed rows of chunks of document s
    work      \* work[w]: a worker's local state

vars == <<content, pdf, png, title, chunks, work>>

Chunk == [page : Pages, of : Shas]
PagesOf(s) == {k.page : k \in chunks[s]}
docs == {s \in Shas : title[s] # NoFile}

WorkState == [pc     : {"idle", "open", "upload", "parse", "upsert", "create",
                        "retitle", "embed", "render", "insert", "commit"},
              asked  : SUBSET Files,          \* the files of the batch
              todo   : SUBSET Files,
              rc     : {0, 1},                \* exit status so far
              taken  : [Files -> Shas \cup {NoSha}], \* history: their hashes
              file   : Files \cup {NoFile},
              sha    : Shas \cup {NoSha},     \* what _sha256_file returned
              text   : Shas \cup {NoSha},     \* the content that was parsed
              read   : SUBSET Pages,          \* the pages it gave
              image  : Shas \cup {NoSha},     \* the content being rendered
              page   : Nat,                   \* the page to render next
              titled : BOOLEAN,               \* wrote the documents row
              rows   : SUBSET Pages]          \* chunk rows, uncommitted

NoneTaken == [f \in Files |-> NoSha]

\* A worker between two files.
AtRest(pc, asked, todo, rc, taken) ==
    [pc |-> pc, asked |-> asked, todo |-> todo, rc |-> rc, taken |-> taken,
     file |-> NoFile, sha |-> NoSha, text |-> NoSha, read |-> {},
     image |-> NoSha, page |-> 1, titled |-> FALSE, rows |-> {}]

TypeOK ==
    /\ content \in [Files -> Shas]
    /\ pdf \in [Shas -> Shas \cup {NoSha}]
    /\ png \in [Shas -> [Pages -> Shas \cup {NoSha}]]
    /\ title \in [Shas -> Files \cup {NoFile}]
    /\ chunks \in [Shas -> SUBSET Chunk]
    /\ work \in [Workers -> WorkState]

Init ==
    /\ content \in [Files -> Shas]
    /\ pdf = [s \in Shas |-> NoSha]
    /\ png = [s \in Shas |-> [n \in Pages |-> NoSha]]
    /\ title = [s \in Shas |-> NoFile]
    /\ chunks = [s \in Shas |-> {}]
    /\ work = [w \in Workers |-> AtRest("idle", {}, {}, 0, NoneTaken)]

\* Another worker has an uncommitted row with the key this one needs.
OthersTitled(w) ==
    {v \in Workers \ {w} : work[v].sha = work[w].sha /\ work[v].titled}
OthersInserted(w) ==
    {v \in Workers \ {w} : work[v].sha = work[w].sha
                             /\ work[w].page \in work[v].rows}

-----------------------------------------------------------------------------
(* A batch.                                                                *)

\* Somebody else overwrites a file.
Replace(f) ==
    /\ Replaceable \/ \A w \in Workers : work[w].file # f
    /\ \E s \in Shas : content' = [content EXCEPT ![f] = s]
    /\ UNCHANGED <<pdf, png, title, chunks, work>>

\* The directory is listed once.  An empty one ends with status 0 at once.
StartBatch(w) ==
    /\ work[w].pc = "idle"
    /\ \E asked \in SUBSET Files :
         work' = [work EXCEPT ![w] =
                    AtRest(IF asked = {} THEN "idle" ELSE "open", asked, asked, 0,
                           NoneTaken)]
    /\ UNCHANGED <<content, pdf, png, title, chunks>>

LastStatus(rc, fileRc) == fileRc        \* mutant: the last file decides
StatusAdded(rc, fileRc) == rc + fileRc   \* mutant: failures are counted
Status(rc, fileRc) == IF rc > fileRc THEN rc ELSE fileRc

\* The next file, or the end of the batch.  What was asked of a batch that
\* ends in failure, and the hashes once one failed, are of no interest.
AfterFile(s, fileRc) ==
    LET rc == Status(s.rc, fileRc) IN
    AtRest(IF s.todo = {} THEN "idle" ELSE "open",
           IF s.todo = {} /\ rc # 0 THEN {} ELSE s.asked, s.todo,
           rc, IF rc = 0 THEN s.taken ELSE NoneTaken)

\* What w knows once it has hashed f.
Hashed(w, f) == [work[w] EXCEPT !.todo = work[w].todo \ {f},
                                !.taken = [work[w].taken EXCEPT ![f] = content[f]]]

\* The first file by path: hash it, and be done if the document is there.
OpenFile(w) ==
    /\ work[w].pc = "open"
    /\ \E f \in work[w].todo :
         /\ \A g \in work[w].todo : f <= g
         /\ work' = [work EXCEPT ![w] =
              IF title[content[f]] # NoFile THEN AfterFile(Hashed(w, f), 0)
              ELSE [Hashed(w, f) EXCEPT !.pc = "upload", !.file = f,
                                        !.sha = content[f]]]
    /\ UNCHANGED <<content, pdf, png, title, chunks>>

UploadPdf(w) ==
    /\ work[w].pc = "upload"
    /\ pdf' = [pdf EXCEPT ![work[w].sha] = content[work[w].file]]
    /\ work' = [work EXCEPT ![w] = [@ EXCEPT !.pc = "parse"]]
    /\ UNCHANGED <<content, png, title, chunks>>

Parse(w) ==
    /\ work[w].pc = "parse"
    /\ \E r \in Reads[content[work[w].file]] :
         work' = [work EXCEPT ![w] =
           [@ EXCEPT !.pc = "upsert", !.text = content[work[w].file], !.read = r]]
    /\ UNCHANGED <<content, pdf, png, title, chunks>>

-----------------------------------------------------------------------------
(* upsert_document: SELECT again, then INSERT the row or UPDATE its title. *)

SelectDocument(w) ==
    /\ work[w].pc = "upsert"
    /\ work' = [work EXCEPT ![w] = [@ EXCEPT !.pc =
         CASE title[work[w].sha] = NoFile -> "create"
           [] title[work[w].sha] = work[w].file -> "embed"
           [] OTHER -> "retitle"]]
    /\ UNCHANGED <<content, pdf, png, title, chunks>>

CreateDocument(w) ==
    /\ work[w].pc = "create"
    /\ OthersTitled(w) = {}
    /\ title[work[w].sha] = NoFile
    /\ work' = [work EXCEPT ![w] = [@ EXCEPT !.pc = "embed", !.titled = TRUE]]
    /\ UNCHANGED <<content, pdf, png, title, chunks>>

RetitleDocument(w) ==
    /\ work[w].pc = "retitle"
    /\ OthersTitled(w) = {}
    /\ work' = [work EXCEPT ![w] = [@ EXCEPT !.pc = "embed", !.titled = TRUE]]
    /\ UNCHANGED <<content, pdf, png, title, chunks>>

-----------------------------------------------------------------------------
(* _render_and_persist.                                                    *)

\* embed_documents, with the transaction open, and the rasterizer's open.
Embed(w) ==
    /\ work[w].pc = "embed"
    /\ work' = [work EXCEPT ![w] =
         [@ EXCEPT !.pc = "render", !.image = content[work[w].file]]]
    /\ UNCHANGED <<content, pdf, png, title, chunks>>

\* A page without an embedding is skipped.
SkipPage(w) ==
    /\ work[w].pc = "render"
    /\ work[w].page \in (1 .. PageCount[work[w].image]) \ work[w].read
    /\ work' = [work EXCEPT ![w] = [@ EXCEPT !.page = work[w].page + 1]]
    /\ UNCHANGED <<content, pdf, png, title, chunks>>

\* mutant: an upload that fails is ignored
UploadPageOrNot(w) ==
    /\ work[w].pc = "render"
    /\ work[w].page \in (1 .. PageCount[work[w].image]) \cap work[w].read
    /\ png' \in {png, [png EXCEPT ![work[w].sha][work[w].page] = work[w].image]}
    /\ work' = [work EXCEPT ![w] = [@ EXCEPT !.pc = "insert"]]
    /\ UNCHANGED <<content, pdf, title, chunks>>

UploadPage(w) ==
    /\ work[w].pc = "render"
    /\ work[w].page \in (1 .. PageCount[work[w].image]) \cap work[w].read
    /\ png' = [png EXCEPT ![work[w].sha] =
                 [png[work[w].sha] EXCEPT ![work[w].page] = work[w].image]]
    /\ work' = [work EXCEPT ![w] = [@ EXCEPT !.pc = "insert"]]
    /\ UNCHANGED <<content, pdf, title, chunks>>

InsertPage(w) ==
    /\ work[w].pc = "insert"
    /\ OthersInserted(w) = {}
    /\ work[w].page \notin PagesOf(work[w].sha)
    /\ work' = [work EXCEPT ![w] =
         [@ EXCEPT !.pc = "render", !.page = work[w].page + 1,
                   !.rows = work[w].rows \cup {work[w].page}]]
    /\ UNCHANGED <<content, pdf, png, title, chunks>>

LastPage(w) ==
    /\ work[w].pc = "render"
    /\ work[w].page > PageCount[work[w].image]
    /\ work' = [work EXCEPT ![w] = [@ EXCEPT !.pc = "commit"]]
    /\ UNCHANGED <<content, pdf, png, title, chunks>>

\* mutant: the rows replace those that are there
RowsReplaced(w) == {[page |-> n, of |-> work[w].text] : n \in work[w].rows}

\* The chunk rows of the document once w's transaction is committed.
RowsAfter(w) == chunks[work[w].sha]
                  \cup {[page |-> n, of |-> work[w].text] : n \in work[w].rows}

Commit(w) ==
    LET s == work[w].sha IN
    /\ work[w].pc = "commit"
    /\ title' = [title EXCEPT ![s] = IF work[w].titled THEN work[w].file
                                                       ELSE title[s]]
    /\ chunks' = [chunks EXCEPT ![s] = RowsAfter(w)]
    /\ work' = [work EXCEPT ![w] = AfterFile(work[w], 0)]
    /\ UNCHANGED <<content, pdf, png>>

-----------------------------------------------------------------------------
(* Failures.  Every exception ends the file, not the batch; the rows of    *)
(* the transaction are gone, the objects in the bucket stay.               *)

\* mutant: the batch commits what the failed file left behind
FileFailsAndCommits(w) ==
    /\ title' = [title EXCEPT ![work[w].sha] = work[w].file]
    /\ chunks' = [chunks EXCEPT ![work[w].sha] = RowsAfter(w)]
    /\ work' = [work EXCEPT ![w] = AfterFile(work[w], 1)]
    /\ UNCHANGED <<content, pdf, png>>

\* mutant: a file that failed is tried again
RetryFile(w) ==
    /\ work' = [work EXCEPT ![w] =
         AtRest("open", work[w].asked, work[w].todo \cup {work[w].file}, 1,
                work[w].taken)]
    /\ UNCHANGED <<content, pdf, png, title, chunks>>

RollBackFile(w) ==
    /\ work' = [work EXCEPT ![w] = AfterFile(work[w], 1)]
    /\ UNCHANGED <<content, pdf, png, title, chunks>>

\* The file is gone, an upload, the parser, the embedder or the rasterizer
\* fails, the connection drops.
FileFails(w) == work[w].file # NoFile /\ RollBackFile(w)

\* Another worker committed the document, or a page of it, first.
Collides(w) ==
    /\ \/ /\ work[w].pc = "create"
          /\ OthersTitled(w) = {}
          /\ title[work[w].sha] # NoFile
       \/ /\ work[w].pc = "insert"
          /\ OthersInserted(w) = {}
          /\ work[w].page \in PagesOf(work[w].sha)
    /\ RollBackFile(w)

\* The process is killed: its transaction rolls back, its status is not 0.
Kill(w) ==
    /\ work[w].pc # "idle"
    /\ work' = [work EXCEPT ![w] = AtRest("idle", {}, {}, 1, NoneTaken)]
    /\ UNCHANGED <<content, pdf, png, title, chunks>>

-----------------------------------------------------------------------------
WorkStep(w) == \/ OpenFile(w) \/ UploadPdf(w) \/ Parse(w)
               \/ SelectDocument(w) \/ CreateDocument(w) \/ RetitleDocument(w)
               \/ Embed(w) \/ SkipPage(w) \/ UploadPage(w) \/ InsertPage(w)
               \/ LastPage(w) \/ Commit(w) \/ Collides(w)

Next == \/ \E f \in Files : Replace(f)
        \/ \E w \in Workers : StartBatch(w) \/ WorkStep(w) \/ FileFails(w) \/ Kill(w)

Spec == Init /\ [][Next]_vars

\* A process that runs keeps running; a lock wait is granted in turn.
Fairness == \A w \in Workers : SF_vars(WorkStep(w))
FairSpec == Spec /\ Fairness

-----------------------------------------------------------------------------
(* Properties.                                                             *)

\* A document that is there can be found: dedup would keep one without chunks
\* for ever (parse_pdf, _render_and_persist and the commit of the CLI).
DocumentsHavePages == \A s \in docs : chunks[s] # {}

\* A page that can be found can be shown: its image and its PDF were stored
\* before its row became visible, whichever attempt at the file committed.
PagesCanBeShown ==
    \A s \in Shas : \A k \in chunks[s] : pdf[s] # NoSha /\ png[s][k.page] # NoSha

\* The rows and objects under a hash are those of the content with that hash:
\* "a PDF is identified by its SHA-256" (ingestion/pipeline.py:3).  The code
\* does not keep it: after the hash it opens the path three times again.
ShaNamesTheContent ==
    \A s \in Shas : \A k \in chunks[s] :
      k.of = s /\ pdf[s] = s /\ png[s][k.page] = s

\* A batch that ends with status 0 left every file of it indexed: each was
\* hashed, and the document of that hash is there, whoever committed it.
ZeroMeansIndexed ==
    \A w \in Workers : work[w].pc = "idle" /\ work[w].rc = 0 =>
      \A f \in work[w].asked : work[w].taken[f] \in docs

\* Why they hold.  A worker past its guards knows its file and hash; what it
\* and all before it stored stays stored.
Begun == {"upload", "parse", "upsert", "create", "retitle", "embed", "render",
          "insert", "commit"}
Rendering == {"render", "insert", "commit"}
Stored(w) ==
    LET s == work[w] IN
    /\ s.pc \in Begun <=> s.file # NoFile
    /\ s.pc \in Begun => s.sha \in Shas
    /\ s.pc \in Begun \ {"upload", "parse"} => s.text \in Shas
    /\ s.pc \in Rendering => s.image \in Shas
    /\ s.pc \in Begun \ {"upload"} => pdf[s.sha] # NoSha
    /\ s.pc \notin Rendering => s.rows = {}
    /\ s.pc = "insert" => s.page \in Pages /\ png[s.sha][s.page] # NoSha
    /\ \A n \in s.rows : png[s.sha][n] # NoSha

\* A document row comes with chunks, a chunk row with its document, and no two
\* workers hold the row of one page.
Titled(w) ==
    LET s == work[w] IN
    s.pc \in {"embed"} \cup Rendering => s.titled \/ title[s.sha] # NoFile
HoldsAlone(w) ==
    \A n \in work[w].rows :
      /\ n \notin PagesOf(work[w].sha)
      /\ \A v \in Workers \ {w} :
           work[v].sha = work[w].sha => n \notin work[v].rows
ChunksHaveDocuments == \A s \in Shas : chunks[s] # {} => s \in docs

\* A batch without a failure so far has indexed what it is done with.
DoneIsIndexed(w) ==
    LET s == work[w] IN
    /\ s.pc = "idle" => s.todo = {}
    /\ s.file \notin s.todo
    /\ s.file # NoFile => s.taken[s.file] = s.sha
    /\ s.rc = 0 => \A f \in s.asked \ s.todo : f = s.file \/ s.taken[f] \in docs

SafeInv == /\ TypeOK /\ PagesCanBeShown /\ ChunksHaveDocuments
           /\ \A w \in Workers :
                Stored(w) /\ Titled(w) /\ HoldsAlone(w) /\ DoneIsIndexed(w)

\* While no file in hand is overwritten the hash, the text and the images are
\* of one content, and the pages rendered so far are those that were read.
Faithful(w) ==
    LET s == work[w] IN
    /\ s.pc \in Begun => s.sha = content[s.file]
    /\ s.pc \in Begun \ {"upload", "parse"} => s.text = s.sha /\ s.read \in Reads[s.sha]
    /\ s.pc \in Rendering => s.image = s.sha
    /\ s.pc \in {"render", "insert"} => s.rows = s.read \cap (1 .. s.page - 1)
    /\ s.pc \notin Rendering => s.page = 1
    /\ s.pc = "insert" => s.page \in s.read
    /\ s.pc = "commit" => s.rows = s.read
ObjectsMatch ==
    \A s \in Shas : /\ pdf[s] \in {s, NoSha}
                    /\ \A n \in Pages : png[s][n] \in {s, NoSha}
                    /\ \A k \in chunks[s] : k.of = s

FaithfulInv == /\ ObjectsMatch /\ DocumentsHavePages
               /\ \A w \in Workers : Faithful(w)
IInv == SafeInv /\ (~Replaceable => FaithfulInv)

\* Every batch that was started ends: no process is at work for ever.
BatchesEnd == \A w \in Workers : []<>(work[w].pc = "idle")

\* Readers of the database see the promises of PdfLibrary.
Library == INSTANCE PdfLibrary WITH pages <- [s \in Shas |-> PagesOf(s)]
ImplementsLibrary == Library!Spec
=============================================================================

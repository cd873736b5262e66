------------------------- MODULE PdfIngestionProofs -------------------------
(***************************************************************************)
(* What PdfIngestion guarantees for any number of workers, files, contents *)
(* and pages: first whatever happens to the files (a page that is found    *)
(* can be shown, status 0 means that the batch is indexed), then, from     *)
(* ContentInHandStays on, as long as no file is overwritten while an       *)
(* ingest has it in hand (a document has pages, and readers of the         *)
(* database see a PdfLibrary).                                             *)
(***************************************************************************)
EXTENDS PdfIngestion, TLAPS

LEMMA RestIsWorkState ==
    ASSUME NEW pc \in {"idle", "open"}, NEW asked \in SUBSET Files,
           NEW todo \in SUBSET Files, NEW rc \in {0, 1},
           NEW taken \in [Files -> Shas \cup {NoSha}]
    PROVE  AtRest(pc, asked, todo, rc, taken) \in WorkState
BY DEF AtRest, WorkState

LEMMA NoneIsTaken == NoneTaken \in [Files -> Shas \cup {NoSha}]
BY DEF NoneTaken

LEMMA AfterFileIsWorkState ==
    ASSUME NEW s, s.asked \in SUBSET Files, s.todo \in SUBSET Files,
           s.rc \in {0, 1}, s.taken \in [Files -> Shas \cup {NoSha}],
           NEW fileRc \in {0, 1}
    PROVE  AfterFile(s, fileRc) \in WorkState
<1> DEFINE rc == Status(s.rc, fileRc)
           asked == IF s.todo = {} /\ rc # 0 THEN {} ELSE s.asked
           taken == IF rc = 0 THEN s.taken ELSE NoneTaken
           pc == IF s.todo = {} THEN "idle" ELSE "open"
<1>1. rc \in {0, 1}
  BY DEF Status
<1> HIDE DEF rc
<1>2. /\ taken \in [Files -> Shas \cup {NoSha}] /\ asked \in SUBSET Files
      /\ pc \in {"idle", "open"}
  BY NoneIsTaken
<1>3. AfterFile(s, fileRc) = AtRest(pc, asked, s.todo, rc, taken)
  BY DEF AfterFile, rc
<1> HIDE DEF taken, asked, pc
<1>4. AtRest(pc, asked, s.todo, rc, taken) \in WorkState
  BY <1>1, <1>2 DEF AtRest, WorkState
<1> QED
  BY <1>3, <1>4

LEMMA HashedIsWorkState ==
    ASSUME TypeOK, NEW w \in Workers, NEW f \in work[w].todo
    PROVE  /\ Hashed(w, f) \in WorkState
           /\ Hashed(w, f).asked = work[w].asked /\ Hashed(w, f).rc = work[w].rc
           /\ Hashed(w, f).todo = work[w].todo \ {f}
           /\ Hashed(w, f).taken[f] = content[f]
           /\ \A g \in Files \ {f} : Hashed(w, f).taken[g] = work[w].taken[g]
           /\ f \in Files /\ content[f] \in Shas
<1>1. work[w] \in WorkState
  BY DEF TypeOK
<1>2. f \in Files /\ content[f] \in Shas /\ work[w].taken \in [Files -> Shas \cup {NoSha}]
  BY <1>1 DEF WorkState, TypeOK
<1> DEFINE taken == [work[w].taken EXCEPT ![f] = content[f]]
<1>3. /\ taken \in [Files -> Shas \cup {NoSha}] /\ taken[f] = content[f]
      /\ \A g \in Files \ {f} : taken[g] = work[w].taken[g]
  BY <1>2
<1>4. Hashed(w, f) = [work[w] EXCEPT !.todo = work[w].todo \ {f}, !.taken = taken]
  BY DEF Hashed
<1> HIDE DEF taken
<1> QED
  BY <1>1, <1>2, <1>3, <1>4 DEF WorkState

\* A page the rasterizer renders is a page some chunk row can have.
LEMMA RenderedIsPage ==
    ASSUME NEW s \in Shas, NEW n \in 1 .. PageCount[s]
    PROVE  n \in Pages
BY DEF Pages

-----------------------------------------------------------------------------
(* Type correctness.                                                       *)

LEMMA InitType == Init => TypeOK
<1> SUFFICES ASSUME Init PROVE TypeOK
  OBVIOUS
<1>1. AtRest("idle", {}, {}, 0, NoneTaken) \in WorkState
  BY RestIsWorkState, NoneIsTaken
<1> QED
  BY <1>1 DEF Init, TypeOK

\* What a worker's step leaves in its own record.
LEMMA OwnType ==
    ASSUME TypeOK, NEW w \in Workers, Stored(w),
           StartBatch(w) \/ WorkStep(w) \/ FileFails(w) \/ Kill(w)
    PROVE  /\ work' \in [Workers -> WorkState]
           /\ \A v \in Workers \ {w} : work'[v] = work[v]
<1>1. ASSUME NEW s \in WorkState, work' = [work EXCEPT ![w] = s]
      PROVE  /\ work' \in [Workers -> WorkState]
             /\ \A v \in Workers \ {w} : work'[v] = work[v]
  BY <1>1 DEF TypeOK
<1>2. work[w] \in WorkState
  BY DEF TypeOK
<1>3. work[w].asked \in SUBSET Files /\ work[w].todo \in SUBSET Files
        /\ work[w].rc \in {0, 1} /\ work[w].taken \in [Files -> Shas \cup {NoSha}]
  BY <1>2 DEF WorkState
<1>4. AfterFile(work[w], 0) \in WorkState /\ AfterFile(work[w], 1) \in WorkState
  BY <1>3, AfterFileIsWorkState
<1>5. CASE StartBatch(w)
  <2>1. PICK asked \in SUBSET Files : work' = [work EXCEPT ![w] =
            AtRest(IF asked = {} THEN "idle" ELSE "open", asked, asked, 0, NoneTaken)]
    BY <1>5 DEF StartBatch
  <2>2. AtRest(IF asked = {} THEN "idle" ELSE "open", asked, asked, 0, NoneTaken)
          \in WorkState
    BY RestIsWorkState, NoneIsTaken
  <2> QED
    BY <1>1, <2>1, <2>2
<1>6. CASE OpenFile(w)
  <2>1. PICK f \in work[w].todo : work' = [work EXCEPT ![w] =
            IF title[content[f]] # NoFile THEN AfterFile(Hashed(w, f), 0)
            ELSE [Hashed(w, f) EXCEPT !.pc = "upload", !.file = f,
                                      !.sha = content[f]]]
    BY <1>6 DEF OpenFile
  <2>2. Hashed(w, f) \in WorkState /\ f \in Files /\ content[f] \in Shas
    BY HashedIsWorkState
  <2> DEFINE left == Hashed(w, f)
  <2>3. /\ left.asked \in SUBSET Files /\ left.todo \in SUBSET Files
        /\ left.rc \in {0, 1} /\ left.taken \in [Files -> Shas \cup {NoSha}]
    BY <2>2 DEF WorkState
  <2>4. [left EXCEPT !.pc = "upload", !.file = f, !.sha = content[f]] \in WorkState
    BY <2>2 DEF WorkState
  <2> HIDE DEF left
  <2>5. AfterFile(left, 0) \in WorkState
    BY <2>3, AfterFileIsWorkState
  <2> QED
    BY <1>1, <2>1, <2>4, <2>5 DEF left
<1>7. CASE UploadPdf(w)
  <2>1. [work[w] EXCEPT !.pc = "parse"] \in WorkState
    BY <1>2 DEF WorkState
  <2> QED
    BY <1>1, <1>7, <2>1 DEF UploadPdf
<1>8. CASE Parse(w)
  <2>1. work[w].file \in Files /\ content[work[w].file] \in Shas
    BY <1>2, <1>8 DEF Parse, Stored, Begun, WorkState, TypeOK
  <2>2. PICK r \in Reads[content[work[w].file]] : work' = [work EXCEPT ![w] =
          [work[w] EXCEPT !.pc = "upsert", !.text = content[work[w].file], !.read = r]]
    BY <1>8 DEF Parse
  <2>3. r \in SUBSET Pages
    BY <2>1, ReadsAssumption
  <2>4. [work[w] EXCEPT !.pc = "upsert", !.text = content[work[w].file], !.read = r]
          \in WorkState
    BY <1>2, <2>1, <2>3 DEF WorkState
  <2> QED
    BY <1>1, <2>2, <2>4
<1>9. CASE SelectDocument(w)
  <2> DEFINE pc == CASE title[work[w].sha] = NoFile -> "create"
                     [] title[work[w].sha] = work[w].file -> "embed"
                     [] OTHER -> "retitle"
  <2>1. work' = [work EXCEPT ![w] = [work[w] EXCEPT !.pc = pc]]
    BY <1>9 DEF SelectDocument
  <2>2. pc \in {"create", "embed", "retitle"}
    OBVIOUS
  <2> HIDE DEF pc
  <2>3. [work[w] EXCEPT !.pc = pc] \in WorkState
    BY <1>2, <2>2 DEF WorkState
  <2> QED
    BY <1>1, <2>1, <2>3
<1>10. CASE CreateDocument(w) \/ RetitleDocument(w)
  <2>1. [work[w] EXCEPT !.pc = "embed", !.titled = TRUE] \in WorkState
    BY <1>2 DEF WorkState
  <2> QED
    BY <1>1, <1>10, <2>1 DEF CreateDocument, RetitleDocument
<1>11. CASE Embed(w)
  <2>1. work[w].file \in Files /\ content[work[w].file] \in Shas
    BY <1>2, <1>11 DEF Embed, Stored, Begun, WorkState, TypeOK
  <2>2. [work[w] EXCEPT !.pc = "render", !.image = content[work[w].file]] \in WorkState
    BY <1>2, <2>1 DEF WorkState
  <2> QED
    BY <1>1, <1>11, <2>2 DEF Embed
<1>12. CASE SkipPage(w)
  <2>1. [work[w] EXCEPT !.page = work[w].page + 1] \in WorkState
    BY <1>2 DEF WorkState
  <2> QED
    BY <1>1, <1>12, <2>1 DEF SkipPage
<1>13. CASE UploadPage(w)
  <2>1. [work[w] EXCEPT !.pc = "insert"] \in WorkState
    BY <1>2 DEF WorkState
  <2> QED
    BY <1>1, <1>13, <2>1 DEF UploadPage
<1>14. CASE InsertPage(w)
  <2>1. work[w].page \in Pages
    BY <1>14 DEF InsertPage, Stored
  <2> DEFINE next == work[w].page + 1
             rows == work[w].rows \cup {work[w].page}
  <2>2. next \in Nat /\ rows \in SUBSET Pages
    BY <1>2, <2>1 DEF WorkState
  <2>3. work' = [work EXCEPT ![w] =
          [work[w] EXCEPT !.pc = "render", !.page = next, !.rows = rows]]
    BY <1>14 DEF InsertPage
  <2> HIDE DEF next, rows
  <2>4. [work[w] EXCEPT !.pc = "render", !.page = next, !.rows = rows] \in WorkState
    BY <1>2, <2>2 DEF WorkState
  <2> QED
    BY <1>1, <2>3, <2>4
<1>15. CASE LastPage(w)
  <2>1. [work[w] EXCEPT !.pc = "commit"] \in WorkState
    BY <1>2 DEF WorkState
  <2> QED
    BY <1>1, <1>15, <2>1 DEF LastPage
<1>16. CASE Commit(w)
  BY <1>1, <1>4, <1>16 DEF Commit
<1>17. CASE Collides(w) \/ FileFails(w)
  BY <1>1, <1>4, <1>17 DEF Collides, FileFails, RollBackFile
<1>18. CASE Kill(w)
  <2>1. AtRest("idle", {}, {}, 1, NoneTaken) \in WorkState
    BY RestIsWorkState, NoneIsTaken
  <2> QED
    BY <1>1, <1>18, <2>1 DEF Kill
<1> QED
  BY <1>5, <1>6, <1>7, <1>8, <1>9, <1>10, <1>11, <1>12, <1>13, <1>14, <1>15,
     <1>16, <1>17, <1>18 DEF WorkStep

LEMMA NextType ==
    ASSUME TypeOK, \A w \in Workers : Stored(w), [Next]_vars
    PROVE  TypeOK'
<1>1. ASSUME NEW f \in Files, Replace(f) PROVE TypeOK'
  BY <1>1 DEF Replace, TypeOK
<1>2. ASSUME NEW w \in Workers, StartBatch(w) \/ WorkStep(w) \/ FileFails(w) \/ Kill(w)
      PROVE  TypeOK'
  <2>1. work' \in [Workers -> WorkState]
    BY <1>2, OwnType
  <2>2. work[w] \in WorkState /\ Stored(w)
    BY DEF TypeOK
  <2>3. CASE UploadPdf(w)
    <3>1. work[w].file \in Files /\ content[work[w].file] \in Shas
      BY <2>2, <2>3 DEF UploadPdf, Stored, Begun, WorkState, TypeOK
    <3> QED
      BY <2>1, <2>3, <3>1 DEF UploadPdf, TypeOK
  <2>4. CASE UploadPage(w)
    <3>1. work[w].sha \in Shas /\ work[w].image \in Shas
      BY <2>2, <2>4 DEF UploadPage, Stored, Begun, Rendering
    <3>2. [png[work[w].sha] EXCEPT ![work[w].page] = work[w].image]
            \in [Pages -> Shas \cup {NoSha}]
      BY <3>1 DEF TypeOK
    <3>3. png' \in [Shas -> [Pages -> Shas \cup {NoSha}]]
      BY <2>4, <3>1, <3>2 DEF UploadPage, TypeOK
    <3> QED
      BY <2>1, <2>4, <3>3 DEF UploadPage, TypeOK
  <2>5. CASE Commit(w)
    <3>1. /\ work[w].sha \in Shas /\ work[w].text \in Shas
          /\ work[w].file \in Files /\ work[w].rows \in SUBSET Pages
      BY <2>2, <2>5 DEF Commit, Stored, Begun, WorkState
    <3>2. title' \in [Shas -> Files \cup {NoFile}]
      BY <2>5, <3>1 DEF Commit, TypeOK
    <3>3. RowsAfter(w) \in SUBSET Chunk
      BY <3>1 DEF RowsAfter, Chunk, TypeOK
    <3> QED
      BY <2>1, <2>5, <3>2, <3>3 DEF Commit, TypeOK
  <2>6. CASE ~UploadPdf(w) /\ ~UploadPage(w) /\ ~Commit(w)
    <3>1. UNCHANGED <<content, pdf, png, title, chunks>>
      BY <1>2, <2>6 DEF WorkStep, StartBatch, FileFails, Kill, Collides, RollBackFile,
         OpenFile, Parse, SelectDocument, CreateDocument, RetitleDocument, Embed,
         SkipPage, InsertPage, LastPage
    <3> QED
      BY <2>1, <3>1 DEF TypeOK
  <2> QED
    BY <2>3, <2>4, <2>5, <2>6
<1>3. CASE UNCHANGED vars
  BY <1>3 DEF vars, TypeOK
<1> QED
  BY <1>1, <1>2, <1>3 DEF Next

-----------------------------------------------------------------------------
(* What a step does, in the words of the invariant.                        *)

SameFile(s, t) == /\ t.asked = s.asked /\ t.todo = s.todo /\ t.rc = s.rc
                  /\ t.taken = s.taken /\ t.file = s.file /\ t.sha = s.sha
SameText(s, t) == t.text = s.text /\ t.read = s.read
SameRows(s, t) == t.image = s.image /\ t.page = s.page /\ t.rows = s.rows

Rest(t) == /\ t.pc \in {"idle", "open"} /\ t.file = NoFile /\ t.page = 1
           /\ t.rows = {}

LEMMA RestIsRest ==
    ASSUME NEW pc \in {"idle", "open"}, NEW asked, NEW todo, NEW rc,
           NEW taken
    PROVE  Rest(AtRest(pc, asked, todo, rc, taken))
BY DEF Rest, AtRest

LEMMA AfterFileIsRest ==
    ASSUME NEW s, NEW rc
    PROVE  Rest(AfterFile(s, rc))
BY RestIsRest DEF AfterFile

\* The steps that begin or end a file, or the batch.
LEMMA RestFacts ==
    ASSUME TypeOK, NEW w \in Workers,
           StartBatch(w) \/ Commit(w) \/ Collides(w) \/ FileFails(w) \/ Kill(w)
    PROVE  Rest(work'[w])
<1>1. CASE StartBatch(w)
  <2>1. PICK asked \in SUBSET Files : work' = [work EXCEPT ![w] =
            AtRest(IF asked = {} THEN "idle" ELSE "open", asked, asked, 0, NoneTaken)]
    BY <1>1 DEF StartBatch
  <2>2. Rest(AtRest(IF asked = {} THEN "idle" ELSE "open", asked, asked, 0, NoneTaken))
    BY RestIsRest
  <2> QED
    BY <2>1, <2>2 DEF TypeOK
<1>2. CASE Commit(w) \/ Collides(w) \/ FileFails(w)
  BY <1>2, AfterFileIsRest DEF Commit, Collides, FileFails, RollBackFile, TypeOK
<1>3. CASE Kill(w)
  BY <1>3, RestIsRest DEF Kill, TypeOK
<1> QED
  BY <1>1, <1>2, <1>3

LEMMA OpenFacts ==
    ASSUME TypeOK, NEW w \in Workers, OpenFile(w)
    PROVE  \E f \in work[w].todo :
             IF title[content[f]] # NoFile THEN work'[w] = AfterFile(Hashed(w, f), 0)
             ELSE LET s == Hashed(w, f)
                      t == work'[w] IN
                  /\ t.pc = "upload" /\ t.file = f /\ t.sha = content[f]
                  /\ t.asked = s.asked /\ t.rc = s.rc /\ t.todo = s.todo
                  /\ t.taken = s.taken
                  /\ SameText(work[w], t) /\ SameRows(work[w], t)
<1>1. PICK f \in work[w].todo : work' = [work EXCEPT ![w] =
          IF title[content[f]] # NoFile THEN AfterFile(Hashed(w, f), 0)
          ELSE [Hashed(w, f) EXCEPT !.pc = "upload", !.file = f, !.sha = content[f]]]
  BY DEF OpenFile
<1>2. CASE title[content[f]] # NoFile
  BY <1>1, <1>2 DEF TypeOK
<1>3. CASE title[content[f]] = NoFile
  <2> DEFINE s == Hashed(w, f)
  <2>1. work'[w] = [s EXCEPT !.pc = "upload", !.file = f, !.sha = content[f]]
    BY <1>1, <1>3 DEF TypeOK
  <2>2. s \in WorkState /\ work[w] \in WorkState
    BY HashedIsWorkState DEF TypeOK
  <2>3. SameText(work[w], s) /\ SameRows(work[w], s)
    BY <2>2 DEF Hashed, WorkState, SameText, SameRows
  <2> HIDE DEF s
  <2>4. LET t == work'[w] IN
        /\ t.pc = "upload" /\ t.file = f /\ t.sha = content[f]
        /\ t.asked = s.asked /\ t.rc = s.rc /\ t.todo = s.todo
        /\ t.taken = s.taken
        /\ SameText(work[w], t) /\ SameRows(work[w], t)
    BY <2>1, <2>2, <2>3 DEF WorkState, SameText, SameRows
  <2> QED
    BY <1>3, <2>4 DEF s
<1> QED
  BY <1>2, <1>3

\* The steps between them keep most of the record.
LEMMA UploadPdfFacts ==
    ASSUME TypeOK, NEW w \in Workers, NEW s, s = work[w], NEW t, t = work'[w],
           UploadPdf(w)
    PROVE  /\ s.pc = "upload" /\ t.pc = "parse"
           /\ SameFile(s, t) /\ SameText(s, t)
           /\ SameRows(s, t) /\ t.titled = s.titled
<1> USE DEF SameFile, SameText, SameRows
<1>1. s \in WorkState
  BY DEF TypeOK
<1>2. t = [s EXCEPT !.pc = "parse"]
  BY DEF UploadPdf, TypeOK
<1>3. s.pc = "upload"
  BY DEF UploadPdf
<1> QED
  BY <1>1, <1>2, <1>3 DEF WorkState

LEMMA ParseFacts ==
    ASSUME TypeOK, NEW w \in Workers, NEW s, s = work[w], NEW t, t = work'[w],
           Parse(w)
    PROVE  /\ s.pc = "parse" /\ t.pc = "upsert" /\ SameFile(s, t)
           /\ t.text = content[s.file] /\ t.read \in Reads[content[s.file]]
           /\ SameRows(s, t) /\ t.titled = s.titled
<1> USE DEF SameFile, SameText, SameRows
<1>1. s \in WorkState
  BY DEF TypeOK
<1>2. PICK r \in Reads[content[s.file]] :
        t = [s EXCEPT !.pc = "upsert", !.text = content[s.file], !.read = r]
  BY DEF Parse, TypeOK
<1>3. s.pc = "parse"
  BY DEF Parse
<1> QED
  BY <1>1, <1>2, <1>3 DEF WorkState

LEMMA SelectDocumentFacts ==
    ASSUME TypeOK, NEW w \in Workers, NEW s, s = work[w], NEW t, t = work'[w],
           SelectDocument(w)
    PROVE  /\ s.pc = "upsert"
           /\ SameFile(s, t) /\ SameText(s, t)
           /\ SameRows(s, t) /\ t.titled = s.titled
           /\ \/ t.pc = "embed" /\ title[s.sha] = s.file
              \/ t.pc \in {"create", "retitle"}
<1> USE DEF SameFile, SameText, SameRows
<1>1. s \in WorkState
  BY DEF TypeOK
<1> DEFINE pc == CASE title[s.sha] = NoFile -> "create"
                   [] title[s.sha] = s.file -> "embed"
                   [] OTHER -> "retitle"
<1>2. t = [s EXCEPT !.pc = pc]
  BY DEF SelectDocument, TypeOK
<1>3. pc \in {"create", "embed", "retitle"} /\ (pc = "embed" => title[s.sha] = s.file)
  OBVIOUS
<1> HIDE DEF pc
<1>4. s.pc = "upsert"
  BY DEF SelectDocument
<1> QED
  BY <1>1, <1>2, <1>3, <1>4 DEF WorkState

LEMMA WriteDocumentFacts ==
    ASSUME TypeOK, NEW w \in Workers, NEW s, s = work[w], NEW t, t = work'[w],
           CreateDocument(w) \/ RetitleDocument(w)
    PROVE  /\ s.pc \in {"create", "retitle"} /\ t.pc = "embed" /\ t.titled
           /\ SameFile(s, t) /\ SameText(s, t) /\ SameRows(s, t)
<1> USE DEF SameFile, SameText, SameRows
<1>1. s \in WorkState
  BY DEF TypeOK
<1>2. t = [s EXCEPT !.pc = "embed", !.titled = TRUE]
  BY DEF CreateDocument, RetitleDocument, TypeOK
<1>3. s.pc \in {"create", "retitle"}
  BY DEF CreateDocument, RetitleDocument
<1> QED
  BY <1>1, <1>2, <1>3 DEF WorkState

LEMMA EmbedFacts ==
    ASSUME TypeOK, NEW w \in Workers, NEW s, s = work[w], NEW t, t = work'[w],
           Embed(w)
    PROVE  /\ s.pc = "embed" /\ t.pc = "render" /\ t.image = content[s.file]
           /\ SameFile(s, t) /\ SameText(s, t) /\ t.titled = s.titled
           /\ t.page = s.page /\ t.rows = s.rows
<1> USE DEF SameFile, SameText, SameRows
<1>1. s \in WorkState
  BY DEF TypeOK
<1>2. t = [s EXCEPT !.pc = "render", !.image = content[s.file]]
  BY DEF Embed, TypeOK
<1>3. s.pc = "embed"
  BY DEF Embed
<1> QED
  BY <1>1, <1>2, <1>3 DEF WorkState

LEMMA SkipPageFacts ==
    ASSUME TypeOK, NEW w \in Workers, NEW s, s = work[w], NEW t, t = work'[w],
           SkipPage(w)
    PROVE  /\ s.pc = "render" /\ t.pc = "render" /\ t.page = s.page + 1
           /\ SameFile(s, t) /\ SameText(s, t) /\ t.titled = s.titled
           /\ t.image = s.image /\ t.rows = s.rows
<1> USE DEF SameFile, SameText, SameRows
<1>1. s \in WorkState
  BY DEF TypeOK
<1>2. t = [s EXCEPT !.page = s.page + 1]
  BY DEF SkipPage, TypeOK
<1>3. s.pc = "render"
  BY DEF SkipPage
<1> QED
  BY <1>1, <1>2, <1>3 DEF WorkState

LEMMA UploadPageFacts ==
    ASSUME TypeOK, NEW w \in Workers, NEW s, s = work[w], NEW t, t = work'[w],
           UploadPage(w)
    PROVE  /\ s.pc = "render" /\ t.pc = "insert"
           /\ SameFile(s, t) /\ SameText(s, t)
           /\ SameRows(s, t) /\ t.titled = s.titled
<1> USE DEF SameFile, SameText, SameRows
<1>1. s \in WorkState
  BY DEF TypeOK
<1>2. t = [s EXCEPT !.pc = "insert"]
  BY DEF UploadPage, TypeOK
<1>3. s.pc = "render"
  BY DEF UploadPage
<1> QED
  BY <1>1, <1>2, <1>3 DEF WorkState

LEMMA InsertPageFacts ==
    ASSUME TypeOK, NEW w \in Workers, NEW s, s = work[w], NEW t, t = work'[w],
           InsertPage(w)
    PROVE  /\ s.pc = "insert" /\ t.pc = "render" /\ t.page = s.page + 1
           /\ t.rows = s.rows \cup {s.page} /\ t.image = s.image
           /\ SameFile(s, t) /\ SameText(s, t) /\ t.titled = s.titled
<1> USE DEF SameFile, SameText, SameRows
<1>1. s \in WorkState
  BY DEF TypeOK
<1>2. t = [s EXCEPT !.pc = "render", !.page = s.page + 1,
                     !.rows = s.rows \cup {s.page}]
  BY DEF InsertPage, TypeOK
<1>3. s.pc = "insert"
  BY DEF InsertPage
<1> QED
  BY <1>1, <1>2, <1>3 DEF WorkState

LEMMA LastPageFacts ==
    ASSUME TypeOK, NEW w \in Workers, NEW s, s = work[w], NEW t, t = work'[w],
           LastPage(w)
    PROVE  /\ s.pc = "render" /\ t.pc = "commit"
           /\ SameFile(s, t) /\ SameText(s, t)
           /\ SameRows(s, t) /\ t.titled = s.titled
<1> USE DEF SameFile, SameText, SameRows
<1>1. s \in WorkState
  BY DEF TypeOK
<1>2. t = [s EXCEPT !.pc = "commit"]
  BY DEF LastPage, TypeOK
<1>3. s.pc = "render"
  BY DEF LastPage
<1> QED
  BY <1>1, <1>2, <1>3 DEF WorkState

LEMMA AfterFileFacts ==
    ASSUME NEW s, s.rc \in {0, 1}, NEW x \in {0, 1}
    PROVE  LET t == AfterFile(s, x) IN
           /\ t.todo = s.todo
           /\ t.rc = 0 => /\ s.rc = 0 /\ x = 0
                          /\ t.asked = s.asked /\ t.taken = s.taken
           /\ t.pc = "idle" => s.todo = {}
BY DEF AfterFile, AtRest, Status

-----------------------------------------------------------------------------
(* The safety invariant.                                                   *)

\* What is stored or committed is never taken back.
Grows == \A s \in Shas :
           /\ pdf[s] # NoSha => pdf'[s] # NoSha
           /\ title[s] # NoFile => title'[s] # NoFile
           /\ \A n \in Pages : png[s][n] # NoSha => png'[s][n] # NoSha

LEMMA StepGrows ==
    ASSUME TypeOK, \A w \in Workers : Stored(w), [Next]_vars
    PROVE  Grows
<1>1. CASE UNCHANGED <<pdf, png, title>>
  BY <1>1 DEF Grows
<1>2. ASSUME NEW w \in Workers, UploadPdf(w) PROVE Grows
  <2>1. content[work[w].file] \in Shas
    BY <1>2 DEF UploadPdf, Stored, Begun, TypeOK, WorkState
  <2> QED
    BY <1>2, <2>1, ShasAssumption DEF UploadPdf, Grows, TypeOK
<1>3. ASSUME NEW w \in Workers, UploadPage(w) PROVE Grows
  <2>1. work[w].image \in Shas /\ work[w].sha \in Shas
    BY <1>3 DEF UploadPage, Stored, Begun, Rendering
  <2> QED
    BY <1>3, <2>1, ShasAssumption DEF UploadPage, Grows, TypeOK
<1>4. ASSUME NEW w \in Workers, Commit(w) PROVE Grows
  <2>1. work[w].file # NoFile
    BY <1>4 DEF Commit, Stored, Begun
  <2> QED
    BY <1>4, <2>1 DEF Commit, Grows, TypeOK
<1>5. ASSUME NEW w \in Workers, StartBatch(w) \/ WorkStep(w) \/ FileFails(w) \/ Kill(w)
      PROVE  \/ UNCHANGED <<pdf, png, title>>
             \/ UploadPdf(w) \/ UploadPage(w) \/ Commit(w)
  BY <1>5 DEF WorkStep, StartBatch, FileFails, Kill, Collides, RollBackFile,
     OpenFile, Parse, SelectDocument, CreateDocument, RetitleDocument, Embed,
     SkipPage, InsertPage, LastPage
<1>6. ASSUME NEW f \in Files, Replace(f) PROVE Grows
  BY <1>6, <1>1 DEF Replace
<1> QED
  BY <1>1, <1>2, <1>3, <1>4, <1>5, <1>6 DEF Next, vars

\* A worker that does not move keeps what it knows.
LEMMA OthersKeep ==
    ASSUME TypeOK, TypeOK', Grows, NEW v \in Workers, Stored(v), Titled(v),
           work'[v] = work[v]
    PROVE  Stored(v)' /\ Titled(v)'
<1>1. work[v] \in WorkState
  BY DEF TypeOK
<1>2. \A n \in work[v].rows : n \in Pages
  BY <1>1 DEF WorkState
<1>3. work[v].rows # {} \/ work[v].pc \in Begun => work[v].sha \in Shas
  BY DEF Stored, Begun, Rendering
<1>4. Stored(v)'
  BY <1>2, <1>3 DEF Stored, Grows, Begun, Rendering
<1>5. Titled(v)'
  BY <1>3 DEF Titled, Stored, Grows, Begun, Rendering
<1> QED
  BY <1>4, <1>5

LEMMA RestKnows ==
    ASSUME NEW w \in Workers, Rest(work'[w])
    PROVE  Stored(w)' /\ Titled(w)'
BY DEF Rest, Stored, Titled, Begun, Rendering

LEMMA MoverKeeps ==
    ASSUME TypeOK, TypeOK', Grows, NEW w \in Workers, Stored(w), Titled(w),
           StartBatch(w) \/ WorkStep(w) \/ FileFails(w) \/ Kill(w)
    PROVE  Stored(w)' /\ Titled(w)'
<1>1. work[w] \in WorkState /\ work'[w] \in WorkState
  BY DEF TypeOK
<1>2. /\ work[w].rows \subseteq Pages
      /\ work[w].pc \in Begun => work[w].file \in Files
  BY <1>1 DEF WorkState, Stored
<1> USE DEF SameFile, SameText, SameRows, Begun, Rendering
<1>3. CASE StartBatch(w) \/ Commit(w) \/ Collides(w) \/ FileFails(w) \/ Kill(w)
  BY <1>3, RestFacts, RestKnows
<1>4. CASE OpenFile(w)
  <2>1. PICK f \in work[w].todo :
           IF title[content[f]] # NoFile THEN work'[w] = AfterFile(Hashed(w, f), 0)
           ELSE /\ work'[w].pc = "upload" /\ work'[w].file = f
                /\ work'[w].sha = content[f]
                /\ SameText(work[w], work'[w]) /\ SameRows(work[w], work'[w])
    BY <1>4, OpenFacts
  <2>2. CASE title[content[f]] # NoFile
    BY <2>1, <2>2, AfterFileIsRest, RestKnows
  <2>3. CASE title[content[f]] = NoFile
    <3>1. f \in Files /\ content[f] \in Shas /\ f # NoFile
      BY <1>1, FilesAssumption DEF TypeOK, WorkState
    <3>2. work[w].rows = {}
      BY <1>4 DEF OpenFile, Stored
    <3> QED
      BY <2>1, <2>3, <3>1, <3>2 DEF Stored, Titled
  <2> QED
    BY <2>2, <2>3
<1>5. CASE UploadPdf(w)
  <2>1. content[work[w].file] \in Shas /\ work[w].sha \in Shas
    BY <1>2, <1>5 DEF UploadPdf, Stored, TypeOK
  <2>2. pdf'[work[w].sha] # NoSha
    BY <1>5, <2>1, ShasAssumption DEF UploadPdf, TypeOK
  <2> QED
    BY <1>5, <2>1, <2>2, UploadPdfFacts DEF Stored, Titled
<1>6. CASE Parse(w)
  <2>1. content[work[w].file] \in Shas /\ pdf' = pdf
    BY <1>2, <1>6 DEF Parse, TypeOK
  <2> QED
    BY <1>6, <2>1, ParseFacts DEF Stored, Titled
<1>7. CASE SelectDocument(w)
  <2>1. UNCHANGED <<pdf, title, png>>
    BY <1>7 DEF SelectDocument
  <2> QED
    BY <1>7, <2>1, SelectDocumentFacts DEF Stored, Titled
<1>8. CASE CreateDocument(w) \/ RetitleDocument(w)
  <2>1. UNCHANGED <<pdf, title, png>>
    BY <1>8 DEF CreateDocument, RetitleDocument
  <2>2. /\ work[w].pc \in {"create", "retitle"}
        /\ work'[w].pc = "embed" /\ work'[w].titled
        /\ SameFile(work[w], work'[w]) /\ SameText(work[w], work'[w])
        /\ SameRows(work[w], work'[w])
    BY <1>8, WriteDocumentFacts
  <2>3. Stored(w)'
    BY <2>1, <2>2 DEF Stored
  <2> QED
    BY <2>2, <2>3 DEF Titled
<1>9. CASE Embed(w)
  <2>1. content[work[w].file] \in Shas /\ UNCHANGED <<pdf, title, png>>
    BY <1>2, <1>9 DEF Embed, TypeOK
  <2> QED
    BY <1>9, <2>1, EmbedFacts DEF Stored, Titled
<1>10. CASE SkipPage(w)
  <2>1. UNCHANGED <<pdf, title, png>>
    BY <1>10 DEF SkipPage
  <2> QED
    BY <1>10, <2>1, SkipPageFacts DEF Stored, Titled
<1>11. CASE UploadPage(w)
  <2>1. /\ work[w].image \in Shas /\ work[w].sha \in Shas
        /\ work[w].page \in 1 .. PageCount[work[w].image]
        /\ UNCHANGED <<pdf, title>>
    BY <1>11 DEF UploadPage, Stored
  <2>2. work[w].page \in Pages
    BY <2>1, RenderedIsPage
  <2>3. png'[work[w].sha][work[w].page] # NoSha
    BY <1>11, <2>1, <2>2, ShasAssumption DEF UploadPage, TypeOK
  <2>4. \A n \in work[w].rows : png'[work[w].sha][n] # NoSha
    BY <1>2, <2>1 DEF Stored, Grows
  <2> QED
    BY <1>11, <2>1, <2>2, <2>3, <2>4, UploadPageFacts DEF Stored, Titled
<1>12. CASE InsertPage(w)
  <2>1. UNCHANGED <<pdf, title, png>>
    BY <1>12 DEF InsertPage
  <2> QED
    BY <1>12, <2>1, InsertPageFacts DEF Stored, Titled
<1>13. CASE LastPage(w)
  <2>1. UNCHANGED <<pdf, title, png>>
    BY <1>13 DEF LastPage
  <2> QED
    BY <1>13, <2>1, LastPageFacts DEF Stored, Titled
<1> QED
  BY <1>3, <1>4, <1>5, <1>6, <1>7, <1>8, <1>9, <1>10, <1>11, <1>12, <1>13 DEF WorkStep

\* Which rows a step can add to a worker, and that the hash stays while there
\* are some.
LEMMA RowsFacts ==
    ASSUME TypeOK, NEW w \in Workers, Stored(w),
           StartBatch(w) \/ WorkStep(w) \/ FileFails(w) \/ Kill(w)
    PROVE  \/ work'[w].rows = {}
           \/ work'[w].rows = work[w].rows /\ work'[w].sha = work[w].sha
           \/ /\ InsertPage(w) /\ work'[w].sha = work[w].sha
              /\ work'[w].rows = work[w].rows \cup {work[w].page}
<1> USE DEF SameFile, SameRows
<1>1. CASE StartBatch(w) \/ Commit(w) \/ Collides(w) \/ FileFails(w) \/ Kill(w)
  BY <1>1, RestFacts DEF Rest
<1>2. CASE OpenFile(w)
  <2>1. \/ work'[w].rows = work[w].rows
        \/ \E left : work'[w] = AfterFile(left, 0)
    BY <1>2, OpenFacts
  <2>2. work[w].rows = {}
    BY <1>2 DEF OpenFile, Stored, Rendering
  <2> QED
    BY <2>1, <2>2, AfterFileIsRest DEF Rest
<1>3. CASE UploadPdf(w) \/ Parse(w) \/ SelectDocument(w)
  BY <1>3, UploadPdfFacts, ParseFacts, SelectDocumentFacts
<1>4. CASE CreateDocument(w) \/ RetitleDocument(w)
  BY <1>4, WriteDocumentFacts
<1>5. CASE Embed(w) \/ SkipPage(w)
  BY <1>5, EmbedFacts, SkipPageFacts
<1>6. CASE UploadPage(w) \/ LastPage(w)
  BY <1>6, UploadPageFacts, LastPageFacts
<1>7. CASE InsertPage(w)
  BY <1>7, InsertPageFacts
<1> QED
  BY <1>1, <1>2, <1>3, <1>4, <1>5, <1>6, <1>7 DEF WorkStep

\* The pages of a document after a step: those a commit adds were the worker's.
PagesThen(s) == {k.page : k \in chunks'[s]}
PagesAfter(w) ==
    \A s \in Shas :
      PagesThen(s) = PagesOf(s) \cup
        (IF Commit(w) /\ s = work[w].sha THEN work[w].rows ELSE {})

LEMMA ChunksFacts ==
    ASSUME TypeOK, NEW w \in Workers, Stored(w),
           StartBatch(w) \/ WorkStep(w) \/ FileFails(w) \/ Kill(w)
    PROVE  /\ PagesAfter(w)
           /\ ~Commit(w) => UNCHANGED <<title, chunks>>
<1>1. CASE Commit(w)
  <2>1. work[w].sha \in Shas
    BY <1>1 DEF Commit, Stored, Begun
  <2>2. chunks' = [chunks EXCEPT ![work[w].sha] = RowsAfter(w)]
    BY <1>1 DEF Commit
  <2>3. \A s \in Shas : chunks'[s] = IF s = work[w].sha THEN RowsAfter(w) ELSE chunks[s]
    BY <2>1, <2>2 DEF TypeOK
  <2>4. {k.page : k \in RowsAfter(w)} = PagesOf(work[w].sha) \cup work[w].rows
    <3> DEFINE row(n) == [page |-> n, of |-> work[w].text]
    <3>1. RowsAfter(w) = chunks[work[w].sha] \cup {row(n) : n \in work[w].rows}
      BY DEF RowsAfter
    <3>2. \A n : row(n).page = n
      OBVIOUS
    <3> HIDE DEF row
    <3>3. ASSUME NEW k \in RowsAfter(w)
          PROVE  k.page \in PagesOf(work[w].sha) \cup work[w].rows
      BY <3>1, <3>2 DEF PagesOf
    <3>4. ASSUME NEW n \in PagesOf(work[w].sha) \cup work[w].rows
          PROVE  \E k \in RowsAfter(w) : k.page = n
      BY <3>1, <3>2 DEF PagesOf
    <3> QED
      BY <3>3, <3>4
  <2> QED
    BY <1>1, <2>3, <2>4 DEF PagesAfter, PagesOf, PagesThen
<1>2. CASE ~Commit(w)
  <2>1. UNCHANGED <<title, chunks>>
    BY <1>2 DEF WorkStep, StartBatch, FileFails, Kill, Collides, RollBackFile,
       OpenFile, UploadPdf, Parse, SelectDocument, CreateDocument, RetitleDocument,
       Embed, SkipPage, UploadPage, InsertPage, LastPage
  <2> QED
    BY <1>2, <2>1 DEF PagesAfter, PagesOf, PagesThen
<1> QED
  BY <1>1, <1>2

\* No two workers come to hold the row of one page, nor one that is there.
LEMMA StepHoldsAlone ==
    ASSUME TypeOK, NEW w \in Workers,
           \A v \in Workers : Stored(v) /\ HoldsAlone(v),
           StartBatch(w) \/ WorkStep(w) \/ FileFails(w) \/ Kill(w)
    PROVE  \A v \in Workers : HoldsAlone(v)'
<1>1. \A v \in Workers \ {w} : work'[v] = work[v]
  BY OwnType
<1>2. \A v \in Workers : work[v].rows # {} => work[v].sha \in Shas
  BY DEF Stored, Rendering, Begun
<1>3. PagesAfter(w)
  BY ChunksFacts
<1>4. InsertPage(w) =>
        /\ work[w].page \notin PagesOf(work[w].sha)
        /\ \A v \in Workers \ {w} :
             work[v].sha = work[w].sha => work[w].page \notin work[v].rows
        /\ work[w].sha \in Shas /\ ~Commit(w)
  BY DEF InsertPage, Commit, OthersInserted, Stored, Begun
<1>5. Commit(w) => work'[w].rows = {}
  BY RestFacts DEF Rest
<1>6. \/ work'[w].rows = {}
      \/ work'[w].rows = work[w].rows /\ work'[w].sha = work[w].sha
      \/ /\ InsertPage(w) /\ work'[w].sha = work[w].sha
         /\ work'[w].rows = work[w].rows \cup {work[w].page}
  BY RowsFacts
<1>7. ASSUME NEW n \in work'[w].rows
      PROVE  /\ n \notin PagesThen(work'[w].sha)
             /\ \A v \in Workers \ {w} :
                  work'[v].sha = work'[w].sha => n \notin work'[v].rows
  <2>1. /\ work'[w].sha = work[w].sha /\ ~Commit(w)
        /\ n \in work[w].rows \/ (InsertPage(w) /\ n = work[w].page)
    BY <1>5, <1>6
  <2>2. work[w].sha \in Shas
    BY <1>2, <1>4, <2>1
  <2>3. PagesThen(work'[w].sha) = PagesOf(work[w].sha)
    BY <1>3, <2>1, <2>2 DEF PagesAfter
  <2> QED
    BY <1>1, <1>4, <2>1, <2>3 DEF HoldsAlone
<1>8. ASSUME NEW v \in Workers \ {w}, NEW n \in work'[v].rows
      PROVE  /\ n \notin PagesThen(work'[v].sha)
             /\ \A u \in Workers \ {v} :
                  work'[u].sha = work'[v].sha => n \notin work'[u].rows
  <2>1. work'[v] = work[v] /\ n \in work[v].rows /\ work[v].sha \in Shas
    BY <1>1, <1>2
  <2>2. n \notin PagesThen(work[v].sha)
    BY <1>3, <2>1 DEF PagesAfter, HoldsAlone
  <2>3. ASSUME NEW u \in Workers \ {v}, work'[u].sha = work[v].sha
        PROVE  n \notin work'[u].rows
    BY <1>1, <1>4, <1>6, <2>1, <2>3 DEF HoldsAlone
  <2> QED
    BY <2>1, <2>2, <2>3
<1> QED
  BY <1>7, <1>8 DEF HoldsAlone, PagesOf, PagesThen

\* A commit makes visible only pages whose image is there, of a PDF that is
\* there, together with the document they belong to.
LEMMA CommitFacts ==
    ASSUME TypeOK, NEW w \in Workers, Stored(w), Titled(w), Commit(w)
    PROVE  LET s == work[w].sha IN
           /\ s \in Shas /\ title'[s] # NoFile /\ pdf[s] # NoSha
           /\ \A n \in work[w].rows : n \in Pages /\ png[s][n] # NoSha
           /\ \A d \in Shas \ {s} : title'[d] = title[d] /\ chunks'[d] = chunks[d]
           /\ chunks'[s] = RowsAfter(w)
           /\ UNCHANGED <<content, pdf, png>>
<1>1. /\ work[w] \in WorkState /\ work[w].pc = "commit"
  BY DEF TypeOK, Commit
<1>2. /\ work[w].sha \in Shas /\ work[w].file # NoFile /\ pdf[work[w].sha] # NoSha
      /\ work[w].titled \/ title[work[w].sha] # NoFile
      /\ \A n \in work[w].rows : png[work[w].sha][n] # NoSha
  BY <1>1 DEF Stored, Titled, Begun, Rendering
<1>3. work[w].rows \subseteq Pages
  BY <1>1 DEF WorkState
<1>4. title' = [title EXCEPT ![work[w].sha] = IF work[w].titled THEN work[w].file
                                              ELSE title[work[w].sha]]
  BY DEF Commit
<1>5. /\ title'[work[w].sha] = IF work[w].titled THEN work[w].file
                               ELSE title[work[w].sha]
      /\ \A d \in Shas \ {work[w].sha} : title'[d] = title[d]
  BY <1>2, <1>4 DEF TypeOK
<1>6. title'[work[w].sha] # NoFile
  BY <1>2, <1>5
<1>7. /\ chunks'[work[w].sha] = RowsAfter(w)
      /\ \A d \in Shas \ {work[w].sha} : chunks'[d] = chunks[d]
      /\ UNCHANGED <<content, pdf, png>>
  BY <1>2 DEF Commit, TypeOK
<1> QED
  BY <1>2, <1>3, <1>5, <1>6, <1>7

LEMMA StepShowable ==
    ASSUME SafeInv, TypeOK', [Next]_vars, Grows
    PROVE  PagesCanBeShown' /\ ChunksHaveDocuments'
<1>1. CASE UNCHANGED <<title, chunks>>
  <2>1. \A s \in Shas : \A k \in chunks[s] : k.page \in Pages
    BY DEF SafeInv, TypeOK, Chunk
  <2>2. PagesCanBeShown'
    BY <1>1, <2>1 DEF SafeInv, PagesCanBeShown, Grows
  <2> QED
    BY <1>1, <2>2 DEF SafeInv, ChunksHaveDocuments, docs
<1>2. ASSUME NEW w \in Workers, Commit(w)
      PROVE  PagesCanBeShown' /\ ChunksHaveDocuments'
  <2> DEFINE s == work[w].sha
  <2>1. /\ s \in Shas /\ title'[s] # NoFile /\ pdf[s] # NoSha
        /\ \A n \in work[w].rows : n \in Pages /\ png[s][n] # NoSha
        /\ \A d \in Shas \ {s} : title'[d] = title[d] /\ chunks'[d] = chunks[d]
        /\ chunks'[s] = RowsAfter(w)
        /\ UNCHANGED <<content, pdf, png>>
    BY <1>2, CommitFacts DEF SafeInv
  <2>2. \A k \in RowsAfter(w) : k \in chunks[s] \/ k.page \in work[w].rows
    BY DEF RowsAfter
  <2> HIDE DEF s
  <2>3. PagesCanBeShown'
    BY <2>1, <2>2 DEF SafeInv, PagesCanBeShown
  <2>4. ChunksHaveDocuments'
    BY <2>1 DEF SafeInv, ChunksHaveDocuments, docs
  <2> QED
    BY <2>3, <2>4
<1>3. ASSUME NEW w \in Workers, StartBatch(w) \/ WorkStep(w) \/ FileFails(w) \/ Kill(w)
      PROVE  Commit(w) \/ UNCHANGED <<title, chunks>>
  BY <1>3, ChunksFacts DEF SafeInv
<1>4. ASSUME NEW f \in Files, Replace(f) PROVE UNCHANGED <<title, chunks>>
  BY <1>4 DEF Replace
<1> QED
  BY <1>1, <1>2, <1>3, <1>4 DEF Next, vars

-----------------------------------------------------------------------------
(* The status of a batch.                                                  *)

LEMMA OthersDone ==
    ASSUME docs \subseteq docs', NEW v \in Workers, DoneIsIndexed(v),
           work'[v] = work[v]
    PROVE  DoneIsIndexed(v)'
BY DEF DoneIsIndexed

\* A step within a file leaves the batch as it is.
LEMMA SameFileDone ==
    ASSUME docs \subseteq docs', NEW w \in Workers, DoneIsIndexed(w),
           SameFile(work[w], work'[w]), work'[w].pc # "idle"
    PROVE  DoneIsIndexed(w)'
BY DEF DoneIsIndexed, SameFile

\* A file that ends well is indexed, and so is what came before it.
LEMMA AfterFileDone ==
    ASSUME NEW w \in Workers,
           NEW s, s.asked \subseteq Files, s.todo \subseteq Files, s.rc \in {0, 1},
           NEW x \in {0, 1}, work'[w] = AfterFile(s, x),
           s.rc = 0 /\ x = 0 => \A f \in s.asked \ s.todo : s.taken[f] \in docs'
    PROVE  DoneIsIndexed(w)'
<1>1. /\ work'[w].todo = s.todo
      /\ work'[w].rc = 0 => /\ s.rc = 0 /\ x = 0
                            /\ work'[w].asked = s.asked /\ work'[w].taken = s.taken
      /\ work'[w].pc = "idle" => s.todo = {}
  BY AfterFileFacts
<1>2. work'[w].file = NoFile
  BY AfterFileIsRest DEF Rest
<1> QED
  BY <1>1, <1>2, FilesAssumption DEF DoneIsIndexed

LEMMA MoverIsDone ==
    ASSUME TypeOK, docs \subseteq docs', NEW w \in Workers,
           Stored(w), Titled(w), DoneIsIndexed(w),
           StartBatch(w) \/ WorkStep(w) \/ FileFails(w) \/ Kill(w)
    PROVE  DoneIsIndexed(w)'
<1>1. work[w] \in WorkState
  BY DEF TypeOK
<1>2. /\ work[w].asked \subseteq Files /\ work[w].todo \subseteq Files
      /\ work[w].rc \in {0, 1}
  BY <1>1 DEF WorkState
<1>3. CASE StartBatch(w)
  <2>1. PICK asked \in SUBSET Files : work' = [work EXCEPT ![w] =
            AtRest(IF asked = {} THEN "idle" ELSE "open", asked, asked, 0, NoneTaken)]
    BY <1>3 DEF StartBatch
  <2>2. work'[w] = AtRest(IF asked = {} THEN "idle" ELSE "open", asked, asked, 0,
                          NoneTaken)
    BY <2>1 DEF TypeOK
  <2>3. /\ work'[w].asked = asked /\ work'[w].todo = asked /\ work'[w].file = NoFile
        /\ work'[w].pc = "idle" => asked = {}
    BY <2>2 DEF AtRest
  <2> QED
    BY <2>1, <2>3, FilesAssumption DEF DoneIsIndexed
<1>4. CASE OpenFile(w)
  <2>1. PICK f \in work[w].todo :
           IF title[content[f]] # NoFile THEN work'[w] = AfterFile(Hashed(w, f), 0)
           ELSE LET s == Hashed(w, f)
                    t == work'[w] IN
                /\ t.pc = "upload" /\ t.file = f /\ t.sha = content[f]
                /\ t.asked = s.asked /\ t.rc = s.rc /\ t.todo = s.todo
                /\ t.taken = s.taken
    BY <1>4, OpenFacts
  <2> DEFINE s == Hashed(w, f)
  <2>2. /\ s.asked = work[w].asked /\ s.rc = work[w].rc
        /\ s.todo = work[w].todo \ {f} /\ s.taken[f] = content[f]
        /\ \A g \in Files \ {f} : s.taken[g] = work[w].taken[g]
        /\ f \in Files /\ content[f] \in Shas
    BY HashedIsWorkState
  <2>3. work[w].rc = 0 =>
          \A g \in work[w].asked \ work[w].todo : work[w].taken[g] \in docs'
    <3>1. work[w].file = NoFile
      BY <1>4 DEF OpenFile, Stored, Begun
    <3> QED
      BY <1>2, <3>1, FilesAssumption DEF DoneIsIndexed
  <2>4. s.rc = 0 => \A g \in s.asked \ s.todo : g = f \/ s.taken[g] \in docs'
    BY <1>2, <2>2, <2>3
  <2> HIDE DEF s
  <2>5. CASE title[content[f]] # NoFile
    <3>1. content[f] \in docs
      BY <2>2, <2>5 DEF docs
    <3>2. work'[w] = AfterFile(s, 0)
      BY <2>1, <2>5 DEF s
    <3> QED
      BY <1>2, <2>2, <2>4, <3>1, <3>2, AfterFileDone
  <2>6. CASE title[content[f]] = NoFile
    <3>1. /\ work'[w].pc = "upload" /\ work'[w].file = f
          /\ work'[w].sha = content[f]
          /\ work'[w].asked = s.asked /\ work'[w].rc = s.rc
          /\ work'[w].todo = s.todo /\ work'[w].taken = s.taken
      BY <2>1, <2>6 DEF s
    <3> QED
      BY <2>2, <2>4, <3>1 DEF DoneIsIndexed
  <2> QED
    BY <2>5, <2>6
<1>5. CASE Commit(w)
  <2>1. /\ work'[w] = AfterFile(work[w], 0) /\ work[w].pc = "commit"
    BY <1>5 DEF Commit, TypeOK
  <2>2. work[w].sha \in docs' /\ work[w].file # NoFile
    BY <1>5, <2>1, CommitFacts DEF Stored, Begun, docs
  <2>3. work[w].rc = 0 =>
          \A g \in work[w].asked \ work[w].todo : work[w].taken[g] \in docs'
    BY <2>2 DEF DoneIsIndexed
  <2> QED
    BY <1>2, <2>1, <2>3, AfterFileDone
<1>6. CASE Collides(w) \/ FileFails(w)
  <2>1. work'[w] = AfterFile(work[w], 1)
    BY <1>6 DEF Collides, FileFails, RollBackFile, TypeOK
  <2> QED
    BY <1>2, <2>1, AfterFileDone
<1>7. CASE Kill(w)
  <2>1. work'[w] = AtRest("idle", {}, {}, 1, NoneTaken)
    BY <1>7 DEF Kill, TypeOK
  <2> QED
    BY <2>1 DEF AtRest, DoneIsIndexed
<1>8. CASE UploadPdf(w) \/ Parse(w) \/ SelectDocument(w)
  BY <1>8, SameFileDone, UploadPdfFacts, ParseFacts, SelectDocumentFacts
<1>9. CASE CreateDocument(w) \/ RetitleDocument(w)
  BY <1>9, SameFileDone, WriteDocumentFacts
<1>10. CASE Embed(w) \/ SkipPage(w) \/ UploadPage(w)
  BY <1>10, SameFileDone, EmbedFacts, SkipPageFacts, UploadPageFacts
<1>11. CASE InsertPage(w) \/ LastPage(w)
  BY <1>11, SameFileDone, InsertPageFacts, LastPageFacts
<1> QED
  BY <1>3, <1>4, <1>5, <1>6, <1>7, <1>8, <1>9, <1>10, <1>11 DEF WorkStep

-----------------------------------------------------------------------------
(* Whatever happens to the files.                                          *)

LEMMA InitSafe == Init => SafeInv
<1> SUFFICES ASSUME Init PROVE SafeInv
  OBVIOUS
<1>1. TypeOK
  BY InitType
<1>2. PagesCanBeShown /\ ChunksHaveDocuments
  BY DEF Init, PagesCanBeShown, ChunksHaveDocuments
<1>3. ASSUME NEW w \in Workers
      PROVE  Stored(w) /\ Titled(w) /\ HoldsAlone(w) /\ DoneIsIndexed(w)
  BY DEF Init, AtRest, Stored, Titled, HoldsAlone, DoneIsIndexed, Begun, Rendering
<1> QED
  BY <1>1, <1>2, <1>3 DEF SafeInv

LEMMA StepSafe ==
    ASSUME SafeInv, [Next]_vars
    PROVE  SafeInv'
<1>1. /\ TypeOK
      /\ \A w \in Workers :
           Stored(w) /\ Titled(w) /\ HoldsAlone(w) /\ DoneIsIndexed(w)
  BY DEF SafeInv
<1>2. TypeOK'
  BY <1>1, NextType
<1>3. Grows /\ docs \subseteq docs'
  BY <1>1, StepGrows DEF Grows, docs
<1>4. PagesCanBeShown' /\ ChunksHaveDocuments'
  BY <1>2, <1>3, StepShowable
<1>5. CASE UNCHANGED <<work, chunks>>
  <2>1. \A w \in Workers : Stored(w)' /\ Titled(w)'
    BY <1>1, <1>2, <1>3, <1>5, OthersKeep
  <2>2. \A w \in Workers : HoldsAlone(w)'
    BY <1>1, <1>5 DEF HoldsAlone, PagesOf
  <2>3. \A w \in Workers : DoneIsIndexed(w)'
    BY <1>1, <1>3, <1>5, OthersDone
  <2> QED
    BY <1>2, <1>4, <2>1, <2>2, <2>3 DEF SafeInv
<1>6. ASSUME NEW w \in Workers, StartBatch(w) \/ WorkStep(w) \/ FileFails(w) \/ Kill(w)
      PROVE  SafeInv'
  <2>1. \A v \in Workers \ {w} : work'[v] = work[v]
    BY <1>1, <1>6, OwnType
  <2>2. Stored(w)' /\ Titled(w)'
    BY <1>1, <1>2, <1>3, <1>6, MoverKeeps
  <2>3. \A v \in Workers \ {w} : Stored(v)' /\ Titled(v)'
    BY <1>1, <1>2, <1>3, <2>1, OthersKeep
  <2>4. \A v \in Workers : HoldsAlone(v)'
    BY <1>1, <1>6, StepHoldsAlone
  <2>5. \A v \in Workers : DoneIsIndexed(v)'
    BY <1>1, <1>3, <1>6, <2>1, OthersDone, MoverIsDone
  <2> QED
    BY <1>2, <1>4, <2>2, <2>3, <2>4, <2>5 DEF SafeInv
<1>7. ASSUME NEW f \in Files, Replace(f) PROVE UNCHANGED <<work, chunks>>
  BY <1>7 DEF Replace
<1> QED
  BY <1>5, <1>6, <1>7 DEF Next, vars

LEMMA Safety == Spec => []SafeInv
BY InitSafe, StepSafe, PTL DEF Spec

\* For any number of workers, files, contents and pages, and even if files are
\* overwritten during their ingest, every state is well typed.
THEOREM TypeCorrect == Spec => []TypeOK
<1>1. SafeInv => TypeOK
  BY DEF SafeInv
<1> QED
  BY <1>1, Safety, PTL

\* ... and a committed page has its image and its PDF in the bucket.
THEOREM CommittedCanBeShown == Spec => []PagesCanBeShown
<1>1. SafeInv => PagesCanBeShown
  BY DEF SafeInv
<1> QED
  BY <1>1, Safety, PTL

\* ... and a batch that ends with status 0 has hashed every file of it, and the
\* document of each of these hashes is there.
THEOREM ZeroIsHonest == Spec => []ZeroMeansIndexed
<1>1. SafeInv => ZeroMeansIndexed
  <2> SUFFICES ASSUME SafeInv, NEW w \in Workers, work[w].pc = "idle",
                      work[w].rc = 0, NEW f \in work[w].asked
               PROVE  work[w].taken[f] \in docs
    BY DEF ZeroMeansIndexed
  <2>1. work[w].file = NoFile /\ f # NoFile
    BY FilesAssumption DEF SafeInv, TypeOK, WorkState, Stored, Begun
  <2> QED
    BY <2>1 DEF SafeInv, DoneIsIndexed
<1> QED
  BY <1>1, Safety, PTL

-----------------------------------------------------------------------------
(* As long as no file is overwritten while an ingest has it in hand.       *)

Moves(w) == StartBatch(w) \/ WorkStep(w) \/ FileFails(w) \/ Kill(w)

LEMMA MovesKeepContent ==
    ASSUME NEW w \in Workers, Moves(w)
    PROVE  content' = content
BY DEF Moves, WorkStep, StartBatch, FileFails, Kill, Collides,
   RollBackFile, OpenFile, UploadPdf, Parse, SelectDocument, CreateDocument,
   RetitleDocument, Embed, SkipPage, UploadPage, InsertPage, LastPage, Commit

\* The file a worker has in hand is not the one that is overwritten.
LEMMA ContentInHandStays ==
    ASSUME ~Replaceable, NEW f \in Files, Replace(f), NEW w \in Workers,
           TypeOK, Faithful(w)
    PROVE  Faithful(w)'
<1>1. /\ work[w].file # f /\ work' = work
      /\ \E s \in Shas : content' = [content EXCEPT ![f] = s]
  BY DEF Replace
<1>2. work[w].pc \in Begun => content'[work[w].file] = content[work[w].file]
  BY <1>1 DEF TypeOK
<1> QED
  BY <1>1, <1>2 DEF Faithful

-----------------------------------------------------------------------------
(* The worker that moves.                                                  *)

LEMMA RestIsFaithful ==
    ASSUME NEW w \in Workers, Rest(work'[w])
    PROVE  Faithful(w)'
BY DEF Rest, Faithful, Begun, Rendering

LEMMA MoverIsFaithful ==
    ASSUME TypeOK, content' = content, NEW w \in Workers, Stored(w), Faithful(w),
           Moves(w)
    PROVE  Faithful(w)'
<1>1. work[w] \in WorkState
  BY DEF TypeOK
<1>2. /\ work[w].page \in Nat
      /\ work[w].pc \in Begun => work[w].file \in Files
  BY <1>1 DEF WorkState, Stored
<1> USE DEF SameFile, SameText, SameRows, Begun, Rendering
<1>3. CASE StartBatch(w) \/ Commit(w) \/ Collides(w) \/ FileFails(w) \/ Kill(w)
  BY <1>3, RestFacts, RestIsFaithful
<1>4. CASE OpenFile(w)
  <2>1. PICK f \in work[w].todo :
           IF title[content[f]] # NoFile THEN work'[w] = AfterFile(Hashed(w, f), 0)
           ELSE /\ work'[w].pc = "upload" /\ work'[w].file = f
                /\ work'[w].sha = content[f]
                /\ SameText(work[w], work'[w]) /\ SameRows(work[w], work'[w])
    BY <1>4, OpenFacts
  <2>2. CASE title[content[f]] # NoFile
    BY <2>1, <2>2, AfterFileIsRest, RestIsFaithful
  <2>3. CASE title[content[f]] = NoFile
    <3>1. work[w].page = 1
      BY <1>4 DEF OpenFile, Faithful
    <3> QED
      BY <2>1, <2>3, <3>1 DEF Faithful
  <2> QED
    BY <2>2, <2>3
<1>5. CASE UploadPdf(w)
  BY <1>5, UploadPdfFacts DEF Faithful
<1>6. CASE Parse(w)
  BY <1>6, ParseFacts DEF Faithful
<1>7. CASE SelectDocument(w)
  BY <1>7, SelectDocumentFacts DEF Faithful
<1>8. CASE CreateDocument(w) \/ RetitleDocument(w)
  BY <1>8, WriteDocumentFacts DEF Faithful
<1>9. CASE Embed(w)
  <2>1. work[w].rows = {} /\ work[w].page = 1
    BY <1>9 DEF Embed, Stored, Faithful
  <2> QED
    BY <1>9, <2>1, EmbedFacts DEF Faithful
<1>10. CASE SkipPage(w)
  <2>1. /\ work[w].page \notin work[w].read
        /\ work[w].rows = work[w].read \cap (1 .. work[w].page - 1)
    BY <1>10 DEF SkipPage, Faithful
  <2>2. work[w].rows = work[w].read \cap (1 .. work[w].page + 1 - 1)
    BY <1>2, <2>1
  <2>3. /\ work[w].pc = "render" /\ work'[w].pc = "render"
        /\ SameFile(work[w], work'[w]) /\ SameText(work[w], work'[w])
        /\ work'[w].page = work[w].page + 1
        /\ work'[w].image = work[w].image /\ work'[w].rows = work[w].rows
    BY <1>10, SkipPageFacts
  <2>4. work'[w].rows = work'[w].read \cap (1 .. work'[w].page - 1)
    BY <1>2, <2>2, <2>3
  <2>5. /\ work'[w].sha = content'[work'[w].file]
        /\ work'[w].text = work'[w].sha /\ work'[w].read \in Reads[work'[w].sha]
        /\ work'[w].image = work'[w].sha
    BY <2>3 DEF Faithful
  <2> QED
    BY <2>3, <2>4, <2>5 DEF Faithful
<1>11. CASE UploadPage(w)
  <2>1. work[w].page \in work[w].read
    BY <1>11 DEF UploadPage
  <2> QED
    BY <1>11, <2>1, UploadPageFacts DEF Faithful
<1>12. CASE InsertPage(w)
  <2>1. /\ work[w].page \in work[w].read /\ work[w].page \in Pages
        /\ work[w].rows = work[w].read \cap (1 .. work[w].page - 1)
    BY <1>12 DEF InsertPage, Faithful, Stored
  <2>2. 1 =< work[w].page
    BY <2>1, PageCountAssumption DEF Pages
  <2>3. work[w].rows \cup {work[w].page}
          = work[w].read \cap (1 .. work[w].page + 1 - 1)
    BY <1>2, <2>1, <2>2
  <2>4. /\ work[w].pc = "insert" /\ work'[w].pc = "render"
        /\ SameFile(work[w], work'[w]) /\ SameText(work[w], work'[w])
        /\ work'[w].page = work[w].page + 1 /\ work'[w].image = work[w].image
        /\ work'[w].rows = work[w].rows \cup {work[w].page}
    BY <1>12, InsertPageFacts
  <2>5. work'[w].rows = work'[w].read \cap (1 .. work'[w].page - 1)
    BY <2>3, <2>4
  <2>6. /\ work'[w].sha = content'[work'[w].file]
        /\ work'[w].text = work'[w].sha /\ work'[w].read \in Reads[work'[w].sha]
        /\ work'[w].image = work'[w].sha
    BY <2>4 DEF Faithful
  <2> QED
    BY <2>4, <2>5, <2>6 DEF Faithful
<1>13. CASE LastPage(w)
  <2>1. /\ work[w].rows = work[w].read \cap (1 .. work[w].page - 1)
        /\ work[w].image = work[w].sha /\ work[w].sha \in Shas
        /\ work[w].read \in Reads[work[w].sha]
        /\ work[w].page > PageCount[work[w].image]
    BY <1>13 DEF LastPage, Faithful, Stored
  <2>2. work[w].read \subseteq 1 .. PageCount[work[w].sha]
          /\ PageCount[work[w].sha] \in Nat
    BY <2>1, ReadsAssumption, PageCountAssumption
  <2>3. work[w].rows = work[w].read
    BY <1>2, <2>1, <2>2
  <2> QED
    BY <1>13, <2>3, LastPageFacts DEF Faithful
<1> QED
  BY <1>3, <1>4, <1>5, <1>6, <1>7, <1>8, <1>9, <1>10, <1>11, <1>12, <1>13
     DEF WorkStep, Moves

-----------------------------------------------------------------------------
(* Objects and rows.                                                       *)

LEMMA StepMatches ==
    ASSUME TypeOK, content' = content, ObjectsMatch, NEW w \in Workers, Stored(w),
           Faithful(w), Moves(w)
    PROVE  ObjectsMatch'
<1>1. /\ work[w] \in WorkState
      /\ work[w].pc \in Begun => work[w].sha \in Shas
      /\ work[w].pc \in Begun => content[work[w].file] = work[w].sha
      /\ work[w].pc \in Rendering => work[w].image = work[w].sha
      /\ work[w].pc = "commit" => work[w].text = work[w].sha
  BY DEF TypeOK, Stored, Faithful, Begun, Rendering
<1>2. CASE UploadPdf(w)
  <2>1. work[w].sha \in Shas /\ pdf' = [pdf EXCEPT ![work[w].sha] = work[w].sha]
    BY <1>1, <1>2 DEF UploadPdf, Begun
  <2> QED
    BY <1>2, <2>1 DEF UploadPdf, ObjectsMatch, TypeOK
<1>3. CASE UploadPage(w)
  <2>1. /\ work[w].sha \in Shas
        /\ png' = [png EXCEPT ![work[w].sha] =
                     [png[work[w].sha] EXCEPT ![work[w].page] = work[w].sha]]
    BY <1>1, <1>3 DEF UploadPage, Begun, Rendering
  <2>2. \A s \in Shas : \A n \in Pages : png'[s][n] \in {s, png[s][n]}
    BY <2>1 DEF TypeOK
  <2> QED
    BY <1>3, <2>2 DEF UploadPage, ObjectsMatch
<1>4. CASE Commit(w)
  <2>1. /\ work[w].sha \in Shas /\ work[w].text = work[w].sha
        /\ chunks' = [chunks EXCEPT ![work[w].sha] = RowsAfter(w)]
    BY <1>1, <1>4 DEF Commit, Begun
  <2>2. \A k \in RowsAfter(w) : k.of = work[w].sha
    BY <2>1 DEF RowsAfter, ObjectsMatch
  <2> QED
    BY <1>4, <2>1, <2>2 DEF Commit, ObjectsMatch, TypeOK
<1>5. CASE ~UploadPdf(w) /\ ~UploadPage(w) /\ ~Commit(w)
  <2>1. UNCHANGED <<pdf, png, chunks>>
    BY <1>5 DEF Moves, WorkStep, StartBatch, FileFails, Kill, Collides, RollBackFile,
       OpenFile, Parse, SelectDocument, CreateDocument, RetitleDocument, Embed,
       SkipPage, InsertPage, LastPage
  <2> QED
    BY <2>1 DEF ObjectsMatch
<1> QED
  BY <1>2, <1>3, <1>4, <1>5

\* A commit brings a document with every page its parse read, and it read some.
LEMMA StepHasPages ==
    ASSUME TypeOK, DocumentsHavePages, NEW w \in Workers, Stored(w), Titled(w),
           Faithful(w), Moves(w)
    PROVE  DocumentsHavePages'
<1>1. CASE Commit(w)
  <2> DEFINE d == work[w].sha
  <2>1. /\ d \in Shas /\ chunks'[d] = RowsAfter(w)
        /\ \A s \in Shas \ {d} : title'[s] = title[s] /\ chunks'[s] = chunks[s]
    BY <1>1, CommitFacts
  <2>2. work[w].rows # {}
    BY <1>1, <2>1, ReadsAssumption DEF Commit, Faithful, Begun, Rendering
  <2>3. RowsAfter(w) # {}
    BY <2>2 DEF RowsAfter
  <2> HIDE DEF d
  <2> QED
    BY <2>1, <2>3 DEF DocumentsHavePages, docs
<1>2. CASE ~Commit(w)
  <2>1. UNCHANGED <<title, chunks>>
    BY <1>2, ChunksFacts DEF Moves
  <2> QED
    BY <2>1 DEF DocumentsHavePages, docs
<1> QED
  BY <1>1, <1>2

-----------------------------------------------------------------------------
(* The invariant.                                                          *)

LEMMA InitFaithful == Init => FaithfulInv
<1> SUFFICES ASSUME Init PROVE FaithfulInv
  OBVIOUS
<1>1. ObjectsMatch /\ DocumentsHavePages
  BY DEF Init, ObjectsMatch, DocumentsHavePages, docs
<1>2. ASSUME NEW w \in Workers PROVE Faithful(w)
  <2>1. work[w] = AtRest("idle", {}, {}, 0, NoneTaken)
    BY DEF Init
  <2> QED
    BY <2>1 DEF AtRest, Faithful, Begun, Rendering
<1> QED
  BY <1>1, <1>2 DEF FaithfulInv

LEMMA StepFaithful ==
    ASSUME ~Replaceable, SafeInv, FaithfulInv, [Next]_vars
    PROVE  FaithfulInv'
<1>1. /\ TypeOK /\ ObjectsMatch /\ DocumentsHavePages
      /\ \A w \in Workers : Stored(w) /\ Titled(w) /\ Faithful(w)
  BY DEF SafeInv, FaithfulInv
<1>2. CASE UNCHANGED vars
  BY <1>2 DEF vars, FaithfulInv, ObjectsMatch, DocumentsHavePages, docs, Faithful
<1>3. ASSUME NEW w \in Workers, Moves(w) PROVE FaithfulInv'
  <2>1. content' = content
    BY <1>3, MovesKeepContent
  <2>2. ObjectsMatch' /\ DocumentsHavePages'
    BY <1>1, <1>3, <2>1, StepMatches, StepHasPages
  <2>3. Faithful(w)'
    BY <1>1, <1>3, <2>1, MoverIsFaithful
  <2>4. ASSUME NEW v \in Workers \ {w} PROVE Faithful(v)'
    <3>1. work'[v] = work[v]
      BY <1>1, <1>3, OwnType DEF Moves
    <3> QED
      BY <1>1, <2>1, <3>1 DEF Faithful
  <2> QED
    BY <2>2, <2>3, <2>4 DEF FaithfulInv
<1>4. ASSUME NEW f \in Files, Replace(f) PROVE FaithfulInv'
  <2>1. UNCHANGED <<pdf, png, title, chunks>>
    BY <1>4 DEF Replace
  <2>2. ObjectsMatch' /\ DocumentsHavePages'
    BY <1>1, <2>1 DEF ObjectsMatch, DocumentsHavePages, docs
  <2>3. \A w \in Workers : Faithful(w)'
    BY <1>1, <1>4, ContentInHandStays
  <2> QED
    BY <2>2, <2>3 DEF FaithfulInv
<1> QED
  BY <1>2, <1>3, <1>4 DEF Next, Moves

LEMMA Invariance == ASSUME ~Replaceable PROVE Spec => [](SafeInv /\ FaithfulInv)
<1>1. Init => SafeInv /\ FaithfulInv
  BY InitSafe, InitFaithful
<1>2. SafeInv /\ FaithfulInv /\ [Next]_vars => SafeInv' /\ FaithfulInv'
  BY StepSafe, StepFaithful
<1> QED
  BY <1>1, <1>2, PTL DEF Spec

\* While no file in hand is overwritten, no document is committed without a page
\* to find,
THEOREM CommittedHavePages == ASSUME ~Replaceable PROVE Spec => []DocumentsHavePages
<1>1. SafeInv /\ FaithfulInv => DocumentsHavePages
  BY DEF FaithfulInv
<1> QED
  BY <1>1, Invariance, PTL

-----------------------------------------------------------------------------
(* A reader of the database sees a PdfLibrary.                             *)

\* A commit shows a document for the first time or adds pages it did not have.
LEMMA CommitIsLibraryStep ==
    ASSUME SafeInv, FaithfulInv, NEW w \in Workers, Commit(w)
    PROVE  Library!Next
<1> DEFINE s == work[w].sha
           now == [d \in Shas |-> PagesOf(d)]
           then == [d \in Shas |-> PagesThen(d)]
<1>1. /\ TypeOK /\ Stored(w) /\ Titled(w) /\ HoldsAlone(w)
      /\ Faithful(w) /\ ChunksHaveDocuments
  BY DEF SafeInv, FaithfulInv
<1>2. /\ s \in Shas /\ title'[s] # NoFile
      /\ \A d \in Shas \ {s} : title'[d] = title[d]
  BY <1>1, CommitFacts
<1>3. work[w].rows \in Reads[s]
  BY <1>1 DEF Commit, Faithful, Begun, Rendering
<1>4. docs' = docs \cup {s}
  BY <1>2 DEF docs
<1>5. work[w].rows \cap PagesOf(s) = {}
  BY <1>1 DEF HoldsAlone
<1>6. then = [now EXCEPT ![s] = PagesOf(s) \cup work[w].rows]
  <2>1. \A d \in Shas : PagesThen(d) =
          IF d = s THEN PagesOf(s) \cup work[w].rows ELSE PagesOf(d)
    BY <1>1, ChunksFacts DEF PagesAfter, WorkStep
  <2> QED
    BY <1>2, <2>1
<1>7. now' = then
  BY DEF PagesOf, PagesThen
<1>8. CASE s \in docs
  <2>1. docs' = docs /\ now[s] = PagesOf(s)
    BY <1>2, <1>4, <1>8
  <2>2. Library!Grow(s)
    BY <1>3, <1>5, <1>6, <1>7, <1>8, <2>1 DEF Library!Grow
  <2> QED
    BY <1>2, <2>2 DEF Library!Next
<1>9. CASE s \notin docs
  <2>1. PagesOf(s) = {}
    BY <1>1, <1>2, <1>9 DEF ChunksHaveDocuments, PagesOf
  <2>2. now' = [now EXCEPT ![s] = work[w].rows]
    BY <1>6, <1>7, <2>1
  <2>3. Library!Index(s)
    BY <1>3, <1>4, <1>9, <2>2 DEF Library!Index
  <2> QED
    BY <1>2, <2>3 DEF Library!Next
<1> QED
  BY <1>8, <1>9

LEMMA StepIsLibraryStep ==
    ASSUME ~Replaceable, SafeInv, FaithfulInv, [Next]_vars
    PROVE  [Library!Next]_(Library!vars)
<1>1. CASE UNCHANGED <<title, chunks>>
  BY <1>1 DEF Library!vars, docs, PagesOf
<1>2. ASSUME NEW w \in Workers, Moves(w) PROVE Commit(w) \/ UNCHANGED <<title, chunks>>
  BY <1>2, ChunksFacts DEF SafeInv, Moves
<1>3. UNCHANGED vars => UNCHANGED <<title, chunks>>
  BY DEF vars
<1>4. \A f \in Files : Replace(f) => UNCHANGED <<title, chunks>>
  BY DEF Replace
<1> QED
  BY <1>1, <1>2, <1>3, <1>4, CommitIsLibraryStep DEF Next, Moves

\* ... and what a reader of the database sees is a library: documents appear
\* whole, with the pages of one parse, and lose none.
THEOREM Implements == ASSUME ~Replaceable PROVE Spec => ImplementsLibrary
<1>1. Init => Library!Init
  <2> SUFFICES ASSUME Init PROVE Library!Init
    OBVIOUS
  <2>1. docs = {} /\ \A s \in Shas : PagesOf(s) = {}
    BY DEF Init, docs, PagesOf
  <2> QED
    BY <2>1 DEF Library!Init
<1>2. SafeInv /\ FaithfulInv /\ [Next]_vars => [Library!Next]_(Library!vars)
  BY StepIsLibraryStep
<1> QED
  BY <1>1, <1>2, Invariance, PTL DEF Spec, ImplementsLibrary, Library!Spec
=============================================================================

--------------------------- MODULE ProductFacets ----------------------------
(***************************************************************************)
(* The product facet of the documents (columns product_family and brand,   *)
(* migration 0006): written by every ingest (Repository.upsert_document)   *)
(* and by the backfill of the documents that were there before             *)
(* (scripts/backfill_product_family --apply, Repository.set_product_facet),*)
(* read by the boost of a search.                                          *)
(*                                                                         *)
(* Both write through the ORM: a transaction reads the row, assigns to it  *)
(* and sends an UPDATE of the columns whose value differs from the one it  *)
(* read.  An UPDATE waits for the row's lock and leaves the other columns  *)
(* as it finds them.  One ingest and one backfill may be at work.          *)
(***************************************************************************)
EXTENDS ProductMatch

CONSTANTS
    PdfDocs, HtmlDocs,      \* documents
    PdfTitles, HtmlTitles,  \* texts
    Questions               \* texts

Docs == PdfDocs \cup HtmlDocs
Titles == PdfTitles \cup HtmlTitles
NoTitle == [words |-> <<>>, spaced |-> FALSE]
Texts == [words : Seq(STRING), spaced : BOOLEAN]

ASSUME DocsAssumption == PdfDocs \cap HtmlDocs = {}
ASSUME TitlesAssumption == Titles \subseteq Texts /\ NoTitle \notin Titles

VARIABLES
    row,      \* the documents as committed
    ingest,   \* the ingest at work
    backfill, \* the backfill at work
    settled   \* history: what last settled the facet of a document

facetVars == <<row, ingest, backfill, settled>>

Facets == [t \in Titles |-> DeriveFacet(t)]
FamilyValues == {f.family : f \in UNION {Facets[t] : t \in Titles}} \cup {None}
BrandValues == {f.brand : f \in UNION {Facets[t] : t \in Titles}} \cup {None}

Absent == [title |-> NoTitle, family |-> None, brand |-> None]
Rows == [title : Titles, family : FamilyValues, brand : BrandValues]
FacetOf(r) == [family |-> r.family, brand |-> r.brand]

NoIngest == [step |-> "idle", doc |-> None, seen |-> Absent, want |-> Absent,
             raced |-> FALSE]

\* The columns of a facet that a transaction writes, and their values.
Columns == {"family", "brand"}
NothingWritten == [cols |-> {}, family |-> None, brand |-> None]

NoBackfill == [step |-> "idle", listed |-> [d \in Docs |-> NoTitle], todo |-> {},
               doc |-> None, want |-> FacetOf(Absent), seen |-> FacetOf(Absent),
               wrote |-> [d \in Docs |-> NothingWritten], raced |-> {}]

FacetTypeOK ==
    /\ row \in [Docs -> Rows \cup {Absent}]
    /\ settled \in [Docs -> {"migrated", "ingested", "backfilled", "raced"}]
    /\ ingest \in [step : {"idle", "selected", "flushed"}, doc : Docs \cup {None},
                   seen : Rows \cup {Absent}, want : Rows \cup {Absent},
                   raced : BOOLEAN]
    /\ backfill \in [step : {"idle", "listed", "got"},
                     listed : [Docs -> Titles \cup {NoTitle}],
                     todo : SUBSET Docs, doc : Docs \cup {None},
                     want : [family : FamilyValues, brand : BrandValues],
                     seen : [family : FamilyValues, brand : BrandValues],
                     wrote : [Docs -> [cols : SUBSET Columns,
                                       family : FamilyValues,
                                       brand : BrandValues]],
                     raced : SUBSET Docs]

\* Migration 0006 has run: the documents there are have no facet yet.
FacetInit ==
    /\ row \in [Docs -> [title : Titles, family : {None}, brand : {None}]
                          \cup {Absent}]
    /\ \A d \in Docs : row[d] # Absent
         => row[d].title \in IF d \in PdfDocs THEN PdfTitles ELSE HtmlTitles
    /\ ingest = NoIngest
    /\ backfill = NoBackfill
    /\ settled = [d \in Docs |-> "migrated"]

-----------------------------------------------------------------------------
(* Columns and locks.                                                      *)

Written(seen, want) ==
    [cols |-> (IF want.family = seen.family THEN {} ELSE {"family"})
                \cup (IF want.brand = seen.brand THEN {} ELSE {"brand"}),
     family |-> want.family, brand |-> want.brand]

Overlaid(r, written) ==
    [title |-> r.title,
     family |-> IF "family" \in written.cols THEN written.family ELSE r.family,
     brand |-> IF "brand" \in written.cols THEN written.brand ELSE r.brand]

\* What the ingest sends: a new row, or an UPDATE unless nothing differs.
IngestWrites == ingest.want # ingest.seen

IngestLocks(d) ==
    ingest.step = "flushed" /\ ingest.doc = d /\ IngestWrites

BackfillLocks(d) == backfill.wrote[d].cols # {}

-----------------------------------------------------------------------------
(* An ingest: Repository.upsert_document and the caller's commit.          *)

Row(title, facet) ==
    [title |-> title, family |-> facet.family, brand |-> facet.brand]

\* mutant: the facet is derived only when the document is new
RefreshedTitleOnly(seen, title, facet) ==
    IF seen = Absent THEN Row(title, facet) ELSE [seen EXCEPT !.title = title]

Refreshed(seen, title, facet) == Row(title, facet)

\* History: the ingest's title is not the one the backfill goes by.
Clashes(d, title) ==
    /\ backfill.step # "idle"
    /\ backfill.listed[d] # NoTitle
    /\ backfill.listed[d] # title \/ d \in backfill.raced

\* A PDF that is there is left alone (IngestionPipeline.ingest returns it).
SelectDocument(d, title) ==
    /\ ingest.step = "idle"
    /\ d \in PdfDocs => row[d] = Absent /\ title \in PdfTitles
    /\ d \in HtmlDocs => title \in HtmlTitles
    /\ \E facet \in Facets[title] :
         ingest' = [step |-> "selected", doc |-> d, seen |-> row[d],
                    want |-> Refreshed(row[d], title, facet),
                    raced |-> Clashes(d, title)]
    /\ backfill' = [backfill EXCEPT !.raced =
                      IF Clashes(d, title) THEN backfill.raced \cup {d}
                      ELSE backfill.raced]
    /\ UNCHANGED <<row, settled>>

FlushDocument ==
    /\ ingest.step = "selected"
    /\ IngestWrites => ~BackfillLocks(ingest.doc)
    /\ ingest' = [ingest EXCEPT !.step = "flushed"]
    /\ UNCHANGED <<row, backfill, settled>>

CommitIngest ==
    /\ ingest.step = "flushed"
    /\ LET d == ingest.doc IN
         /\ row' = [row EXCEPT ![d] =
                      Overlaid([row[d] EXCEPT !.title = ingest.want.title],
                               Written(ingest.seen, ingest.want))]
         /\ settled' = [settled EXCEPT ![d] =
                          IF ingest.raced THEN "raced" ELSE "ingested"]
    /\ ingest' = NoIngest
    /\ UNCHANGED backfill

\* An error further on, or the process is gone: the transaction with it.
AbortIngest ==
    /\ ingest.step # "idle"
    /\ ingest' = NoIngest
    /\ UNCHANGED <<row, backfill, settled>>

-----------------------------------------------------------------------------
(* The backfill: one transaction over all documents.                       *)

\* list_documents.  A document ahead of its ingest is absent from the list.
ListDocuments ==
    /\ backfill.step = "idle"
    /\ LET d == ingest.doc
           clash == /\ ingest.step # "idle"
                    /\ ingest.seen # Absent
                    /\ ingest.want.title # row[d].title
       IN  /\ backfill' = [NoBackfill EXCEPT
                !.step = "listed",
                !.listed = [e \in Docs |-> row[e].title],
                !.todo = {e \in Docs : row[e] # Absent},
                !.raced = IF clash THEN {d} ELSE {}]
           /\ ingest' = [ingest EXCEPT !.raced = ingest.raced \/ clash]
    /\ UNCHANGED <<row, settled>>

\* derive_facet of the title as listed, then session.get, which reads the row
\* again.  The order of the documents, by title, is left open.
GetDocument(d) ==
    /\ backfill.step = "listed"
    /\ d \in backfill.todo
    /\ \E facet \in Facets[backfill.listed[d]] :
         backfill' = [backfill EXCEPT !.step = "got", !.doc = d,
                                      !.todo = backfill.todo \ {d},
                                      !.want = facet, !.seen = FacetOf(row[d])]
    /\ UNCHANGED <<row, ingest, settled>>

SetProductFacet ==
    /\ backfill.step = "got"
    /\ LET d == backfill.doc
           written == Written(backfill.seen, backfill.want)
       IN  /\ written.cols # {} => ~IngestLocks(d)
           /\ backfill' = [backfill EXCEPT
                             !.step = "listed", !.doc = None,
                             !.want = FacetOf(Absent), !.seen = FacetOf(Absent),
                             !.wrote = [backfill.wrote EXCEPT ![d] = written]]
    /\ UNCHANGED <<row, ingest, settled>>

CommitBackfill ==
    /\ backfill.step = "listed"
    /\ backfill.todo = {}
    /\ row' = [d \in Docs |-> Overlaid(row[d], backfill.wrote[d])]
    /\ settled' = [d \in Docs |->
                     IF backfill.listed[d] = NoTitle THEN settled[d]
                     ELSE IF d \in backfill.raced THEN "raced" ELSE "backfilled"]
    /\ backfill' = NoBackfill
    /\ UNCHANGED ingest

AbortBackfill ==
    /\ backfill.step # "idle"
    /\ backfill' = NoBackfill
    /\ UNCHANGED <<row, ingest, settled>>

-----------------------------------------------------------------------------
FacetNext ==
    \/ \E d \in Docs, title \in Titles : SelectDocument(d, title)
    \/ FlushDocument
    \/ CommitIngest
    \/ AbortIngest
    \/ ListDocuments
    \/ \E d \in Docs : GetDocument(d)
    \/ SetProductFacet
    \/ CommitBackfill
    \/ AbortBackfill

FacetSpec == FacetInit /\ [][FacetNext]_facetVars

-----------------------------------------------------------------------------
(* Properties.                                                             *)

IsSettled(d) == settled[d] \in {"ingested", "backfilled"}

\* The stored facet is one that the title says, though ingests and the
\* backfill write single columns on what they read earlier.  Exempt is a
\* document that was given another title while a backfill was at work, until
\* its next ingest or backfill: see the README.  A document that neither has
\* reached is product-blind.
FacetAgrees ==
    \A d \in Docs :
      /\ IsSettled(d) => FacetOf(row[d]) \in Facets[row[d].title]
      /\ settled[d] = "migrated" => FacetOf(row[d]) = FacetOf(Absent)

\* One normalizer, no fork: the boost, from the stored facet, and the gate,
\* from the live title, judge a document alike.  Up is what the gate accepts,
\* down is what it refuses, and nil is a title that says nothing.  (Of a title
\* with two brands each process may see another one.)
BoostAgreesWithGate ==
    \A d \in Docs, q \in Questions :
      IsSettled(d) /\ (\A f, g \in Facets[row[d].title] : f = g) =>
        \A asked \in ExtractQueryScope(q), live \in NormalizeProduct(row[d].title) :
          IsIdentified(asked) =>
            CASE ProductDelta(asked, row[d]) = 1 -> ScopeMatches(asked, live)
              [] ProductDelta(asked, row[d]) = -1 -> ~ScopeMatches(asked, live)
              [] OTHER -> ~IsIdentified(live)

\* The families a text names by a token of theirs; "guide" is an English word,
\* and the brake only in its context.
NamedFamilies(text) ==
    {f \in ToSet(Families) : /\ Surface(f) \cap ToSet(text.words) # {}
                             /\ f = "guide" => GuideIsProduct(text.words)}

\* A question about one product is not turned away when a manual of just this
\* product was retrieved, whatever else was and whoever's brand the two name.
SameProductPasses ==
    \A d \in Docs, q \in Questions :
      (\E f \in NamedFamilies(q) :
         NamedFamilies(q) = {f} /\ NamedFamilies(row[d].title) = {f})
      => \A others \in SUBSET {e \in Docs : row[e] # Absent}, asked \in ExtractQueryScope(q) :
           \A live \in NormalizeProduct(row[d].title) :
             ~IsOutOfCorpus(asked, {live} \cup UNION
                              {NormalizeProduct(row[e].title) : e \in others})

ForeignBrands == OutOfCorpusBrands \cup {p.brand : p \in ToSet(BrandPhrases)}

\* "the asked out-of-corpus brand matches no in-corpus title's brand": a
\* question that names a foreign brand and no family is turned away when all
\* that was retrieved names some product and none names a foreign brand.
ForeignBrandIsGated ==
    \A docs \in SUBSET {d \in Docs : row[d] # Absent}, q \in Questions :
      LET lives == UNION {NormalizeProduct(row[d].title) : d \in docs} IN
      /\ DetectBrand(q) \subseteq ForeignBrands
      /\ DetectFamily(q) = None
      /\ \A live \in lives : IsIdentified(live) /\ live.brand \notin ForeignBrands
      => \A asked \in ExtractQueryScope(q) : IsOutOfCorpus(asked, lives)

\* "Idempotent: re-running derives the same values": a backfill changes no
\* document that a backfill settled last, with no ingest since.
BackfillIsIdempotent ==
    [][\A d \in Docs :
         /\ settled[d] = "backfilled"
         /\ backfill.step = "listed" /\ backfill'.step = "idle"
         /\ ingest.step = "idle"
         => row'[d] = row[d]]_facetVars
=============================================================================

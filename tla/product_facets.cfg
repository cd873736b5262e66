\* A PDF and a publication, file names and titles of every kind, an ingest and
\* a backfill side by side.
CONSTANTS
    PdfDocs = {"pdf"}
    HtmlDocs = {"html"}
    PdfTitles <- SomePdfTitles
    HtmlTitles <- SomeHtmlTitles
    Questions <- SomeQuestions
SPECIFICATION FacetSpec
INVARIANTS FacetAgrees BoostAgreesWithGate SameProductPasses ForeignBrandIsGated

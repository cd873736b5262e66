\* A document whose title names two brands.
CONSTANTS
    PdfDocs = {"pdf"}
    HtmlDocs = {}
    PdfTitles <- TheGuide
    HtmlTitles = {}
    Questions = {}
SPECIFICATION FacetSpec
PROPERTIES BackfillIsIdempotent

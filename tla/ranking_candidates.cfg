\* A PDF beside an HTML publication a block of which is replaced meanwhile.
CONSTANTS
    Docs = {1, 2}
    Pdfs = {1}
    Chunks = {1, 2, 3, 4, 5, 6}
    DocOf <- MCDocOf
    Ordinal <- MCOrdinal
    Channels <- TwoHits
    Overlaps <- ManyTokens
    Products <- AnyProduct
    Specs <- OneSpec
    Gone <- OneGone
    TopKs = {1, 3}
    Budgets = {2, 4}
    PageWindow = 1
SPECIFICATION Spec
INVARIANTS TypeOK CandidatesAreSound LeadingDocumentIsShown FarAheadStaysAhead
CHECK_DEADLOCK FALSE

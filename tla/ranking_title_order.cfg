\* A question that names a product: what is left of the title rerank.
CONSTANTS
    Docs = {1, 2}
    Pdfs = {1, 2}
    Chunks = {1, 2, 3, 4, 5, 6}
    DocOf <- MCDocOf
    Ordinal <- MCOrdinal
    Channels <- TwoHits
    Overlaps <- OneTitle
    Products <- AnyProduct
    Specs <- NoSpecs
    Gone <- NothingGone
    TopKs = {3}
    Budgets = {4}
    PageWindow = 1
SPECIFICATION Spec
INVARIANTS TitleOrderIsKept
CHECK_DEADLOCK FALSE

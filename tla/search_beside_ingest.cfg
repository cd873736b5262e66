\* Commands run one after the other while questions are answered.
CONSTANTS
    p1 = p1  p2 = p2  c1 = c1  i1 = i1  m1 = m1
    NoProc = NoProc
    NoPub = NoPub
    Pubs = {p1, p2}
    Crawlers = {c1}
    Ingesters = {i1}
    Models = {m1}
    MaxVersion = 2
    ChunkCount <- ManualChunkCount
    Links <- AnyLinks
    Exclusive = TRUE
    Words <- ManualWords
    Hashes = {"a", "b", "x", "y"}
    NoHash = "none"
    Manual <- Manuals
    PerChannel = 1
    TopK = 1
SPECIFICATION SearchSpec
SYMMETRY Symmetry
INVARIANTS IngestedIsCurrent SourcesAreWholeModules LabelIsTheTitle
PROPERTIES NothingOnlyWhenReplaced

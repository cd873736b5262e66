\* Two ingests and a crawl of one publication.
CONSTANTS
    p1 = p1  p2 = p2  c1 = c1  c2 = c2  i1 = i1  i2 = i2  m1 = m1  m2 = m2  m3 = m3
    NoProc = NoProc
    NoPub = NoPub
    Pubs = {p1}
    Crawlers = {c1}
    Ingesters = {i1, i2}
    Models = {m1}
    MaxVersion = 3
    Links <- AnyLinks
    ChunkCount <- CountsTwoOneTwo
    Exclusive = FALSE
SPECIFICATION Spec
SYMMETRY Symmetry
INVARIANTS TypeOK WholeDocument IngestedIsIndexed DeadlocksAreAmongCrawls
PROPERTIES ImplementsIndex

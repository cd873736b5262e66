\* A crawl and an ingest of one publication.
CONSTANTS
    p1 = p1  p2 = p2  c1 = c1  c2 = c2  i1 = i1  i2 = i2  m1 = m1  m2 = m2  m3 = m3
    NoProc = NoProc
    NoPub = NoPub
    Pubs = {p1}
    Crawlers = {c1}
    Ingesters = {i1}
    Models = {m1}
    MaxVersion = 2
    Links <- AnyLinks
    ChunkCount <- CountsOne
    Exclusive = FALSE
SPECIFICATION Spec
PROPERTIES StaleClearedByNewerText

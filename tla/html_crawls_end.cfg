\* Two crawls of two publications, the first found on one of three models.
CONSTANTS
    p1 = p1  p2 = p2  c1 = c1  c2 = c2  i1 = i1  i2 = i2
    m1 = m1  m2 = m2  m3 = m3
    NoProc = NoProc
    NoPub = NoPub
    Pubs = {p1, p2}
    Crawlers = {c1, c2}
    Ingesters = {}
    Models = {m1, m2, m3}
    MaxVersion = 1
    Links <- OneModelOfP1
    ChunkCount <- CountsOne
    Exclusive = FALSE
SPECIFICATION FairSpec
PROPERTIES CommandsEnd EvidenceLostOnlyToOverlap

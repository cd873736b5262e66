\* Two workers, two contents of different length; a file may be overwritten
\* while no worker has it in hand.
CONSTANTS
    s1 = s1  s2 = s2  w1 = w1  w2 = w2
    NoFile = NoFile
    NoSha = NoSha
    Workers = {w1, w2}
    Files = {1, 2}
    Shas = {s1, s2}
    PageCount <- OneOrTwoPages
    Reads <- MayLosePage
    Replaceable = FALSE
SPECIFICATION FairSpec
INVARIANTS TypeOK DocumentsHavePages PagesCanBeShown ZeroMeansIndexed
PROPERTIES ImplementsLibrary BatchesEnd

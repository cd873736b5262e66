\* One worker, a file that may be overwritten at any moment.
CONSTANTS
    s1 = s1  s2 = s2  w1 = w1  w2 = w2
    NoFile = NoFile
    NoSha = NoSha
    Workers = {w1}
    Files = {1}
    Shas = {s1, s2}
    PageCount <- OnePage
    Reads <- EveryPage
    Replaceable = TRUE
SPECIFICATION Spec
INVARIANTS ShaNamesTheContent

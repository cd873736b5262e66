\* A page served in three contents, crawls and ingests that may be killed.
CONSTANTS
    MaxVersion = 3
    Lengths <- SomeLengths
    MaxBatchTexts = 2
    MaxBatchTokens = 3
    MaxTextChars = 11
SPECIFICATION PageSpec
INVARIANTS IngestReadsTheSite CrawlIsNotBehind RequestsFit VectorsInOrder TokensAreCounted

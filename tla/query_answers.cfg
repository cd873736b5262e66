\* Two requests, one of them too large for Claude, every kind of hit list and
\* reply; clients keep asking after an outage.
CONSTANTS
    r1 = r1  r2 = r2
    Requests = {r1, r2}
    Oversized = {r2}
    HitLists <- AnyHits
    Replies <- AnyReply
    PoolSize = 2
    MaxInFlight = 1
    PublicUrls = FALSE
SPECIFICATION BusySpec
INVARIANTS TypeOK CitationIsHonest FailuresAreToldApart NothingLeaks
PROPERTIES RequestsEnd ReadyAgain

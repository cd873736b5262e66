----------------------- MODULE PublicationTextProofs -----------------------
(***************************************************************************)
(* The embedder's batches for every limit and every list of texts, and the *)
(* pages commands go on with for every site and every series of kills.     *)
(***************************************************************************)
EXTENDS PublicationText, TLAPS, WellFoundedInduction

\* A text costs at least one token and never more than a request may have.
LEMMA TokensFit ==
    ASSUME EmbedTypeOK, NEW k \in 1 .. Len(texts)
    PROVE  Tokens(k) \in 1 .. MaxBatchTokens
<1>1. texts[k] \in Nat
  BY DEF EmbedTypeOK
<1>2. Clipped(texts[k]) \in Nat /\ Clipped(texts[k]) <= MaxTextChars
  BY <1>1, LimitsAssumption DEF Clipped
<1>3. /\ Clipped(texts[k]) \div 3 \in Nat
      /\ Clipped(texts[k]) \div 3 <= MaxTextChars \div 3
  BY <1>2, LimitsAssumption
<1> QED
  BY <1>3, LimitsAssumption DEF Tokens, EstimateTokens

\* Nothing is taken and nothing sent before a list of texts is given.
LEMMA EmbedInitInv == EmbedInit => EmbedInv
  BY LimitsAssumption
  DEF EmbedInit, EmbedInv, EmbedTypeOK, CountsThrough, Taken, BatchFits, RequestsFit

\* The batch grows by the next text, if it has room for it.
LEMMA AddTextInv == EmbedInv /\ AddText => EmbedInv'
<1> SUFFICES ASSUME EmbedInv, AddText PROVE EmbedInv'
  OBVIOUS
<1> DEFINE k == Taken + 1
<1>1. Taken \in Nat /\ k \in 1 .. Len(texts)
  BY DEF EmbedInv, EmbedTypeOK, AddText, Taken
<1>2. Tokens(k) \in 1 .. MaxBatchTokens
  BY <1>1, TokensFit DEF EmbedInv
<1>3. /\ batch' = Append(batch, k) /\ Len(batch') = Len(batch) + 1
      /\ \A j \in 1 .. Len(batch) : batch'[j] = batch[j]
      /\ batch'[Len(batch) + 1] = k
      /\ batch' \in Seq(Nat)
  BY <1>1 DEF AddText, EmbedInv, EmbedTypeOK
<1>4. EmbedTypeOK'
  BY <1>1, <1>2, <1>3, LimitsAssumption DEF AddText, EmbedInv, EmbedTypeOK
<1>5. CountsThrough'
  <2>1. batch \in Seq(Nat) /\ vectors \in Seq(Nat) /\ vectors' = vectors /\ texts' = texts
    BY DEF AddText, EmbedInv, EmbedTypeOK
  <2>2. ASSUME NEW j \in 1 .. Len(batch') PROVE batch'[j] = Len(vectors) + j
    <3>1. CASE j \in 1 .. Len(batch)
      BY <3>1, <1>3 DEF EmbedInv, CountsThrough
    <3>2. CASE j = Len(batch) + 1
      BY <3>2, <2>1, <1>3 DEF Taken
    <3> QED
      BY <3>1, <3>2, <2>1, <1>3
  <2>3. batch' # <<>> /\ Taken' = k
    BY <2>1, <1>3 DEF Taken
  <2> QED
    BY <1>1, <2>1, <2>2, <2>3 DEF AddText, EmbedInv, CountsThrough
<1>6. BatchFits'
  <2>1. CASE batch = <<>>
    BY <2>1, <1>2, <1>3, LimitsAssumption DEF AddText, EmbedInv, EmbedTypeOK, BatchFits
  <2>2. CASE ~IsFull(k)
    <3>1. Len(batch) < MaxBatchTexts /\ tokens + Tokens(k) <= MaxBatchTokens
      BY <2>2, <1>1, <1>2, LimitsAssumption DEF IsFull, EmbedInv, EmbedTypeOK
    <3>2. Len(batch') <= MaxBatchTexts
      BY <3>1, <1>3, LimitsAssumption DEF EmbedInv, EmbedTypeOK
    <3>3. tokens' <= MaxBatchTokens
      BY <3>1 DEF AddText
    <3>4. batch' # <<>>
      BY <1>3 DEF EmbedInv, EmbedTypeOK
    <3> QED
      BY <3>2, <3>3, <3>4 DEF BatchFits
  <2> QED
    BY <2>1, <2>2 DEF AddText
<1>7. RequestsFit'
  BY DEF AddText, EmbedInv, RequestsFit
<1> QED
  BY <1>4, <1>5, <1>6, <1>7 DEF EmbedInv

\* A batch that is sent is not empty and fits, and its vectors follow on.
LEMMA SendBatchInv ==
    ASSUME EmbedInv, SendBatch, batch # <<>>
    PROVE  /\ sent' \in Seq(Request)
           /\ vectors' \in Seq(Nat)
           /\ Len(vectors') = Taken
           /\ \A k \in 1 .. Taken : vectors'[k] = k
           /\ RequestsFit'
<1> DEFINE r == [items |-> batch, tokens |-> tokens]
<1>1. r \in Request
  BY DEF EmbedInv, EmbedTypeOK, Request
<1>2. sent' = Append(sent, r) /\ sent \in Seq(Request) /\ vectors' = vectors \o batch
  BY DEF SendBatch, EmbedInv, EmbedTypeOK
<1>3. /\ sent' \in Seq(Request)
      /\ DOMAIN sent' = 1 .. Len(sent) + 1
      /\ \A k \in 1 .. Len(sent) : sent'[k] = sent[k]
      /\ sent'[Len(sent) + 1] = r
  BY <1>1, <1>2
<1>4. Len(batch) \in 1 .. MaxBatchTexts /\ tokens <= MaxBatchTokens
  BY LimitsAssumption DEF EmbedInv, EmbedTypeOK, BatchFits
<1>5. RequestsFit'
  <2> SUFFICES ASSUME NEW k \in 1 .. Len(sent) + 1
               PROVE  /\ Len(sent'[k].items) \in 1 .. MaxBatchTexts
                      /\ sent'[k].tokens <= MaxBatchTokens
    BY <1>3 DEF RequestsFit
  <2>1. CASE k = Len(sent) + 1
    BY <2>1, <1>3, <1>4
  <2>2. CASE k # Len(sent) + 1
    <3>1. k \in DOMAIN sent /\ sent'[k] = sent[k]
      BY <2>2, <1>2, <1>3
    <3> QED
      BY <3>1 DEF EmbedInv, RequestsFit
  <2> QED
    BY <2>1, <2>2
<1>6. vectors \in Seq(Nat) /\ batch \in Seq(Nat)
  BY DEF EmbedInv, EmbedTypeOK
<1>7. vectors' \in Seq(Nat) /\ Len(vectors') = Taken
  BY <1>2, <1>6 DEF Taken
<1>8. ASSUME NEW k \in 1 .. Taken PROVE vectors'[k] = k
  <2>1. CASE k <= Len(vectors)
    BY <2>1, <1>2, <1>6 DEF EmbedInv, CountsThrough
  <2>2. CASE k > Len(vectors)
    <3>1. k - Len(vectors) \in 1 .. Len(batch)
      BY <2>2, <1>6 DEF Taken
    <3>2. vectors'[k] = batch[k - Len(vectors)]
      BY <2>2, <3>1, <1>2, <1>6
    <3> QED
      BY <3>1, <3>2, <1>6 DEF EmbedInv, CountsThrough
  <2> QED
    BY <2>1, <2>2, <1>6 DEF Taken
<1> QED
  BY <1>3, <1>5, <1>7, <1>8

\* The next text starts a batch of its own.
LEMMA FlushAndAddInv == EmbedInv /\ FlushAndAdd => EmbedInv'
<1> SUFFICES ASSUME EmbedInv, FlushAndAdd PROVE EmbedInv'
  OBVIOUS
<1> DEFINE k == Taken + 1
<1>1. Taken \in Nat /\ k \in 1 .. Len(texts)
  BY DEF EmbedInv, EmbedTypeOK, FlushAndAdd, Taken
<1>2. Tokens(k) \in 1 .. MaxBatchTokens
  BY <1>1, TokensFit DEF EmbedInv
<1>3. /\ sent' \in Seq(Request) /\ vectors' \in Seq(Nat) /\ Len(vectors') = Taken
      /\ \A j \in 1 .. Taken : vectors'[j] = j
      /\ RequestsFit'
  BY SendBatchInv DEF FlushAndAdd
<1>4. batch' = <<k>> /\ batch' \in Seq(Nat) /\ Len(batch') = 1 /\ batch'[1] = k
  BY <1>1 DEF FlushAndAdd
<1>5. EmbedTypeOK'
  BY <1>2, <1>3, <1>4, LimitsAssumption DEF FlushAndAdd, EmbedInv, EmbedTypeOK
<1>6. CountsThrough'
  BY <1>1, <1>3, <1>4 DEF FlushAndAdd, EmbedInv, EmbedTypeOK, CountsThrough, Taken
<1>7. BatchFits'
  BY <1>2, <1>4, LimitsAssumption DEF FlushAndAdd, BatchFits
<1> QED
  BY <1>3, <1>5, <1>6, <1>7 DEF EmbedInv

\* The loop ends with a batch that is not empty.
LEMMA FlushLastInv == EmbedInv /\ FlushLast => EmbedInv'
<1> SUFFICES ASSUME EmbedInv, FlushLast PROVE EmbedInv'
  OBVIOUS
<1>1. batch # <<>>
  BY DEF EmbedInv, EmbedTypeOK, CountsThrough, FlushLast, Taken
<1>2. /\ sent' \in Seq(Request) /\ vectors' \in Seq(Nat) /\ Len(vectors') = Taken
      /\ \A j \in 1 .. Taken : vectors'[j] = j
      /\ RequestsFit'
  BY <1>1, SendBatchInv DEF FlushLast
<1>3. EmbedTypeOK'
  BY <1>2 DEF FlushLast, EmbedInv, EmbedTypeOK
<1>4. CountsThrough'
  BY <1>2 DEF FlushLast, EmbedInv, EmbedTypeOK, CountsThrough, Taken
<1>5. BatchFits'
  BY LimitsAssumption DEF FlushLast, BatchFits
<1> QED
  BY <1>2, <1>3, <1>4, <1>5 DEF EmbedInv

\* Every step of the embedder keeps the invariant.
LEMMA EmbedStepInv == EmbedInv /\ [EmbedNext]_embedVars => EmbedInv'
<1> SUFFICES ASSUME EmbedInv, [EmbedNext]_embedVars PROVE EmbedInv'
  OBVIOUS
<1>1. CASE \E lengths \in Seq(Nat) : Begin(lengths)
  BY <1>1 DEF Begin, EmbedInv, EmbedTypeOK, CountsThrough, Taken, BatchFits, RequestsFit
<1>2. CASE AddText
  BY <1>2, AddTextInv
<1>3. CASE FlushAndAdd
  BY <1>3, FlushAndAddInv
<1>4. CASE FlushLast
  BY <1>4, FlushLastInv
<1>5. CASE SendFails
  BY <1>5 DEF SendFails, EmbedInv, EmbedTypeOK, CountsThrough, Taken, BatchFits, RequestsFit
<1>6. CASE Return
  BY <1>6, LimitsAssumption
  DEF Return, EmbedInv, EmbedTypeOK, CountsThrough, Taken, BatchFits, RequestsFit
<1>7. CASE UNCHANGED embedVars
  BY <1>7
  DEF embedVars, EmbedInv, EmbedTypeOK, CountsThrough, Taken, BatchFits, RequestsFit
<1> QED
  BY <1>1, <1>2, <1>3, <1>4, <1>5, <1>6, <1>7 DEF EmbedNext, EmbedStep

\* When it is done, every text has its own vector.
LEMMA EmbedInvOrders == EmbedInv => VectorsInOrder
  BY DEF EmbedInv, EmbedTypeOK, CountsThrough, Taken, VectorsInOrder

\* Within a command the embedder does what it does by itself.
LEMMA PageStepEmbeds == PageTypeOK /\ [PageNext]_allVars => [EmbedNext]_embedVars
<1> SUFFICES ASSUME PageTypeOK, [PageNext]_allVars PROVE [EmbedNext]_embedVars
  OBVIOUS
<1>1. CASE ParseChunks
  <2>1. job.page.ver \in Versions
    BY <1>1 DEF ParseChunks, Parses, PageTypeOK, JobState, PageText, Versions
  <2>2. Lengths[job.page.ver] \in Seq(Nat)
    BY <2>1, LengthsAssumption
  <2> QED
    BY <1>1, <2>2 DEF ParseChunks, EmbedNext
<1>2. CASE Embed
  BY <1>2 DEF Embed, EmbedNext
<1>3. CASE Stop
  BY <1>3 DEF Stop, EmbedNext
<1> QED
  BY <1>1, <1>2, <1>3
  DEF PageNext, allVars, Publish, Start, ReadCache, AskRobots, Download,
      OpenFile, WriteFile, Probe, HandOn

Asking == {"idle", "get", "download"}  \* the command has no page yet

\* What a command holds was served since it started, unless a crawl found it in
\* the cache; the cache file and what a command holds are never older than what
\* was indexed last, and never newer than the site.
PageInv ==
    /\ PageTypeOK
    /\ job.pc = "idle" <=> job.kind = "none"
    /\ job.since <= live
    /\ indexed <= file.ver /\ file.ver <= live /\ job.page.ver <= live
    /\ job.pc \notin Asking => indexed <= job.page.ver
    /\ job.pc \in {"parse", "embed", "handed_on"} => job.page.ver = file.ver
    /\ job.kind = "ingest" /\ job.pc \notin Asking => job.since <= job.page.ver

\* No command holds a page before it asked for one.
LEMMA PageInitInv == PageInit => PageInv
  BY VersionsAssumption
  DEF PageInit, PageInv, PageTypeOK, PageText, Cuts, JobState, NoPage, NoJob, Versions,
      Kinds, Asking

\* Every step of a command keeps PageInv.
LEMMA PageStepInv == PageInv /\ [PageNext]_allVars => PageInv'
<1> SUFFICES ASSUME PageInv, [PageNext]_allVars PROVE PageInv'
  OBVIOUS
<1> USE VersionsAssumption
    DEF PageInv, PageTypeOK, PageText, Cuts, JobState, Versions, Kinds, Asking
<1>1. CASE Publish
  BY <1>1 DEF Publish
<1>2. CASE Start
  <2>1. PICK kind \in Kinds :
          job' = [NoJob EXCEPT !.kind = kind, !.pc = "get", !.since = live]
    BY <1>2 DEF Start
  <2>2. job' = [kind |-> kind, pc |-> "get", page |-> NoPage, since |-> live]
    BY <2>1 DEF NoJob
  <2>3. kind # "none" /\ NoPage \in PageText /\ NoPage.ver = 0
    BY <2>1 DEF NoPage
  <2>4. job' \in JobState
    BY <2>2, <2>3
  <2>5. job'.kind = kind /\ job'.pc = "get" /\ job'.since = live /\ job'.page = NoPage
    BY <2>2
  <2>6. live' = live /\ job'.page.ver <= live
    BY <1>2, <2>3, <2>5 DEF Start
  <2> QED
    BY <1>2, <2>3, <2>4, <2>5, <2>6 DEF Start
<1>3. CASE Stop
  BY <1>3 DEF Stop, NoJob, NoPage
<1>4. CASE ReadCache
  BY <1>4 DEF ReadCache, Hits
<1>5. CASE AskRobots
  BY <1>5 DEF AskRobots
<1>6. CASE Download
  <2>1. job' = [job EXCEPT !.pc = "open", !.page = LivePage]
    BY <1>6 DEF Download
  <2>2. LivePage \in PageText /\ LivePage.ver = live
    BY DEF LivePage
  <2>3. /\ job'.pc = "open" /\ job'.page = LivePage
        /\ job'.kind = job.kind /\ job'.since = job.since
    BY <2>1
  <2>4. job' \in JobState
    BY <2>1, <2>2
  <2> QED
    BY <1>6, <2>2, <2>3, <2>4 DEF Download
<1>7. CASE OpenFile
  <2>1. PICK cut \in Cuts : file' = [job.page EXCEPT !.cut = cut]
    BY <1>7 DEF OpenFile
  <2>2. file' \in PageText /\ file'.ver = job.page.ver
    BY <2>1
  <2> QED
    BY <1>7, <2>2 DEF OpenFile
<1>8. CASE WriteFile
  BY <1>8 DEF WriteFile
<1>9. CASE Probe
  BY <1>9 DEF Probe, Parses
<1>10. CASE ParseChunks
  BY <1>10 DEF ParseChunks, Parses
<1>11. CASE Embed
  BY <1>11 DEF Embed
<1>12. CASE HandOn
  BY <1>12 DEF HandOn
<1>13. CASE UNCHANGED allVars
  BY <1>13 DEF allVars
<1> QED
  BY <1>1, <1>2, <1>3, <1>4, <1>5, <1>6, <1>7, <1>8, <1>9, <1>10, <1>11, <1>12,
     <1>13 DEF PageNext

\* Commands keep both invariants together.
LEMMA PageInvariant == PageSpec => [](PageInv /\ EmbedInv)
<1>1. PageInit => PageInv /\ EmbedInv
  BY PageInitInv, EmbedInitInv DEF PageInit
<1>2. PageInv /\ EmbedInv /\ [PageNext]_allVars => (PageInv /\ EmbedInv)'
  BY PageStepInv, PageStepEmbeds, EmbedStepInv DEF PageInv
<1> QED
  BY <1>1, <1>2, PTL DEF PageSpec

\* However large the texts of a page are, no request of embed_documents is
\* empty or beyond Voyage's limits.
THEOREM RequestsAlwaysFit == PageSpec => []RequestsFit
<1>1. EmbedInv => RequestsFit
  BY DEF EmbedInv
<1> QED
  BY <1>1, PageInvariant, PTL

\* Every chunk of a page gets the vector of its own text.
THEOREM VectorsStayInOrder == PageSpec => []VectorsInOrder
  BY EmbedInvOrders, PageInvariant, PTL

\* An ingest indexes what was served after it began, whatever is in the cache.
THEOREM IngestAlwaysReadsTheSite == PageSpec => []IngestReadsTheSite
<1>1. PageInv => IngestReadsTheSite
  BY DEF PageInv, Asking, IngestReadsTheSite
<1> QED
  BY <1>1, PageInvariant, PTL

\* What a crawl records is never older than what was indexed before it.
THEOREM CrawlIsNeverBehind == PageSpec => []CrawlIsNotBehind
<1>1. PageInv => CrawlIsNotBehind
  BY DEF PageInv, Asking, CrawlIsNotBehind
<1> QED
  BY <1>1, PageInvariant, PTL

-----------------------------------------------------------------------------
(* The estimates.  A sum over a list is computed by the recursive function  *)
(* of TokensOf.  That there is such a function for the texts of a batch is  *)
(* kept as a part of the invariant: every text that joins extends it.       *)

TokensIn(t, k) == EstimateTokens(Clipped(t[k]))

\* f is the running sum of the estimates of items, of the texts t.
Sums(f, t, items) ==
    f = [n \in 0 .. Len(items) |-> IF n = 0 THEN 0 ELSE f[n - 1] + TokensIn(t, items[n])]

SumIs(t, items, total) == \E f : Sums(f, t, items) /\ f[Len(items)] = total

TokensInv ==
    /\ SumIs(texts, batch, tokens)
    /\ \A k \in DOMAIN sent : SumIs(texts, sent[k].items, sent[k].tokens)

\* A set of numbers that is not empty has a least one.
LEMMA LeastIsInSet ==
    ASSUME NEW S, S \subseteq Nat, S # {}
    PROVE  \E x \in S : \A y \in S : x <= y
<1>1. PICK x \in S : \A y \in S : <<y, x>> \notin OpToRel(<, Nat)
  BY WFMin, NatLessThanWellFounded, Zenon
<1>2. \A y \in S : ~(y < x)
  BY <1>1, Zenon DEF OpToRel
<1> QED
  BY <1>2

LEMMA NothingToSum == ASSUME NEW t PROVE SumIs(t, <<>>, 0)
<1> DEFINE f == [n \in 0 .. 0 |-> 0]
<1>1. f[0] = 0 /\ Len(<<>>) = 0
  OBVIOUS
<1>2. f = [n \in 0 .. 0 |-> IF n = 0 THEN 0 ELSE f[n - 1] + TokensIn(t, <<>>[n])]
  OBVIOUS
<1>3. Sums(f, t, <<>>)
  BY <1>1, <1>2 DEF Sums
<1> QED
  BY <1>1, <1>3 DEF SumIs

LEMMA OneMoreToSum ==
    ASSUME NEW t, NEW items \in Seq(Nat), NEW total, SumIs(t, items, total), NEW k \in Nat
    PROVE  SumIs(t, Append(items, k), total + TokensIn(t, k))
<1> DEFINE N == Len(items)
           longer == Append(items, k)
           w(n) == TokensIn(t, longer[n])
<1>1. PICK f : Sums(f, t, items) /\ f[N] = total
  BY DEF SumIs
<1>2. /\ N \in Nat /\ Len(longer) = N + 1 /\ longer[N + 1] = k
      /\ \A n \in 1 .. N : longer[n] = items[n]
  OBVIOUS
<1>3. \A n \in 0 .. N : f[n] = IF n = 0 THEN 0 ELSE f[n - 1] + w(n)
  <2>1. \A n \in 0 .. N : f[n] = IF n = 0 THEN 0 ELSE f[n - 1] + TokensIn(t, items[n])
    BY <1>1 DEF Sums
  <2> HIDE DEF longer
  <2> QED
    BY <1>2, <2>1
<1> HIDE DEF longer, w
<1> DEFINE g == [n \in 0 .. N + 1 |-> IF n = N + 1 THEN f[N] + w(N + 1) ELSE f[n]]
<1>4. ASSUME NEW n \in 0 .. N + 1
      PROVE  g[n] = IF n = 0 THEN 0 ELSE g[n - 1] + w(n)
  <2>1. CASE n = N + 1
    BY <1>2, <2>1
  <2>2. CASE n # N + 1
    <3>1. n \in 0 .. N /\ g[n] = f[n] /\ (n # 0 => g[n - 1] = f[n - 1])
      BY <1>2, <2>2
    <3> HIDE DEF g
    <3> QED
      BY <1>3, <3>1
  <2> QED
    BY <2>1, <2>2
<1>5. g = [n \in 0 .. N + 1 |-> IF n = 0 THEN 0 ELSE g[n - 1] + w(n)]
  <2>1. g = [n \in 0 .. N + 1 |-> g[n]]
    OBVIOUS
  <2> HIDE DEF g
  <2> QED
    BY <1>4, <2>1
<1>6. g[N + 1] = total + TokensIn(t, k)
  BY <1>1, <1>2 DEF w
<1> HIDE DEF g
<1>7. Sums(g, t, longer)
  BY <1>2, <1>5 DEF Sums, w
<1> QED
  BY <1>2, <1>6, <1>7 DEF SumIs, longer

\* What the recursive function of TokensOf computes is such a sum, and there
\* is only one.
LEMMA SumIsComputed ==
    ASSUME NEW items \in Seq(Nat), NEW total, SumIs(texts, items, total)
    PROVE  TokensOf(items) = total
<1> DEFINE N == Len(items)
           h == CHOOSE f : f = [n \in 0 .. N |->
                  IF n = 0 THEN 0 ELSE f[n - 1] + Tokens(items[n])]
<1>1. PICK f : Sums(f, texts, items) /\ f[N] = total
  BY DEF SumIs
<1>2. f = [n \in 0 .. N |-> IF n = 0 THEN 0 ELSE f[n - 1] + Tokens(items[n])]
  BY <1>1 DEF Sums, TokensIn, Tokens
<1>3. h = [n \in 0 .. N |-> IF n = 0 THEN 0 ELSE h[n - 1] + Tokens(items[n])]
  BY <1>2
<1>4. TokensOf(items) = h[N]
  BY DEF TokensOf
<1> HIDE DEF h
<1> DEFINE Bad == {n \in Nat : n <= N /\ h[n] # f[n]}
<1>5. ASSUME Bad # {} PROVE FALSE
  <2>1. PICK m \in Bad : \A n \in Bad : m <= n
    <3>1. Bad \subseteq Nat
      OBVIOUS
    <3> HIDE DEF Bad
    <3> QED
      BY <1>5, <3>1, LeastIsInSet
  <2>2. m \in 0 .. N /\ h[m] # f[m]
    BY <2>1
  <2>3. m # 0
    BY <1>2, <1>3, <2>2
  <2>4. m - 1 \in Nat /\ m - 1 <= N /\ m - 1 \notin Bad
    <3>1. m - 1 \in Nat /\ m - 1 <= N /\ ~(m <= m - 1)
      BY <2>2, <2>3
    <3> HIDE DEF Bad
    <3> QED
      BY <2>1, <3>1
  <2>5. h[m - 1] = f[m - 1]
    BY <2>4
  <2> QED
    BY <1>2, <1>3, <2>2, <2>3, <2>5
<1>6. N \in Nat /\ N \notin Bad
  <2> HIDE DEF Bad
  <2> QED
    BY <1>5
<1> QED
  BY <1>1, <1>4, <1>6

LEMMA TokensInitInv == EmbedInit => TokensInv
  BY NothingToSum DEF EmbedInit, TokensInv

LEMMA TokensStepInv ==
    ASSUME EmbedInv, TokensInv, [EmbedNext]_embedVars
    PROVE  TokensInv'
<1>0. /\ batch \in Seq(Nat) /\ sent \in Seq(Request) /\ texts \in Seq(Nat)
      /\ vectors \in Seq(Nat) /\ tokens \in Nat
  BY DEF EmbedInv, EmbedTypeOK
<1>1. ASSUME SendBatch, texts' = texts
      PROVE  \A k \in DOMAIN sent' : SumIs(texts', sent'[k].items, sent'[k].tokens)
  <2> DEFINE r == [items |-> batch, tokens |-> tokens]
  <2>1. r \in Request
    BY <1>0 DEF Request
  <2>2. sent' = Append(sent, r)
    BY <1>1 DEF SendBatch
  <2>3. /\ DOMAIN sent' = 1 .. Len(sent) + 1
        /\ \A k \in DOMAIN sent : sent'[k] = sent[k]
        /\ sent'[Len(sent) + 1] = r
        /\ DOMAIN sent = 1 .. Len(sent)
    BY <1>0, <2>1, <2>2
  <2>4. ASSUME NEW k \in DOMAIN sent' PROVE SumIs(texts', sent'[k].items, sent'[k].tokens)
    <3>1. CASE k = Len(sent) + 1
      BY <1>1, <2>3, <3>1 DEF TokensInv
    <3>2. CASE k # Len(sent) + 1
      <4>1. k \in DOMAIN sent /\ sent'[k] = sent[k]
        BY <1>0, <2>3, <3>2
      <4> QED
        BY <1>1, <4>1 DEF TokensInv
    <3> QED
      BY <3>1, <3>2
  <2> QED
    BY <2>4
<1>2. ASSUME Taken < Len(texts)
      PROVE  /\ Taken + 1 \in Nat /\ Tokens(Taken + 1) \in Nat
             /\ Tokens(Taken + 1) = TokensIn(texts, Taken + 1)
  <2>1. Taken + 1 \in 1 .. Len(texts)
    BY <1>0, <1>2 DEF Taken
  <2> QED
    BY <2>1, TokensFit, LimitsAssumption DEF EmbedInv, Tokens, TokensIn
<1>3. CASE \E lengths \in Seq(Nat) : Begin(lengths)
  <2>1. /\ phase = "idle" /\ UNCHANGED <<batch, tokens, sent>>
    BY <1>3 DEF Begin
  <2>2. batch = <<>> /\ sent = <<>> /\ tokens = 0
    BY <2>1 DEF EmbedInv, CountsThrough, BatchFits
  <2> QED
    BY <2>1, <2>2, NothingToSum DEF TokensInv
<1>4. CASE AddText
  BY <1>0, <1>2, <1>4, OneMoreToSum DEF AddText, TokensInv
<1>5. CASE FlushAndAdd
  <2>1. SumIs(texts, Append(<<>>, Taken + 1), 0 + TokensIn(texts, Taken + 1))
    <3>1. SumIs(texts, <<>>, 0)
      BY NothingToSum
    <3>2. Taken + 1 \in Nat
      BY <1>2, <1>5 DEF FlushAndAdd
    <3>3. <<>> \in Seq(Nat)
      OBVIOUS
    <3> QED
      BY <3>1, <3>2, <3>3, OneMoreToSum
  <2>2. SumIs(texts, <<Taken + 1>>, Tokens(Taken + 1))
    <3>1. Append(<<>>, Taken + 1) = <<Taken + 1>>
      BY <1>2, <1>5 DEF FlushAndAdd
    <3>2. 0 + TokensIn(texts, Taken + 1) = Tokens(Taken + 1)
      BY <1>2, <1>5 DEF FlushAndAdd
    <3> QED
      BY <2>1, <3>1, <3>2
  <2> QED
    BY <1>1, <1>5, <2>2 DEF FlushAndAdd, TokensInv
<1>6. CASE FlushLast
  BY <1>1, <1>6, NothingToSum DEF FlushLast, TokensInv
<1>7. CASE SendFails
  BY <1>7 DEF SendFails, TokensInv
<1>8. CASE Return
  BY <1>8, NothingToSum DEF Return, TokensInv
<1>9. CASE UNCHANGED embedVars
  BY <1>9 DEF embedVars, TokensInv
<1> QED
  BY <1>3, <1>4, <1>5, <1>6, <1>7, <1>8, <1>9 DEF EmbedNext, EmbedStep

\* However the texts of a page are spread over requests, what a request was
\* weighed at against Voyage's limit is the sum of its own texts' estimates:
\* no text is left out of it or counted for two requests.
THEOREM TokensAlwaysCounted == PageSpec => []TokensAreCounted
<1>1. PageInit => TokensInv
  BY TokensInitInv DEF PageInit
<1>2. PageInv /\ EmbedInv /\ TokensInv /\ [PageNext]_allVars => TokensInv'
  BY PageStepEmbeds, TokensStepInv DEF PageInv
<1>3. EmbedInv /\ TokensInv => TokensAreCounted
  <2> SUFFICES ASSUME EmbedInv, TokensInv, NEW k \in DOMAIN sent
               PROVE  sent[k].tokens = TokensOf(sent[k].items)
    BY DEF TokensAreCounted
  <2>1. sent \in Seq(Request)
    BY DEF EmbedInv, EmbedTypeOK
  <2>2. sent[k] \in Request
    BY <2>1
  <2>3. sent[k].items \in Seq(Nat)
    BY <2>2 DEF Request
  <2>4. SumIs(texts, sent[k].items, sent[k].tokens)
    BY DEF TokensInv
  <2> QED
    BY <2>3, <2>4, SumIsComputed
<1> QED
  BY <1>1, <1>2, <1>3, PageInvariant, PTL DEF PageSpec
=============================================================================

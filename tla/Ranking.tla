------------------------------ MODULE Ranking ------------------------------
(***************************************************************************)
(* The order in which one search hands its candidates on: hybrid_search    *)
(* from the two channels' lists to the list the route enumerates.  Fuse by *)
(* reciprocal rank, rerank by title, rerank by product, cut to top_k, pick *)
(* the leading document and its anchor page, rerank within that document,  *)
(* append the anchor's neighbours up to the budget, drop what is not there *)
(* any more.                                                               *)
(*                                                                         *)
(* A hit keeps the raw RRF score throughout; each rerank sorts by that     *)
(* score plus its own boost.  Scores are counted in units of 10^-7.   *)
(* Texts and titles enter through what the reranks find in them.           *)
(***************************************************************************)
EXTENDS Listing

CONSTANTS
    Docs,        \* documents, as numbers
    Pdfs,        \* those that are PDFs
    Chunks,      \* chunk ids
    DocOf,       \* DocOf[c]
    Ordinal,     \* Ordinal[c]: its page or block number
    Channels,    \* lists a channel can return
    Overlaps,    \* title tokens shared with the question, per document
    Products,    \* per document 1, 0, -1: match, no facet, other product
    Specs,       \* sets of chunks with a torque value and a question token
    Gone,        \* sets of chunks whose rows are gone when they are loaded
    TopKs, Budgets, PageWindow

\* Ids are serial columns and begin with 1; 0 stands for no document, no chunk.
ASSUME DocsAssumption == Docs \subseteq Nat \ {0} /\ Pdfs \subseteq Docs
ASSUME ChunksAssumption ==
    /\ Chunks \subseteq Nat \ {0} /\ IsFiniteSet(Chunks)
    /\ DocOf \in [Chunks -> Docs] /\ Ordinal \in [Chunks -> Nat]
\* UniqueConstraint("document_id", "ordinal")
ASSUME OrdinalAssumption ==
    \A c, d \in Chunks : DocOf[c] = DocOf[d] /\ Ordinal[c] = Ordinal[d] => c = d
\* A channel is one SELECT over the chunk rows: it returns none of them twice.
ASSUME ChannelsAssumption ==
    \A s \in Channels :
      s \in Seq(Chunks) /\ \A m, n \in 1 .. Len(s) : s[m] = s[n] => m = n
ASSUME InputsAssumption ==
    /\ Overlaps \subseteq [Docs -> Nat] /\ Products \subseteq [Docs -> {-1, 0, 1}]
    /\ Specs \subseteq SUBSET Chunks /\ Gone \subseteq SUBSET Chunks
    /\ TopKs \subseteq Nat \ {0} /\ Budgets \subseteq Nat \ {0} /\ PageWindow \in Nat

Unit == 10000000
RRF_K == 60
RANK_AGG_K == 60
TITLE_TOKEN_BOOST == 5000
TITLE_BOOST_CAP == 15000
PRODUCT_BOOST == 5000      \* and the same as a penalty
RERANK_BONUS == 5000

VARIABLES
    input,   \* what the search works on
    stage,   \* the step that comes next
    list,    \* the hits in their current order
    score,   \* score[c]: the raw score the hit on c carries
    base,    \* the first top_k of them
    leader,  \* leading document and its anchor page
    result   \* the candidates

vars == <<input, stage, list, score, base, leader, result>>

Elements(s) == {s[n] : n \in 1 .. Len(s)}
Before(s, a, b) ==
    \E m, n \in 1 .. Len(s) : m < n /\ s[m] = a /\ s[n] = b
Cut(s, n) == SubSeq(s, 1, IF n < Len(s) THEN n ELSE Len(s))

\* sorted(s, key=..., reverse=True): stable, highest key first.
SortBy(s, key) ==
    LET places == 1 .. Len(s)
        order == Listed(places, {p \in places \X places :
                           \/ key[s[p[1]]] > key[s[p[2]]]
                           \/ key[s[p[1]]] = key[s[p[2]]] /\ p[1] <= p[2]})
    IN [n \in places |-> s[order[n]]]

\* 1 / (k + rank) for the rank c has in s, 0 when it is not there.
Reciprocal(s, c, k) ==
    IF c \in Elements(s)
    THEN Unit \div (k + CHOOSE n \in 1 .. Len(s) : s[n] = c) ELSE 0

Found(c) == c \in Chunks \ input.gone

Init ==
    /\ input \in [keyword : Channels, vector : Channels, tokens : BOOLEAN,
                  overlap : Overlaps, named : BOOLEAN, product : Products,
                  specs : Specs, gone : Gone, top_k : TopKs, budget : Budgets]
    /\ ~input.tokens => input.specs = {} /\ \A d \in Docs : input.overlap[d] = 0
    /\ ~input.named => \A d \in Docs : input.product[d] = 0
    /\ stage = "fuse"
    /\ list = <<>> /\ score = <<>> /\ base = <<>> /\ result = <<>>
    /\ leader = [doc |-> 0, chunk |-> 0]

-----------------------------------------------------------------------------
RRF == [c \in Elements(input.keyword) \cup Elements(input.vector) |->
          Reciprocal(input.keyword, c, RRF_K) + Reciprocal(input.vector, c, RRF_K)]

\* mutant: a chunk that both channels found is listed twice
FuseConcatenated ==
    /\ stage = "fuse"
    /\ score' = RRF
    /\ list' = SortBy(input.keyword \o input.vector, score')
    /\ stage' = "title"
    /\ UNCHANGED <<input, base, leader, result>>

\* _reciprocal_rank_fusion: a dictionary in order of first sight, sorted.
Fuse ==
    /\ stage = "fuse"
    /\ score' = RRF
    /\ LET all == input.keyword \o input.vector
           first == {n \in 1 .. Len(all) : \A m \in 1 .. n - 1 : all[m] # all[n]}
       IN list' = SortBy(Keeping(all, first), score')
    /\ stage' = "title"
    /\ UNCHANGED <<input, base, leader, result>>

\* mutant: a tenth of an RRF gap became ten, and no cap
TitleBoostSlipped(c) == IF Found(c) THEN 10 * TITLE_TOKEN_BOOST * input.overlap[DocOf[c]] ELSE 0

TitleBoost(c) ==
    IF ~Found(c) THEN 0
    ELSE Least({TITLE_TOKEN_BOOST * input.overlap[DocOf[c]], TITLE_BOOST_CAP})

RerankByTitle ==
    /\ stage = "title"
    /\ LET boosted == [c \in Elements(list) |-> score[c] + TitleBoost(c)] IN
       list' = IF input.tokens THEN SortBy(list, boosted) ELSE list
    /\ stage' = "product"
    /\ UNCHANGED <<input, score, base, leader, result>>

ProductDelta(c) ==
    IF Found(c) THEN PRODUCT_BOOST * input.product[DocOf[c]] ELSE 0

\* A question that names no product leaves the order alone.
RerankByProduct ==
    /\ stage = "product"
    /\ LET boosted == [c \in Elements(list) |-> score[c] + ProductDelta(c)] IN
       list' = IF input.named THEN SortBy(list, boosted) ELSE list
    /\ stage' = "leader"
    /\ UNCHANGED <<input, score, base, leader, result>>

\* _aggregate_to_documents: rank-weighted evidence of the pages that are there.
DocScore(d) ==
    LET weight == [n \in 1 .. Len(list) |->
                     IF Found(list[n]) /\ DocOf[list[n]] = d
                     THEN Unit \div (RANK_AGG_K + n) ELSE 0]
        sum[n \in 0 .. Len(list)] == IF n = 0 THEN 0 ELSE sum[n - 1] + weight[n]
    IN sum[Len(list)]

LeadingDoc ==
    LET seen == {DocOf[c] : c \in {e \in Elements(list) : Found(e)}} IN
    IF seen = {} THEN 0
    ELSE Least({d \in seen : \A e \in seen : DocScore(d) >= DocScore(e)})

\* The anchor: the best page of the leading document in the base, by raw
\* score and id, else its first page in the list.
Anchor(d) ==
    LET pages(s) == {c \in Elements(s) : Found(c) /\ DocOf[c] = d}
        top == Cut(list, input.top_k)
    IN IF pages(top) # {}
       THEN Least({c \in pages(top) : \A e \in pages(top) : score[c] >= score[e]})
       ELSE list[Least({n \in 1 .. Len(list) : list[n] \in pages(list)})]

PickLeader ==
    /\ stage = "leader"
    /\ base' = Cut(list, input.top_k)
    /\ leader' = [doc |-> LeadingDoc,
                  chunk |-> IF LeadingDoc = 0 THEN 0 ELSE Anchor(LeadingDoc)]
    /\ stage' = "assemble"
    /\ UNCHANGED <<input, list, score, result>>

\* _rerank_within_doc.
WithinDoc(s) ==
    LET boosted == [c \in Elements(s) |-> score[c] +
          IF Found(c) /\ DocOf[c] = leader.doc /\ c \in input.specs
          THEN RERANK_BONUS ELSE 0]
    IN IF input.tokens THEN SortBy(s, boosted) ELSE s

Distance(c) ==
    LET d == Ordinal[c] - Ordinal[leader.chunk] IN IF d < 0 THEN -d ELSE d

\* mutant: the anchor itself is no neighbour
NeighboursOnly ==
    {c \in Chunks : DocOf[c] = leader.doc /\ Distance(c) \in 1 .. PageWindow}

\* _LOAD_DOC_NEIGHBORS_SQL, a statement of its own.
Neighbours ==
    {c \in Chunks : DocOf[c] = leader.doc /\ Distance(c) <= PageWindow}

\* The neighbours that are not in s, closest first, lower page first.
Closest(s) ==
    LET new == Neighbours \ Elements(s)
    IN Listed(new, {p \in new \X new :
                      \/ Distance(p[1]) < Distance(p[2])
                      \/ Distance(p[1]) = Distance(p[2]) /\ Ordinal[p[1]] <= Ordinal[p[2]]})

\* mutant: the pages that are in the base already are appended again
AppendedTwice(s) ==
    LET byPage == {p \in Neighbours \X Neighbours : Ordinal[p[1]] <= Ordinal[p[2]]}
    IN Cut(s \o Listed(Neighbours, byPage), input.budget)

\* _assemble_candidates.
Appended(s) == Cut(s \o Closest(s), input.budget)

\* Only the leading PDF is expanded.  A hit whose row is gone is skipped; the
\* neighbours were loaded later and are there.
Expands == leader.doc \in Pdfs /\ PageWindow > 0

Assemble ==
    /\ stage = "assemble"
    /\ LET all == IF Expands THEN Appended(WithinDoc(base)) ELSE Cut(base, input.budget)
           there == {n \in 1 .. Len(all) :
                       Found(all[n]) \/ (Expands /\ all[n] \in Neighbours)}
       IN result' = Keeping(all, there)
    /\ stage' = "done"
    /\ UNCHANGED <<input, list, score, base, leader>>

Next == Fuse \/ RerankByTitle \/ RerankByProduct \/ PickLeader \/ Assemble

Spec == Init /\ [][Next]_vars

-----------------------------------------------------------------------------
(* Properties.                                                             *)

TypeOK ==
    /\ stage \in {"fuse", "title", "product", "leader", "assemble", "done"}
    /\ Elements(list) \subseteq Chunks
    /\ Cardinality(Elements(list)) = Len(list)
    /\ score \in [Elements(list) -> Nat]
    /\ Elements(base) \subseteq Elements(list)
    /\ leader \in [doc : Docs \cup {0}, chunk : Chunks \cup {0}]
    /\ Elements(result) \subseteq Chunks

\* The candidates are what the route may number: no chunk twice, no more than
\* the budget, hits and pages around the anchor only, and no hit of the cut
\* gave way to a neighbour.
CandidatesAreSound ==
    stage = "done" =>
      /\ Cardinality(Elements(result)) = Len(result)
      /\ Len(result) <= input.budget
      /\ Elements(result) \subseteq Elements(base) \cup Neighbours
      /\ \/ {c \in Elements(base) : Found(c)} \subseteq Elements(result)
         \/ Elements(result) \subseteq Elements(base)

\* A PDF that leads is shown: when the budget goes beyond the cut, its anchor
\* page is among the candidates, even if the PDF won on pages below the cut.
LeadingDocumentIsShown ==
    stage = "done" /\ Expands /\ Len(base) < input.budget =>
      leader.chunk \in Elements(result)

\* "a far-ahead candidate is never displaced": whatever the title, the product
\* and the text say, a hit that leads by more than the boosts stays ahead.
FarAheadStaysAhead ==
    \A a, b \in Elements(list) : score[a] > score[b] + TITLE_BOOST_CAP =>
      /\ Before(list, a, b)
      /\ {a, b} \subseteq Elements(base) \cap Elements(result) => Before(result, a, b)

\* "its ORDER already encodes #28's product boost and #29's title rerank": of
\* two hits alike in product, the one whose title speaks for it comes first.
TitleOrderIsKept ==
    stage \in {"leader", "assemble", "done"} =>
      \A a, b \in Elements(list) :
        /\ ProductDelta(a) = ProductDelta(b)
        /\ score[a] + TitleBoost(a) > score[b] + TitleBoost(b)
        => Before(list, a, b)
=============================================================================

------------------------- MODULE SearchDuringIngest -------------------------
(***************************************************************************)
(* A question answered from the HTML manuals while the operator's commands *)
(* run one after the other: hybrid_search and the route read the chunk     *)
(* rows in one statement after another, and every statement sees what is   *)
(* committed when it starts.  An ingest that commits in between replaces   *)
(* all rows of its publication by rows with new ids.                       *)
(***************************************************************************)
EXTENDS HtmlIngestion, HtmlParser

CONSTANTS
    Manual,      \* Manual[v]: the page with content v
    PerChannel,  \* rows a channel returns at most
    TopK         \* candidates the client asks for

ASSUME InTurn == Exclusive
ASSUME PubsAssumption == IsFiniteSet(Pubs)
ASSUME ManualAssumption ==
    \A v \in Versions : /\ Manual[v] \in Page
                        /\ Len(ParsePublication(Manual[v])) = ChunkCount[v]
ASSUME LimitsAssumption == PerChannel \in Nat \ {0} /\ TopK \in Nat \ {0}

VARIABLE ask  \* the request

\* A chunk row a statement returned.  gone: its id has been deleted since.
FoundRow == [pub : Pubs, ord : Nat, ver : Versions, gone : BOOLEAN]
Candidate == [hit : FoundRow, module : BOOLEAN, text : Text, label : Fragment]
AskState == [pc      : {"idle", "keyword", "vector", "load", "modules",
                        "answered", "nothing"},
             found   : SUBSET FoundRow,       \* ids the channels returned
             missed  : BOOLEAN,               \* some of them were gone
             hits    : SUBSET FoundRow,       \* loaded, no text yet
             sources : SUBSET Candidate]

allVars == <<vars, ask>>

Asked(pc) == [pc |-> pc, found |-> {}, missed |-> FALSE, hits |-> {}, sources |-> {}]

SearchInit == Init /\ ask = Asked("idle")

Visible == UNION {{[pub |-> p, ord |-> k.ord, ver |-> k.ver, gone |-> FALSE] :
                     k \in chunks[p]} : p \in Pubs}

\* What the parser made of each content.
Parsed == [v \in Versions |-> ParsePublication(Manual[v])]
Content(row) == Parsed[row.ver][row.ord]

-----------------------------------------------------------------------------
(* The commands.                                                           *)

\* The rows of p that the request knows by id are gone.
Replace(p) ==
    ask' = [ask EXCEPT !.found =
              {[row EXCEPT !.gone = row.gone \/ row.pub = p] : row \in ask.found}]

Commands ==
    \/ \E p \in Pubs : Publish(p) /\ UNCHANGED ask
    \/ \E c \in Crawlers : /\ StartCrawl(c) \/ CrawlStep(c) \/ AbortCrawl(c)
                           /\ UNCHANGED ask
    \/ \E i \in Ingesters : /\ StartIngest(i) \/ AbortIngest(i)
                            /\ UNCHANGED ask
    \/ \E i \in Ingesters : /\ IngestStep(i)
                            /\ IF ing[i].pc = "commit" THEN Replace(ing[i].pub)
                                                       ELSE UNCHANGED ask

-----------------------------------------------------------------------------
(* The request.                                                            *)

Ask ==
    /\ ask.pc \in {"idle", "answered", "nothing"}
    /\ ask' = Asked("keyword")

\* The rows whose words match, the best ones.
KeywordSearch ==
    /\ ask.pc = "keyword"
    /\ \E S \in SUBSET Visible :
         /\ Cardinality(S) <= PerChannel
         /\ ask' = [ask EXCEPT !.pc = "vector", !.found = S]

\* The nearest rows, whatever their distance.
VectorSearch ==
    /\ ask.pc = "vector"
    /\ \E S \in SUBSET Visible :
         /\ Cardinality(S) = Min({PerChannel, Cardinality(Visible)})
         /\ ask' = IF ask.found \cup S = {} THEN Asked("nothing")
                   ELSE [ask EXCEPT !.pc = "load", !.found = @ \cup S]

\* The rows that still exist are loaded and the fused list is cut to top_k,
\* counting the ids whose rows are gone; the rest become hits.
LoadRows ==
    /\ ask.pc = "load"
    /\ \E base \in SUBSET ask.found :
         LET hits == {row \in base : ~row.gone} IN
         /\ Cardinality(base) = Min({TopK, Cardinality(ask.found)})
         /\ ask' = IF hits = {}
                   THEN [Asked("nothing") EXCEPT !.missed = TRUE]
                   ELSE [ask EXCEPT !.pc = "modules", !.found = {}, !.hits = hits,
                                    !.missed = \E row \in base : row.gone]

\* mutant: the module is looked up by its hash alone
RowsOfAnyDocument(p) ==
    LET Rows(q) == Listed(chunks[q], {r \in chunks[q] \X chunks[q] : r[1].ord <= r[2].ord})
        all == FlattenSeq(SetToSeq({Rows(q) : q \in Pubs}))
    IN [k \in DOMAIN all |-> Content(all[k])]

\* The committed rows of p's document, in their order.
RowsOf(p) ==
    LET rows == Listed(chunks[p], {r \in chunks[p] \X chunks[p] : r[1].ord <= r[2].ord})
    IN [k \in DOMAIN rows |-> Content(rows[k])]

\* _module_text and _html_label: the whole owning module when the hit has one
\* and it is still there, the hit itself otherwise; the first line is the label.
Source(row) ==
    LET chunk == Content(row)
        module == IF chunk.parent = NoHash THEN <<>>
                  ELSE ModuleText(RowsOf(row.pub), chunk.parent)
        text == IF module = <<>> THEN chunk.text ELSE module
    IN [hit |-> row, module |-> module # <<>>, text |-> text, label |-> text[1]]

FetchModule ==
    /\ ask.pc = "modules"
    /\ \E row \in ask.hits :
         ask' = [ask EXCEPT !.hits = @ \ {row},
                            !.sources = @ \cup {Source(row)},
                            !.pc = IF ask.hits = {row} THEN "answered" ELSE "modules"]

\* A statement fails: the request ends in an error.
StatementFails ==
    /\ ask.pc \in {"keyword", "vector", "load", "modules"}
    /\ ask' = Asked("idle")

Request == Ask \/ KeywordSearch \/ VectorSearch \/ LoadRows \/ FetchModule
             \/ StatementFails

SearchNext == Commands \/ (Request /\ UNCHANGED vars)

SearchSpec == SearchInit /\ [][SearchNext]_allVars

-----------------------------------------------------------------------------
(* Properties.                                                             *)

\* The contents of its page a source may come from: its document has held
\* them at some time since the hit was loaded.
Contents(s) == s.hit.ver .. IndexedVersion(s.hit.pub)
Parent(s) == Content(s.hit).parent
IsModuleOf(s, v) ==
    WordsOf(s.text) \ {"Tools:"} = PrintedUnder(Manual[v], Parent(s)) \ {"Tools:"}

\* Small-to-big: what Claude reads is all that one content of the page has
\* under the hit's module, never a part of it, a mixture of two contents or
\* another publication's; a hit stands alone only if it is in no module or
\* a newer content no longer has the module (_module_text, insert_chunk).
SourcesAreWholeModules ==
    \A s \in ask.sources :
      IF s.module THEN \E v \in Contents(s) : IsModuleOf(s, v)
      ELSE \/ Parent(s) = NoHash
           \/ \E v \in Contents(s) : v > s.hit.ver /\ PrintedUnder(Manual[v], Parent(s)) = {}

\* "module reconstruction always starts with the title, which the API uses as
\* the candidate label": so it does for a module that has one in the content it
\* was read from.
LabelIsTheTitle ==
    \A s \in ask.sources :
      s.module => \E v \in Contents(s) :
        /\ IsModuleOf(s, v)
        /\ LET title == TitleUnder(Manual[v], Parent(s))
           IN title # <<>> => s.label = title

\* A question finds nothing only if nothing is indexed, or if a publication
\* was ingested again between two statements of the search.
NothingOnlyWhenReplaced ==
    [][/\ ask.pc = "vector" /\ ask'.pc = "nothing" => docs = {}
       /\ ask.pc = "load" /\ ask'.pc = "nothing" =>
            \E row \in ask.found : row.gone]_allVars
=============================================================================

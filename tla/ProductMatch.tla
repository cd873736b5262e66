---------------------------- MODULE ProductMatch ----------------------------
(***************************************************************************)
(* retrieval/product_match.py: the product a title or a question names and *)
(* whether two such products agree, with the two users of that predicate:  *)
(* the boost of a candidate (hybrid.py) and the abstention gate            *)
(* (claude_client.py).                                                     *)
(*                                                                         *)
(* A text is the sequence of its lower-case tokens; spaced says whether a  *)
(* blank stands between them (questions, titles of publications) or a      *)
(* hyphen (file names).  A token set is iterated in hash order, which      *)
(* differs from one process to the next: what the code derives from a text *)
(* is therefore a set of outcomes.                                         *)
(***************************************************************************)
EXTENDS Naturals, FiniteSets, SequencesExt

None == "none"

InCorpusBrands == {"rockshox", "sram", "avid", "zipp", "quarq"}

\* "industry-nine" and "wolf-tooth" are listed too; no token has a hyphen.
OutOfCorpusBrands ==
    {"shimano", "fox", "campagnolo", "magura", "hope", "crankbrothers", "trp",
     "box", "hayes", "tektro", "formula", "praxis", "easton", "enve", "onyx",
     "wolftooth", "industry-nine", "wolf-tooth"}

BrandPhrases ==
    <<[words |-> <<"dt", "swiss">>, brand |-> "dt-swiss"],
      [words |-> <<"race", "face">>, brand |-> "race-face"],
      [words |-> <<"chris", "king">>, brand |-> "chris-king"],
      [words |-> <<"cane", "creek">>, brand |-> "cane-creek"],
      [words |-> <<"wolf", "tooth">>, brand |-> "wolf-tooth"]>>

\* The families, in the order of the dictionary.
Families ==
    <<"pike", "lyrik", "zeb", "yari", "sid", "sidluxe", "revelation", "reba",
      "recon", "sektor", "domain", "boxxer", "judy", "tora", "argyle", "dart",
      "bluto", "vivid", "monarch", "deluxe", "kage", "reverb", "code", "guide",
      "level", "bb7", "db", "reaktiv", "eagle", "axs", "rs1",
      "predictive-steering">>

Surface(family) ==
    CASE family = "db" -> {"db5", "db8"}
      [] family = "rs1" -> {"rs-1", "rs1"}
      [] family = "predictive-steering" -> {"predictive"}
      [] OTHER -> {family}

\* No surface token is generic: taking these out of a text changes nothing.
GenericTitleTokens ==
    {"technical", "front", "suspension", "spare", "part", "catalog", "road",
     "frame", "fit", "specifications", "safety", "instructions", "user", "udh",
     "hose", "bleed", "procedure", "adjustment"}

GuideProductVariants == {"rs", "rsc", "re", "r", "t", "ultimate"}

-----------------------------------------------------------------------------
(* Deriving a scope.                                                       *)

\* "guide" is the brake when "brake" or a variant follows: the branches for a
\* genre word before it and for a title's end only say so in other words.
GuideIsProduct(words) ==
    \E i \in 1 .. Len(words) - 1 :
      /\ words[i] = "guide"
      /\ words[i + 1] \in GuideProductVariants \cup {"brake"}

\* The phrase stands in the text, with a blank between its two words.
HasPhrase(text, phrase) ==
    /\ text.spaced
    /\ \E i \in 1 .. Len(text.words) - 1 :
         SubSeq(text.words, i, i + 1) = phrase.words

\* A phrase decides; otherwise whichever brand the iteration meets first.
DetectBrand(text) ==
    LET phrases == SelectSeq(BrandPhrases, LAMBDA p : HasPhrase(text, p))
        named == ToSet(text.words) \cap (InCorpusBrands \cup OutOfCorpusBrands)
    IN  IF phrases # <<>> THEN {Head(phrases).brand}
        ELSE IF named # {} THEN named ELSE {None}

DetectFamily(text) ==
    LET tokens == ToSet(text.words) \ GenericTitleTokens
        found == {i \in DOMAIN Families :
                    /\ Surface(Families[i]) \cap tokens # {}
                    /\ Families[i] = "guide" => GuideIsProduct(text.words)}
    IN  IF found = {} THEN None ELSE Families[Min(found)]

NoScope == [family |-> None, brand |-> None, confidence |-> 0]

IsIdentified(scope) == scope.family # None \/ scope.brand # None

Scopes(text, brandConfidence) ==
    {IF DetectFamily(text) = None /\ brand = None THEN NoScope
     ELSE [family |-> DetectFamily(text), brand |-> brand,
           confidence |-> IF DetectFamily(text) # None THEN 9
                          ELSE brandConfidence] : brand \in DetectBrand(text)}

\* Confidences in tenths.
NormalizeProduct(text) == Scopes(text, 6)
ExtractQueryScope(text) == Scopes(text, 7)

\* mutant: below the bar nothing is stored
DeriveFacetOrNothing(text) ==
    {[family |-> IF s.confidence >= 9 THEN s.family ELSE None,
      brand |-> IF s.confidence >= 9 THEN s.brand ELSE None] :
        s \in NormalizeProduct(text)}

\* What of a title is stored: a family only at a confidence of 0.9.
DeriveFacet(text) ==
    {[family |-> IF s.confidence >= 9 THEN s.family ELSE None,
      brand |-> s.brand] : s \in NormalizeProduct(text)}

-----------------------------------------------------------------------------
(* Comparing two scopes, and what hangs on it.                             *)

\* mutant: two brands are compared before the families
ScopeMatchesBrandFirst(asked, candidate) ==
    /\ IsIdentified(asked)
    /\ IF asked.brand # None /\ candidate.brand # None
       THEN asked.brand = candidate.brand
       ELSE asked.family # None /\ candidate.family # None
              => asked.family = candidate.family

\* mutant: a family without a brand does not block a brand
ScopeMatchesNoBrand(asked, candidate) ==
    /\ IsIdentified(asked)
    /\ IF asked.family # None /\ candidate.family # None
       THEN asked.family = candidate.family
       ELSE asked.brand # None /\ candidate.brand # None
              => asked.brand = candidate.brand

ScopeMatches(asked, candidate) ==
    /\ IsIdentified(asked)
    /\ IF candidate.family = None
       THEN asked.brand # None /\ candidate.brand # None
              => asked.brand = candidate.brand
       ELSE IF asked.family # None THEN asked.family = candidate.family
            ELSE candidate.brand # None /\ asked.brand = candidate.brand

\* Whether the boost of a stored facet is up (1), down (-1) or nil (0).
ProductDelta(asked, facet) ==
    IF ~IsIdentified(facet) THEN 0
    ELSE IF ScopeMatches(asked, facet) THEN 1 ELSE -1

\* The question names a product and no title that was retrieved answers to it;
\* candidates are the scopes of the titles.
IsOutOfCorpus(asked, candidates) ==
    /\ IsIdentified(asked)
    /\ \A c \in candidates : ~ScopeMatches(asked, c)
=============================================================================

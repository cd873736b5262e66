------------------------ MODULE ProductFacetsProofs -------------------------
(***************************************************************************)
(* A stored facet is one that the title says; the boost, which reads it,   *)
(* judges as the gate, which reads the title; and the gate lets a question *)
(* to the manual of its product, and turns one about a foreign brand away: *)
(* of all titles and questions there are.                                  *)
(***************************************************************************)
EXTENDS ProductFacets, TLAPS, WellFoundedInduction

\* A title says a family, a brand.
FamilySaid(t, v) == \E f \in Facets[t] : v = f.family
BrandSaid(t, v) == \E f \in Facets[t] : v = f.brand

IngestAtWork(d) == ingest.step # "idle" /\ ingest.doc = d

\* What an ingest in flight knows of its document: the title is as it read it,
\* and a column it will not write is right already, unless it is raced.
IngestKnows ==
    ingest.step # "idle" =>
      LET r == row[ingest.doc] IN
      /\ ingest.doc \in Docs
      /\ ingest.want \in Rows
      /\ FacetOf(ingest.want) \in Facets[ingest.want.title]
      /\ r.title = ingest.seen.title
      /\ ~ingest.raced /\ ingest.want.family = ingest.seen.family
           => FamilySaid(ingest.want.title, r.family)
      /\ ~ingest.raced /\ ingest.want.brand = ingest.seen.brand
           => BrandSaid(ingest.want.title, r.brand)

\* An ingest that is not raced and a backfill go by the same title.
SameTitle(d) ==
    /\ d \notin backfill.raced => row[d].title = backfill.listed[d]
    /\ IngestAtWork(d) /\ d \notin backfill.raced
         => ingest.want.title = backfill.listed[d]
    /\ IngestAtWork(d) /\ ~ingest.raced => d \notin backfill.raced

\* A column of d that the backfill has written, will write or need not write.
FamilyInHand(d) ==
    /\ "family" \in backfill.wrote[d].cols
         => FamilySaid(backfill.listed[d], backfill.wrote[d].family)
    /\ "family" \notin backfill.wrote[d].cols /\ d \notin backfill.todo
         /\ (backfill.step = "got" /\ backfill.doc = d
               => backfill.want.family = backfill.seen.family)
         => FamilySaid(backfill.listed[d], row[d].family)

BrandInHand(d) ==
    /\ "brand" \in backfill.wrote[d].cols
         => BrandSaid(backfill.listed[d], backfill.wrote[d].brand)
    /\ "brand" \notin backfill.wrote[d].cols /\ d \notin backfill.todo
         /\ (backfill.step = "got" /\ backfill.doc = d
               => backfill.want.brand = backfill.seen.brand)
         => BrandSaid(backfill.listed[d], row[d].brand)

BackfillKnows ==
    /\ backfill.step # "idle" => \A d \in Docs :
         /\ backfill.listed[d] = NoTitle
              => backfill.wrote[d].cols = {} /\ d \notin backfill.todo
         /\ d \in backfill.todo => backfill.wrote[d].cols = {}
         /\ backfill.listed[d] # NoTitle =>
              /\ row[d].title \in Titles
              /\ SameTitle(d)
              /\ d \notin backfill.raced => FamilyInHand(d) /\ BrandInHand(d)
    /\ backfill.step = "got" =>
         /\ backfill.doc \in Docs \ backfill.todo
         /\ backfill.listed[backfill.doc] # NoTitle
         /\ backfill.wrote[backfill.doc].cols = {}
         /\ backfill.want \in Facets[backfill.listed[backfill.doc]]

FacetInv == FacetTypeOK /\ FacetAgrees /\ IngestKnows /\ BackfillKnows

-----------------------------------------------------------------------------
LEMMA FacetShape ==
    ASSUME NEW t \in Titles, NEW f \in Facets[t]
    PROVE  /\ f = [family |-> f.family, brand |-> f.brand]
           /\ f.family = DetectFamily(t)
           /\ f.family \in FamilyValues
           /\ f.brand \in BrandValues
PROOF
<1>1. f \in DeriveFacet(t)
  BY DEF Facets
<1>2. PICK s \in Scopes(t, 6) :
        f = [family |-> IF s.confidence >= 9 THEN s.family ELSE None,
             brand |-> s.brand]
  BY <1>1 DEF DeriveFacet, NormalizeProduct
<1>3. f.family = DetectFamily(t)
  BY <1>2, SMT DEF Scopes, NoScope
<1>4. f \in UNION {Facets[u] : u \in Titles}
  OBVIOUS
<1> QED
  BY <1>2, <1>3, <1>4 DEF FamilyValues, BrandValues

\* A family and a brand that a title says make a facet of it.
LEMMA SaidTogether ==
    ASSUME NEW t \in Titles, NEW r, FamilySaid(t, r.family), BrandSaid(t, r.brand)
    PROVE  FacetOf(r) \in Facets[t]
PROOF
<1>1. PICK f \in Facets[t] : r.family = f.family
  BY DEF FamilySaid
<1>2. PICK g \in Facets[t] : r.brand = g.brand
  BY DEF BrandSaid
<1>3. /\ f.family = DetectFamily(t) /\ g.family = DetectFamily(t)
      /\ g = [family |-> g.family, brand |-> g.brand]
  BY FacetShape
<1>4. FacetOf(r) = g
  BY <1>1, <1>2, <1>3 DEF FacetOf
<1> QED
  BY <1>4

LEMMA FacetSays ==
    ASSUME NEW t, NEW f \in Facets[t]
    PROVE  FamilySaid(t, f.family) /\ BrandSaid(t, f.brand)
PROOF
  BY DEF FamilySaid, BrandSaid

LEMMA OverlaidColumns ==
    ASSUME NEW r, NEW w
    PROVE  /\ Overlaid(r, w).title = r.title
           /\ Overlaid(r, w).family =
                IF "family" \in w.cols THEN w.family ELSE r.family
           /\ Overlaid(r, w).brand =
                IF "brand" \in w.cols THEN w.brand ELSE r.brand
PROOF
  BY DEF Overlaid

LEMMA InitFacet == FacetInit => FacetInv
PROOF
<1> SUFFICES ASSUME FacetInit PROVE FacetInv
  OBVIOUS
<1>1. None \in FamilyValues /\ None \in BrandValues
  BY DEF FamilyValues, BrandValues
<1>2. row \in [Docs -> Rows \cup {Absent}]
  BY <1>1 DEF FacetInit, Rows
<1>3. ingest \in [step : {"idle", "selected", "flushed"}, doc : Docs \cup {None},
                  seen : Rows \cup {Absent}, want : Rows \cup {Absent},
                  raced : BOOLEAN]
  BY DEF FacetInit, NoIngest
<1>4. backfill \in [step : {"idle", "listed", "got"},
                    listed : [Docs -> Titles \cup {NoTitle}],
                    todo : SUBSET Docs, doc : Docs \cup {None},
                    want : [family : FamilyValues, brand : BrandValues],
                    seen : [family : FamilyValues, brand : BrandValues],
                    wrote : [Docs -> [cols : SUBSET Columns,
                                      family : FamilyValues,
                                      brand : BrandValues]],
                    raced : SUBSET Docs]
  BY <1>1 DEF FacetInit, NoBackfill, FacetOf, Absent, NothingWritten
<1>5. FacetAgrees
  <2> SUFFICES ASSUME NEW d \in Docs PROVE FacetOf(row[d]) = FacetOf(Absent)
    BY DEF FacetAgrees, FacetInit, IsSettled
  <2> QED
    BY DEF FacetInit, FacetOf, Absent
<1> QED
  BY <1>2, <1>3, <1>4, <1>5
     DEF FacetInv, FacetTypeOK, FacetInit, NoIngest, NoBackfill, IngestKnows,
         BackfillKnows

-----------------------------------------------------------------------------
(* The steps of an ingest.                                                 *)

LEMMA SelectKeeps ==
    ASSUME FacetInv, NEW d \in Docs, NEW title \in Titles,
           SelectDocument(d, title)
    PROVE  FacetInv'
PROOF
<1> USE DEF FacetInv
<1> DEFINE clash == Clashes(d, title)
<1>1. PICK facet \in Facets[title] :
        ingest' = [step |-> "selected", doc |-> d, seen |-> row[d],
                   want |-> Row(title, facet), raced |-> clash]
  BY DEF SelectDocument, Refreshed
<1>2. backfill' = [backfill EXCEPT !.raced =
                     IF clash THEN backfill.raced \cup {d} ELSE backfill.raced]
  BY DEF SelectDocument
<1>3. row' = row /\ settled' = settled
  BY DEF SelectDocument
<1>4. /\ facet = [family |-> facet.family, brand |-> facet.brand]
      /\ facet.family \in FamilyValues /\ facet.brand \in BrandValues
  BY FacetShape
<1>5. /\ Row(title, facet) \in Rows
      /\ FacetOf(Row(title, facet)) \in Facets[title]
  BY <1>4 DEF Row, Rows, FacetOf
<1>6. clash \in BOOLEAN
  BY DEF Clashes
<1>7. FacetTypeOK'
  <2>1. ingest' \in [step : {"idle", "selected", "flushed"}, doc : Docs \cup {None},
                     seen : Rows \cup {Absent}, want : Rows \cup {Absent},
                     raced : BOOLEAN]
    BY <1>1, <1>5, <1>6 DEF FacetTypeOK
  <2>2. backfill.raced \cup {d} \in SUBSET Docs
    BY DEF FacetTypeOK
  <2> QED
    BY <1>2, <1>3, <2>1, <2>2 DEF FacetTypeOK
<1>8. FacetAgrees'
  BY <1>3 DEF FacetAgrees, IsSettled
<1>9. IngestKnows'
  <2>1. FamilySaid(title, facet.family) /\ BrandSaid(title, facet.brand)
    BY FacetSays
  <2> QED
    BY <1>1, <1>3, <1>5, <2>1 DEF IngestKnows, Row, FamilySaid, BrandSaid
<1>10. BackfillKnows'
  <2>1. /\ backfill'.step = backfill.step /\ backfill'.listed = backfill.listed
        /\ backfill'.todo = backfill.todo /\ backfill'.doc = backfill.doc
        /\ backfill'.want = backfill.want /\ backfill'.seen = backfill.seen
        /\ backfill'.wrote = backfill.wrote
        /\ backfill'.raced = IF clash THEN backfill.raced \cup {d}
                             ELSE backfill.raced
    BY <1>2 DEF FacetTypeOK
  <2>2. ASSUME backfill.step # "idle", NEW e \in Docs,
               backfill.listed[e] # NoTitle
        PROVE  SameTitle(e)'
    <3>1. SameTitle(e)
      BY <2>2 DEF BackfillKnows
    <3>2. CASE e = d
      BY <1>1, <1>3, <2>1, <2>2, <3>1, <3>2 DEF SameTitle, IngestAtWork, Clashes, Row
    <3>3. CASE e # d
      BY <1>1, <1>3, <2>1, <3>1, <3>3 DEF SameTitle, IngestAtWork
    <3> QED
      BY <3>2, <3>3
  <2>3. ASSUME NEW e \in Docs, e \notin backfill'.raced
        PROVE  e \notin backfill.raced
    BY <2>1, <2>3
  <2>4. ASSUME NEW e \in Docs, FamilyInHand(e), BrandInHand(e)
        PROVE  FamilyInHand(e)' /\ BrandInHand(e)'
    BY <1>3, <2>1, <2>4 DEF FamilyInHand, BrandInHand, FamilySaid, BrandSaid
  <2> HIDE DEF FacetInv
  <2>5. BackfillKnows
    BY DEF FacetInv
  <2> QED
    BY <1>3, <2>1, <2>2, <2>3, <2>4, <2>5 DEF BackfillKnows
<1> QED
  BY <1>7, <1>8, <1>9, <1>10

\* Flushing says nothing to anybody before the commit; an ingest that is over
\* only takes something away.
LEMMA IngestStepKeeps ==
    ASSUME FacetInv,
           \/ FlushDocument
           \/ AbortIngest
    PROVE  FacetInv'
PROOF
<1> USE DEF FacetInv
<1>1. /\ UNCHANGED <<row, backfill, settled>>
      /\ \/ ingest' = [ingest EXCEPT !.step = "flushed"] /\ ingest.step = "selected"
         \/ ingest' = NoIngest
  BY DEF FlushDocument, AbortIngest
<1>2. FacetTypeOK'
  <2> DEFINE IngestStates ==
        [step : {"idle", "selected", "flushed"}, doc : Docs \cup {None},
         seen : Rows \cup {Absent}, want : Rows \cup {Absent}, raced : BOOLEAN]
  <2>1. NoIngest \in IngestStates
    BY DEF NoIngest
  <2>2. [ingest EXCEPT !.step = "flushed"] \in IngestStates
    BY DEF FacetTypeOK
  <2>3. ingest' \in IngestStates
    BY <1>1, <2>1, <2>2
  <2> QED
    BY <1>1, <2>3 DEF FacetTypeOK
<1>3. FacetAgrees'
  BY <1>1 DEF FacetAgrees, IsSettled
<1>4. \/ ingest'.step = "idle"
      \/ /\ ingest.step # "idle" /\ ingest'.doc = ingest.doc
         /\ ingest'.want = ingest.want /\ ingest'.seen = ingest.seen
         /\ ingest'.raced = ingest.raced
  BY <1>1 DEF FacetTypeOK, NoIngest
<1>5. IngestKnows'
  BY <1>1, <1>4 DEF IngestKnows, FamilySaid, BrandSaid
<1>6. ASSUME NEW d \in Docs, SameTitle(d)
      PROVE  SameTitle(d)'
  BY <1>1, <1>4, <1>6 DEF SameTitle, IngestAtWork
<1>7. ASSUME NEW e \in Docs, FamilyInHand(e), BrandInHand(e)
      PROVE  FamilyInHand(e)' /\ BrandInHand(e)'
  BY <1>1, <1>7 DEF FamilyInHand, BrandInHand, FamilySaid, BrandSaid
<1>8. BackfillKnows'
  BY <1>1, <1>6, <1>7 DEF BackfillKnows
<1> QED
  BY <1>2, <1>3, <1>5, <1>8

LEMMA CommitIngestKeeps ==
    ASSUME FacetInv, CommitIngest
    PROVE  FacetInv'
PROOF
<1> USE DEF FacetInv
<1> DEFINE d == ingest.doc
           want == ingest.want
           t == ingest.want.title
           r == row'[ingest.doc]
<1>1. /\ ingest.step = "flushed" /\ backfill' = backfill /\ ingest' = NoIngest
      /\ d \in Docs /\ want \in Rows /\ FacetOf(want) \in Facets[t]
      /\ t \in Titles
  BY DEF CommitIngest, IngestKnows, Rows
<1>2. /\ row' = [row EXCEPT ![d] =
                   Overlaid([row[d] EXCEPT !.title = t],
                            Written(ingest.seen, want))]
      /\ settled' = [settled EXCEPT ![d] =
                       IF ingest.raced THEN "raced" ELSE "ingested"]
  BY DEF CommitIngest
<1>3. row[d] \in Rows \cup {Absent}
  BY <1>1 DEF FacetTypeOK
<1>4. r = [title |-> t,
           family |-> IF want.family = ingest.seen.family THEN row[d].family
                      ELSE want.family,
           brand |-> IF want.brand = ingest.seen.brand THEN row[d].brand
                     ELSE want.brand]
  <2>1. r = Overlaid([row[d] EXCEPT !.title = t], Written(ingest.seen, want))
    BY <1>1, <1>2 DEF FacetTypeOK
  <2>2. [row[d] EXCEPT !.title = t] =
          [title |-> t, family |-> row[d].family, brand |-> row[d].brand]
    BY <1>3 DEF Rows, Absent
  <2> QED
    BY <2>1, <2>2 DEF Overlaid, Written
<1>5. \A e \in Docs \ {d} : row'[e] = row[e] /\ settled'[e] = settled[e]
  BY <1>2 DEF FacetTypeOK
<1>6. settled'[d] = IF ingest.raced THEN "raced" ELSE "ingested"
  BY <1>1, <1>2 DEF FacetTypeOK
<1>7. FamilySaid(t, want.family) /\ BrandSaid(t, want.brand)
  BY <1>1, FacetSays DEF FacetOf
<1>8. r \in Rows
  <2>1. None \in FamilyValues /\ None \in BrandValues
    BY DEF FamilyValues, BrandValues
  <2> QED
    BY <1>1, <1>3, <1>4, <2>1 DEF Rows, Absent
<1>9. FacetTypeOK'
  <2>1. row' \in [Docs -> Rows \cup {Absent}]
    BY <1>1, <1>2, <1>5, <1>8 DEF FacetTypeOK
  <2>2. settled' \in [Docs -> {"migrated", "ingested", "backfilled", "raced"}]
    BY <1>2 DEF FacetTypeOK
  <2> QED
    BY <1>1, <2>1, <2>2 DEF FacetTypeOK, NoIngest
<1>10. FacetAgrees'
  <2>1. ASSUME ~ingest.raced PROVE FacetOf(r) \in Facets[t]
    <3>1. FamilySaid(t, r.family) /\ BrandSaid(t, r.brand)
      BY <1>1, <1>4, <1>7, <2>1 DEF IngestKnows
    <3> QED
      BY <1>1, <3>1, SaidTogether
  <2>2. ASSUME NEW e \in Docs
        PROVE  /\ IsSettled(e)' => FacetOf(row'[e]) \in Facets[row'[e].title]
               /\ settled'[e] = "migrated" => FacetOf(row'[e]) = FacetOf(Absent)
    <3>1. CASE e = d
      BY <1>4, <1>6, <2>1, <3>1 DEF IsSettled
    <3>2. CASE e # d
      BY <1>5, <3>2 DEF IsSettled, FacetAgrees
    <3> QED
      BY <3>1, <3>2
  <2>3. \A e \in Docs : FacetOf(row[e])' = FacetOf(row'[e])
    BY DEF FacetOf
  <2> QED
    BY <2>2, <2>3 DEF FacetAgrees
<1>11. IngestKnows'
  BY <1>1 DEF IngestKnows, NoIngest
<1>12. BackfillKnows'
  <2>1. ASSUME NEW e \in Docs, backfill.step # "idle",
               backfill.listed[e] # NoTitle
        PROVE  /\ row'[e].title \in Titles
               /\ SameTitle(e)'
               /\ e \notin backfill.raced => FamilyInHand(e)' /\ BrandInHand(e)'
    <3>1. /\ row[e].title \in Titles /\ SameTitle(e)
          /\ e \notin backfill.raced => FamilyInHand(e) /\ BrandInHand(e)
      BY <2>1 DEF BackfillKnows
    <3>2. CASE e # d
      BY <1>1, <1>5, <3>1, <3>2
         DEF SameTitle, IngestAtWork, NoIngest, FamilyInHand, BrandInHand,
             FamilySaid, BrandSaid
    <3>3. CASE e = d
      <4>1. e \notin backfill.raced => t = backfill.listed[e]
        BY <1>1, <3>1, <3>3 DEF SameTitle, IngestAtWork
      <4>2. SameTitle(e)' /\ row'[e].title \in Titles
        BY <1>1, <1>4, <3>3, <4>1 DEF SameTitle, IngestAtWork, NoIngest
      <4>3. ASSUME e \notin backfill.raced PROVE FamilyInHand(e)'
        <5>1. FamilySaid(backfill.listed[e], row[e].family)
                => FamilySaid(backfill.listed[e], r.family)
          BY <1>4, <1>7, <3>3, <4>1, <4>3
        <5> QED
          BY <1>1, <3>1, <3>3, <4>3, <5>1 DEF FamilyInHand, FamilySaid
      <4>4. ASSUME e \notin backfill.raced PROVE BrandInHand(e)'
        <5>1. BrandSaid(backfill.listed[e], row[e].brand)
                => BrandSaid(backfill.listed[e], r.brand)
          BY <1>4, <1>7, <3>3, <4>1, <4>4
        <5> QED
          BY <1>1, <3>1, <3>3, <4>4, <5>1 DEF BrandInHand, BrandSaid
      <4> QED
        BY <4>2, <4>3, <4>4
    <3> QED
      BY <3>2, <3>3
  <2> HIDE DEF FacetInv
  <2>2. BackfillKnows
    BY DEF FacetInv
  <2> QED
    BY <1>1, <2>1, <2>2 DEF BackfillKnows
<1> QED
  BY <1>9, <1>10, <1>11, <1>12

-----------------------------------------------------------------------------
(* The steps of the backfill.                                              *)

LEMMA AbortBackfillKeeps ==
    ASSUME FacetInv, AbortBackfill
    PROVE  FacetInv'
PROOF
<1> USE DEF FacetInv
<1>1. backfill' = NoBackfill /\ UNCHANGED <<row, ingest, settled>>
  BY DEF AbortBackfill
<1>2. None \in FamilyValues /\ None \in BrandValues
  BY DEF FamilyValues, BrandValues
<1>3. FacetTypeOK'
  <2>1. NoBackfill \in [step : {"idle", "listed", "got"},
                        listed : [Docs -> Titles \cup {NoTitle}],
                        todo : SUBSET Docs, doc : Docs \cup {None},
                        want : [family : FamilyValues, brand : BrandValues],
                        seen : [family : FamilyValues, brand : BrandValues],
                        wrote : [Docs -> [cols : SUBSET Columns,
                                          family : FamilyValues,
                                          brand : BrandValues]],
                        raced : SUBSET Docs]
    BY <1>2 DEF NoBackfill, FacetOf, Absent, NothingWritten
  <2> QED
    BY <1>1, <2>1 DEF FacetTypeOK
<1>4. FacetAgrees' /\ IngestKnows'
  BY <1>1 DEF FacetAgrees, IsSettled, IngestKnows, FamilySaid, BrandSaid
<1>5. BackfillKnows'
  BY <1>1 DEF BackfillKnows, NoBackfill
<1> QED
  BY <1>3, <1>4, <1>5

LEMMA ListKeeps ==
    ASSUME FacetInv, ListDocuments
    PROVE  FacetInv'
PROOF
<1> USE DEF FacetInv
<1> DEFINE d == ingest.doc
           clash == /\ ingest.step # "idle"
                    /\ ingest.seen # Absent
                    /\ ingest.want.title # row[d].title
<1>1. /\ backfill' = [NoBackfill EXCEPT
           !.step = "listed",
           !.listed = [e \in Docs |-> row[e].title],
           !.todo = {e \in Docs : row[e] # Absent},
           !.raced = IF clash THEN {d} ELSE {}]
      /\ ingest' = [ingest EXCEPT !.raced = ingest.raced \/ clash]
      /\ row' = row /\ settled' = settled
  BY DEF ListDocuments
<1>2. backfill' = [step |-> "listed", listed |-> [e \in Docs |-> row[e].title],
                   todo |-> {e \in Docs : row[e] # Absent}, doc |-> None,
                   want |-> FacetOf(Absent), seen |-> FacetOf(Absent),
                   wrote |-> [e \in Docs |-> NothingWritten],
                   raced |-> IF clash THEN {d} ELSE {}]
  BY <1>1 DEF NoBackfill
<1>3. clash => d \in Docs
  BY DEF IngestKnows
<1>4. \A e \in Docs : /\ row[e].title \in Titles \cup {NoTitle}
                      /\ row[e].title = NoTitle => row[e] = Absent
  BY TitlesAssumption DEF FacetTypeOK, Rows, Absent
<1>5. /\ ingest'.step = ingest.step /\ ingest'.doc = ingest.doc
      /\ ingest'.want = ingest.want /\ ingest'.seen = ingest.seen
      /\ ingest'.raced = (ingest.raced \/ clash)
  BY <1>1 DEF FacetTypeOK
<1>6. FacetTypeOK'
  <2>1. None \in FamilyValues /\ None \in BrandValues
    BY DEF FamilyValues, BrandValues
  <2>2. FacetOf(Absent) \in [family : FamilyValues, brand : BrandValues]
    BY <2>1 DEF FacetOf, Absent
  <2>3. [e \in Docs |-> NothingWritten] \in
          [Docs -> [cols : SUBSET Columns, family : FamilyValues,
                    brand : BrandValues]]
    BY <2>1 DEF NothingWritten
  <2>4. (IF clash THEN {d} ELSE {}) \in SUBSET Docs
    BY <1>3
  <2>5. [e \in Docs |-> row[e].title] \in [Docs -> Titles \cup {NoTitle}]
    BY <1>4
  <2>6. backfill' \in [step : {"idle", "listed", "got"},
                       listed : [Docs -> Titles \cup {NoTitle}],
                       todo : SUBSET Docs, doc : Docs \cup {None},
                       want : [family : FamilyValues, brand : BrandValues],
                       seen : [family : FamilyValues, brand : BrandValues],
                       wrote : [Docs -> [cols : SUBSET Columns,
                                         family : FamilyValues,
                                         brand : BrandValues]],
                       raced : SUBSET Docs]
    <3> HIDE DEF clash
    <3> QED
      BY <1>2, <2>2, <2>3, <2>4, <2>5
  <2>7. (ingest.raced \/ clash) \in BOOLEAN
    OBVIOUS
  <2>8. ingest' \in [step : {"idle", "selected", "flushed"}, doc : Docs \cup {None},
                     seen : Rows \cup {Absent}, want : Rows \cup {Absent},
                     raced : BOOLEAN]
    <3> HIDE DEF clash
    <3> QED
      BY <1>1, <2>7 DEF FacetTypeOK
  <2> QED
    BY <1>1, <2>6, <2>8 DEF FacetTypeOK
<1>7. FacetAgrees'
  BY <1>1 DEF FacetAgrees, IsSettled
<1>8. IngestKnows'
  BY <1>1, <1>5 DEF IngestKnows, FamilySaid, BrandSaid
<1>9. /\ backfill'.step = "listed" /\ backfill'.raced = IF clash THEN {d} ELSE {}
      /\ \A e \in Docs : /\ backfill'.listed[e] = row[e].title
                         /\ backfill'.wrote[e].cols = {}
                         /\ row[e] # Absent <=> e \in backfill'.todo
  BY <1>2 DEF NothingWritten
<1>10. BackfillKnows'
  <2>1. ASSUME NEW e \in Docs, row[e].title # NoTitle
        PROVE  row'[e].title \in Titles /\ SameTitle(e)'
    <3>1. row[e].title \in Titles /\ row[e] # Absent
      BY <1>4, <2>1 DEF Absent
    <3>2. CASE ingest.step # "idle" /\ d = e
      <4>1. ingest.seen # Absent
        BY <2>1, <3>2 DEF IngestKnows, Absent
      <4>2. clash <=> ingest.want.title # row[e].title
        BY <3>2, <4>1
      <4> HIDE DEF clash
      <4>3. e \in backfill'.raced <=> clash
        BY <1>9, <3>2
      <4>4. /\ row'[e] = row[e] /\ backfill'.listed[e] = row[e].title
            /\ ingest'.want = ingest.want /\ ingest'.raced = (ingest.raced \/ clash)
        BY <1>1, <1>5, <1>9
      <4>5. ~clash => ingest'.want.title = row[e].title
        BY <4>2, <4>4
      <4>6. ~ingest'.raced => ~clash
        BY <4>4
      <4>7. SameTitle(e)'
        BY <4>3, <4>4, <4>5, <4>6 DEF SameTitle
      <4> QED
        BY <3>1, <4>4, <4>7
    <3>3. CASE ~(ingest.step # "idle" /\ d = e)
      BY <1>1, <1>5, <1>9, <3>1, <3>3 DEF SameTitle, IngestAtWork
    <3> QED
      BY <3>2, <3>3
  <2>2. ASSUME NEW e \in Docs, row[e].title # NoTitle
        PROVE  FamilyInHand(e)' /\ BrandInHand(e)'
    <3>1. e \in backfill'.todo
      BY <1>9, <2>2 DEF Absent
    <3> QED
      BY <1>9, <3>1 DEF FamilyInHand, BrandInHand
  <2>3. \A e \in Docs : row[e].title = NoTitle => e \notin backfill'.todo
    BY <1>4, <1>9
  <2> QED
    BY <1>1, <1>9, <2>1, <2>2, <2>3 DEF BackfillKnows
<1> QED
  BY <1>6, <1>7, <1>8, <1>10

LEMMA GetKeeps ==
    ASSUME FacetInv, NEW d \in Docs, GetDocument(d)
    PROVE  FacetInv'
PROOF
<1> USE DEF FacetInv
<1>1. /\ backfill.step = "listed" /\ d \in backfill.todo
      /\ UNCHANGED <<row, ingest, settled>>
  BY DEF GetDocument
<1>2. PICK facet \in Facets[backfill.listed[d]] :
        backfill' = [backfill EXCEPT !.step = "got", !.doc = d,
                                     !.todo = backfill.todo \ {d},
                                     !.want = facet, !.seen = FacetOf(row[d])]
  BY DEF GetDocument
<1>3. /\ backfill'.step = "got" /\ backfill'.doc = d
      /\ backfill'.todo = backfill.todo \ {d}
      /\ backfill'.want = facet /\ backfill'.seen = FacetOf(row[d])
      /\ backfill'.listed = backfill.listed /\ backfill'.wrote = backfill.wrote
      /\ backfill'.raced = backfill.raced
  BY <1>2 DEF FacetTypeOK
<1>4. backfill.listed[d] \in Titles
  BY <1>1 DEF BackfillKnows, FacetTypeOK
<1>5. FacetTypeOK'
  <2>1. facet \in [family : FamilyValues, brand : BrandValues]
    BY <1>4, FacetShape
  <2>2. FacetOf(row[d]) \in [family : FamilyValues, brand : BrandValues]
    <3>1. None \in FamilyValues /\ None \in BrandValues
      BY DEF FamilyValues, BrandValues
    <3>2. row[d] \in Rows \cup {Absent}
      BY DEF FacetTypeOK
    <3> QED
      BY <3>1, <3>2 DEF FacetOf, Rows, Absent
  <2> QED
    BY <1>1, <1>2, <2>1, <2>2 DEF FacetTypeOK
<1>6. FacetAgrees' /\ IngestKnows'
  BY <1>1 DEF FacetAgrees, IsSettled, IngestKnows, FamilySaid, BrandSaid
<1>7. BackfillKnows'
  <2>1. FamilySaid(backfill.listed[d], facet.family)
        /\ BrandSaid(backfill.listed[d], facet.brand)
    BY FacetSays
  <2>2. ASSUME NEW e \in Docs
        PROVE  /\ SameTitle(e) => SameTitle(e)'
               /\ FamilyInHand(e) => FamilyInHand(e)'
               /\ BrandInHand(e) => BrandInHand(e)'
    <3>1. SameTitle(e) => SameTitle(e)'
      BY <1>1, <1>3 DEF SameTitle, IngestAtWork
    <3>2. CASE e = d
      BY <1>1, <1>3, <2>1, <3>1, <3>2
         DEF FamilyInHand, BrandInHand, FamilySaid, BrandSaid, FacetOf
    <3>3. CASE e # d
      BY <1>1, <1>3, <3>1, <3>3
         DEF FamilyInHand, BrandInHand, FamilySaid, BrandSaid
    <3> QED
      BY <3>2, <3>3
  <2> HIDE DEF FacetInv
  <2>3. BackfillKnows
    BY DEF FacetInv
  <2> QED
    BY <1>1, <1>3, <2>2, <2>3 DEF BackfillKnows
<1> QED
  BY <1>5, <1>6, <1>7

LEMMA SetKeeps ==
    ASSUME FacetInv, SetProductFacet
    PROVE  FacetInv'
PROOF
<1> USE DEF FacetInv
<1> DEFINE d == backfill.doc
           written == Written(backfill.seen, backfill.want)
<1>1. /\ backfill.step = "got" /\ UNCHANGED <<row, ingest, settled>>
      /\ d \in Docs \ backfill.todo /\ backfill.wrote[d].cols = {}
      /\ backfill.listed[d] # NoTitle
      /\ backfill.want \in Facets[backfill.listed[d]]
  BY DEF SetProductFacet, BackfillKnows
<1>2. backfill' = [backfill EXCEPT
                     !.step = "listed", !.doc = None,
                     !.want = FacetOf(Absent), !.seen = FacetOf(Absent),
                     !.wrote = [backfill.wrote EXCEPT ![d] = written]]
  BY DEF SetProductFacet
<1>3. /\ backfill'.step = "listed" /\ backfill'.todo = backfill.todo
      /\ backfill'.listed = backfill.listed /\ backfill'.raced = backfill.raced
      /\ backfill'.wrote[d] = written
      /\ \A e \in Docs \ {d} : backfill'.wrote[e] = backfill.wrote[e]
  BY <1>1, <1>2 DEF FacetTypeOK
<1>4. /\ written.cols \in SUBSET Columns
      /\ written = [cols |-> written.cols, family |-> backfill.want.family,
                    brand |-> backfill.want.brand]
      /\ "family" \in written.cols <=> backfill.want.family # backfill.seen.family
      /\ "brand" \in written.cols <=> backfill.want.brand # backfill.seen.brand
  BY DEF Written, Columns
<1>5. FacetTypeOK'
  <2>1. None \in FamilyValues /\ None \in BrandValues
    BY DEF FamilyValues, BrandValues
  <2>2. FacetOf(Absent) \in [family : FamilyValues, brand : BrandValues]
    BY <2>1 DEF FacetOf, Absent
  <2>3. written \in [cols : SUBSET Columns, family : FamilyValues,
                     brand : BrandValues]
    <3> HIDE DEF written
    <3> QED
      BY <1>4 DEF FacetTypeOK
  <2>4. [backfill.wrote EXCEPT ![d] = written] \in
          [Docs -> [cols : SUBSET Columns, family : FamilyValues,
                    brand : BrandValues]]
    <3> HIDE DEF written
    <3> QED
      BY <2>3 DEF FacetTypeOK
  <2> HIDE DEF written
  <2> QED
    BY <1>1, <1>2, <2>2, <2>4 DEF FacetTypeOK
<1>6. FacetAgrees' /\ IngestKnows'
  BY <1>1 DEF FacetAgrees, IsSettled, IngestKnows, FamilySaid, BrandSaid
<1>7. BackfillKnows'
  <2>1. FamilySaid(backfill.listed[d], backfill.want.family)
        /\ BrandSaid(backfill.listed[d], backfill.want.brand)
    BY <1>1, FacetSays
  <2>2. ASSUME NEW e \in Docs
        PROVE  /\ SameTitle(e) => SameTitle(e)'
               /\ FamilyInHand(e) => FamilyInHand(e)'
               /\ BrandInHand(e) => BrandInHand(e)'
    <3> HIDE DEF written
    <3>1. SameTitle(e) => SameTitle(e)'
      BY <1>1, <1>3 DEF SameTitle, IngestAtWork
    <3>2. CASE e = d
      <4>1. FamilyInHand(e) => FamilyInHand(e)'
        BY <1>1, <1>3, <1>4, <2>1, <3>2 DEF FamilyInHand, FamilySaid
      <4>2. BrandInHand(e) => BrandInHand(e)'
        BY <1>1, <1>3, <1>4, <2>1, <3>2 DEF BrandInHand, BrandSaid
      <4> QED
        BY <3>1, <4>1, <4>2
    <3>3. CASE e # d
      BY <1>1, <1>3, <3>1, <3>3
         DEF FamilyInHand, BrandInHand, FamilySaid, BrandSaid
    <3> QED
      BY <3>2, <3>3
  <2> HIDE DEF FacetInv, written
  <2>3. BackfillKnows
    BY DEF FacetInv
  <2> QED
    BY <1>1, <1>3, <2>2, <2>3 DEF BackfillKnows
<1> QED
  BY <1>5, <1>6, <1>7

LEMMA CommitBackfillKeeps ==
    ASSUME FacetInv, CommitBackfill
    PROVE  FacetInv'
PROOF
<1> USE DEF FacetInv
<1>1. /\ backfill.step = "listed" /\ backfill.todo = {}
      /\ backfill' = NoBackfill /\ ingest' = ingest
      /\ row' = [e \in Docs |-> Overlaid(row[e], backfill.wrote[e])]
      /\ settled' = [e \in Docs |->
                       IF backfill.listed[e] = NoTitle THEN settled[e]
                       ELSE IF e \in backfill.raced THEN "raced"
                       ELSE "backfilled"]
  BY DEF CommitBackfill
<1>2. None \in FamilyValues /\ None \in BrandValues
  BY DEF FamilyValues, BrandValues
<1>3. ASSUME NEW e \in Docs
      PROVE  row'[e] =
               [title |-> row[e].title,
                family |-> IF "family" \in backfill.wrote[e].cols
                           THEN backfill.wrote[e].family ELSE row[e].family,
                brand |-> IF "brand" \in backfill.wrote[e].cols
                          THEN backfill.wrote[e].brand ELSE row[e].brand]
  BY <1>1 DEF Overlaid
<1>11. ASSUME NEW e \in Docs
       PROVE  /\ row'[e].title = row[e].title
              /\ row'[e].family = IF "family" \in backfill.wrote[e].cols
                                  THEN backfill.wrote[e].family ELSE row[e].family
              /\ row'[e].brand = IF "brand" \in backfill.wrote[e].cols
                                 THEN backfill.wrote[e].brand ELSE row[e].brand
  <2>1. row'[e] = Overlaid(row[e], backfill.wrote[e])
    BY <1>1
  <2> QED
    BY <2>1, OverlaidColumns
<1>4. ASSUME NEW e \in Docs, backfill.listed[e] = NoTitle
      PROVE  row'[e] = row[e]
  <2>1. backfill.wrote[e].cols = {}
    BY <1>1, <1>4 DEF BackfillKnows
  <2>2. row[e] = [title |-> row[e].title, family |-> row[e].family,
                  brand |-> row[e].brand]
    <3>1. row[e] \in Rows \cup {Absent}
      BY DEF FacetTypeOK
    <3> QED
      BY <3>1 DEF Rows, Absent
  <2> QED
    BY <1>3, <2>1, <2>2
<1>5. ASSUME NEW e \in Docs, backfill.listed[e] # NoTitle
      PROVE  row[e].title \in Titles /\ SameTitle(e)
  BY <1>1, <1>5 DEF BackfillKnows
<1>6. ASSUME NEW e \in Docs, backfill.listed[e] # NoTitle,
             e \notin backfill.raced
      PROVE  /\ row[e].title = backfill.listed[e]
             /\ FamilySaid(backfill.listed[e], row'[e].family)
             /\ BrandSaid(backfill.listed[e], row'[e].brand)
  <2>1. SameTitle(e) /\ FamilyInHand(e) /\ BrandInHand(e)
    BY <1>1, <1>6 DEF BackfillKnows
  <2>2. row[e].title = backfill.listed[e]
    BY <1>6, <2>1 DEF SameTitle
  <2>3. FamilySaid(backfill.listed[e], row'[e].family)
    <3>1. CASE "family" \in backfill.wrote[e].cols
      BY <1>11, <2>1, <3>1 DEF FamilyInHand
    <3>2. CASE "family" \notin backfill.wrote[e].cols
      <4>1. row'[e].family = row[e].family
        BY <1>11, <3>2
      <4> QED
        BY <1>1, <2>1, <3>2, <4>1 DEF FamilyInHand
    <3> QED
      BY <3>1, <3>2
  <2>4. BrandSaid(backfill.listed[e], row'[e].brand)
    <3>1. CASE "brand" \in backfill.wrote[e].cols
      BY <1>11, <2>1, <3>1 DEF BrandInHand
    <3>2. CASE "brand" \notin backfill.wrote[e].cols
      <4>1. row'[e].brand = row[e].brand
        BY <1>11, <3>2
      <4> QED
        BY <1>1, <2>1, <3>2, <4>1 DEF BrandInHand
    <3> QED
      BY <3>1, <3>2
  <2> QED
    BY <2>2, <2>3, <2>4
<1>7. FacetTypeOK'
  <2>1. ASSUME NEW e \in Docs PROVE row'[e] \in Rows \cup {Absent}
    <3>1. CASE backfill.listed[e] = NoTitle
      BY <1>4, <3>1 DEF FacetTypeOK
    <3>2. CASE backfill.listed[e] # NoTitle
      <4>1. row[e] \in Rows \cup {Absent} /\ row[e].title \in Titles
        BY <1>5, <3>2 DEF FacetTypeOK
      <4>2. row[e].family \in FamilyValues /\ row[e].brand \in BrandValues
        BY <1>2, <4>1 DEF Rows, Absent
      <4>3. backfill.wrote[e] \in [cols : SUBSET Columns, family : FamilyValues,
                                   brand : BrandValues]
        BY DEF FacetTypeOK
      <4>4. /\ backfill.wrote[e].family \in FamilyValues
            /\ backfill.wrote[e].brand \in BrandValues
        BY <4>3
      <4>5. /\ row'[e] = [title |-> row'[e].title, family |-> row'[e].family,
                          brand |-> row'[e].brand]
            /\ row'[e].title \in Titles
            /\ row'[e].family \in FamilyValues
            /\ row'[e].brand \in BrandValues
        BY <1>3, <1>11, <4>1, <4>2, <4>4
      <4> QED
        BY <4>5 DEF Rows
    <3> QED
      BY <3>1, <3>2
  <2>2. row' \in [Docs -> Rows \cup {Absent}]
    BY <1>1, <2>1
  <2>3. settled' \in [Docs -> {"migrated", "ingested", "backfilled", "raced"}]
    BY <1>1 DEF FacetTypeOK
  <2>4. NoBackfill \in [step : {"idle", "listed", "got"},
                        listed : [Docs -> Titles \cup {NoTitle}],
                        todo : SUBSET Docs, doc : Docs \cup {None},
                        want : [family : FamilyValues, brand : BrandValues],
                        seen : [family : FamilyValues, brand : BrandValues],
                        wrote : [Docs -> [cols : SUBSET Columns,
                                          family : FamilyValues,
                                          brand : BrandValues]],
                        raced : SUBSET Docs]
    BY <1>2 DEF NoBackfill, FacetOf, Absent, NothingWritten
  <2> QED
    BY <1>1, <2>2, <2>3, <2>4 DEF FacetTypeOK
<1>8. FacetAgrees'
  <2>1. ASSUME NEW e \in Docs
        PROVE  /\ IsSettled(e)' => FacetOf(row'[e]) \in Facets[row'[e].title]
               /\ settled'[e] = "migrated" => FacetOf(row'[e]) = FacetOf(Absent)
    <3>1. CASE backfill.listed[e] = NoTitle
      BY <1>1, <1>4, <3>1 DEF IsSettled, FacetAgrees
    <3>2. CASE backfill.listed[e] # NoTitle /\ e \in backfill.raced
      BY <1>1, <3>2 DEF IsSettled
    <3>3. CASE backfill.listed[e] # NoTitle /\ e \notin backfill.raced
      <4>1. /\ row[e].title = backfill.listed[e] /\ row[e].title \in Titles
            /\ FamilySaid(row[e].title, row'[e].family)
            /\ BrandSaid(row[e].title, row'[e].brand)
        BY <1>5, <1>6, <3>3
      <4>2. FacetOf(row'[e]) \in Facets[row[e].title]
        BY <4>1, SaidTogether
      <4>3. row'[e].title = row[e].title
        BY <1>11
      <4>4. settled'[e] = "backfilled"
        BY <1>1, <3>3
      <4> QED
        BY <4>2, <4>3, <4>4
    <3> QED
      BY <3>1, <3>2, <3>3
  <2>2. \A e \in Docs : FacetOf(row[e])' = FacetOf(row'[e])
    BY DEF FacetOf
  <2> QED
    BY <2>1, <2>2 DEF FacetAgrees
<1>9. IngestKnows'
  <2> SUFFICES ASSUME ingest.step # "idle"
               PROVE  LET r == row'[ingest.doc] IN
                      /\ ingest.doc \in Docs
                      /\ ingest.want \in Rows
                      /\ FacetOf(ingest.want) \in Facets[ingest.want.title]
                      /\ r.title = ingest.seen.title
                      /\ ~ingest.raced /\ ingest.want.family = ingest.seen.family
                           => FamilySaid(ingest.want.title, r.family)
                      /\ ~ingest.raced /\ ingest.want.brand = ingest.seen.brand
                           => BrandSaid(ingest.want.title, r.brand)
    BY <1>1 DEF IngestKnows, FacetOf, FamilySaid, BrandSaid
  <2> DEFINE e == ingest.doc
  <2>1. e \in Docs
    BY DEF IngestKnows
  <2>2. CASE backfill.listed[e] = NoTitle
    BY <1>4, <2>1, <2>2 DEF IngestKnows
  <2>3. CASE backfill.listed[e] # NoTitle
    <3>1. row'[e].title = row[e].title
      BY <1>11, <2>1
    <3>2. ASSUME ~ingest.raced
          PROVE  /\ FamilySaid(ingest.want.title, row'[e].family)
                 /\ BrandSaid(ingest.want.title, row'[e].brand)
      <4>1. e \notin backfill.raced /\ ingest.want.title = backfill.listed[e]
        BY <1>5, <2>1, <2>3, <3>2 DEF SameTitle, IngestAtWork
      <4> QED
        BY <1>6, <2>1, <2>3, <4>1
    <3> QED
      BY <3>1, <3>2 DEF IngestKnows
  <2> QED
    BY <2>2, <2>3
<1>10. BackfillKnows'
  BY <1>1 DEF BackfillKnows, NoBackfill
<1> QED
  BY <1>7, <1>8, <1>9, <1>10

-----------------------------------------------------------------------------
LEMMA FacetStep == FacetInv /\ [FacetNext]_facetVars => FacetInv'
PROOF
<1> SUFFICES ASSUME FacetInv, [FacetNext]_facetVars PROVE FacetInv'
  OBVIOUS
<1>1. ASSUME NEW d \in Docs, NEW title \in Titles, SelectDocument(d, title)
      PROVE  FacetInv'
  BY <1>1, SelectKeeps
<1>2. ASSUME FlushDocument \/ AbortIngest PROVE FacetInv'
  BY <1>2, IngestStepKeeps
<1>3. CASE CommitIngest
  BY <1>3, CommitIngestKeeps
<1>4. CASE ListDocuments
  BY <1>4, ListKeeps
<1>5. ASSUME NEW d \in Docs, GetDocument(d) PROVE FacetInv'
  BY <1>5, GetKeeps
<1>6. CASE SetProductFacet
  BY <1>6, SetKeeps
<1>7. CASE CommitBackfill
  BY <1>7, CommitBackfillKeeps
<1>8. CASE AbortBackfill
  BY <1>8, AbortBackfillKeeps
<1>9. CASE UNCHANGED facetVars
  BY <1>9
     DEF facetVars, FacetInv, FacetTypeOK, FacetAgrees, IsSettled, IngestKnows,
         BackfillKnows, SameTitle, IngestAtWork, FamilyInHand, BrandInHand,
         FamilySaid, BrandSaid
<1> QED
  BY <1>1, <1>2, <1>3, <1>4, <1>5, <1>6, <1>7, <1>8, <1>9 DEF FacetNext

\* However ingests and backfills interleave, a stored facet is one that the
\* title says, except for the documents retitled beside a backfill.
THEOREM FacetsAlwaysAgree == FacetSpec => []FacetAgrees
PROOF
<1>1. FacetInv => FacetAgrees
  BY DEF FacetInv
<1> QED
  BY <1>1, InitFacet, FacetStep, PTL DEF FacetSpec

-----------------------------------------------------------------------------
(* The boost and the gate.                                                 *)

\* A document that was ever settled has a title.
SettledHasTitle == \A d \in Docs : settled[d] # "migrated" => row[d].title \in Titles

LEMMA SettledHasTitleStep ==
    ASSUME FacetInv, SettledHasTitle, [FacetNext]_facetVars
    PROVE  SettledHasTitle'
<1>1. CASE CommitIngest
  <2> DEFINE d == ingest.doc
             t == ingest.want.title
  <2>1. d \in Docs /\ t \in Titles /\ row \in [Docs -> Rows \cup {Absent}]
        /\ settled \in [Docs -> {"migrated", "ingested", "backfilled", "raced"}]
    BY <1>1 DEF CommitIngest, FacetInv, FacetTypeOK, IngestKnows, Rows
  <2>2. row' = [row EXCEPT ![d] = Overlaid([row[d] EXCEPT !.title = t],
                                           Written(ingest.seen, ingest.want))]
        /\ \A e \in Docs \ {d} : settled'[e] = settled[e]
    BY <1>1, <2>1 DEF CommitIngest
  <2>3. row[d] \in Rows \cup {Absent}
    BY <2>1
  <2>4. [row[d] EXCEPT !.title = t].title = t
    BY <2>3 DEF Rows, Absent
  <2>5. row'[d].title = t
    <3> DEFINE x == [row[d] EXCEPT !.title = t]
               w == Written(ingest.seen, ingest.want)
    <3>1. row'[d] = Overlaid(x, w) /\ x.title = t
      BY <2>1, <2>2, <2>4
    <3> HIDE DEF x, w
    <3>2. Overlaid(x, w).title = x.title
      BY OverlaidColumns
    <3> QED
      BY <3>1, <3>2
  <2>6. \A e \in Docs \ {d} : row'[e] = row[e]
    BY <2>1, <2>2
  <2> QED
    BY <2>1, <2>2, <2>5, <2>6 DEF SettledHasTitle
<1>2. CASE CommitBackfill
  <2>1. \A e \in Docs : row'[e] = Overlaid(row[e], backfill.wrote[e])
    BY <1>2 DEF CommitBackfill
  <2>2. \A e \in Docs : row'[e].title = row[e].title
    BY <2>1, OverlaidColumns
  <2>3. \A e \in Docs : backfill.listed[e] # NoTitle => row[e].title \in Titles
    BY <1>2 DEF CommitBackfill, FacetInv, BackfillKnows
  <2>4. \A e \in Docs : backfill.listed[e] = NoTitle => settled'[e] = settled[e]
    BY <1>2 DEF CommitBackfill
  <2> QED
    BY <2>2, <2>3, <2>4 DEF SettledHasTitle
<1>3. CASE UNCHANGED <<row, settled>>
  BY <1>3 DEF SettledHasTitle
<1> QED
  BY <1>1, <1>2, <1>3
  DEF FacetNext, SelectDocument, FlushDocument, AbortIngest, ListDocuments,
      GetDocument, SetProductFacet, AbortBackfill, facetVars

\* What a text is taken for, as a scope and as a facet.
LEMMA ScopeSays ==
    ASSUME NEW t, NEW s \in NormalizeProduct(t)
    PROVE  /\ s.family = DetectFamily(t)
           /\ [family |-> s.family, brand |-> s.brand] \in DeriveFacet(t)
<1>1. PICK brand \in DetectBrand(t) :
        s = IF DetectFamily(t) = None /\ brand = None THEN NoScope
            ELSE [family |-> DetectFamily(t), brand |-> brand,
                  confidence |-> IF DetectFamily(t) # None THEN 9 ELSE 6]
  BY DEF NormalizeProduct, Scopes
<1>2. /\ s.family = DetectFamily(t) /\ s.brand = brand
      /\ s.confidence = IF s.family # None THEN 9
                        ELSE IF s.brand = None THEN 0 ELSE 6
  <2>1. CASE DetectFamily(t) = None /\ brand = None
    BY <1>1, <2>1 DEF NoScope
  <2>2. CASE ~(DetectFamily(t) = None /\ brand = None)
    BY <1>1, <2>2
  <2> QED
    BY <2>1, <2>2
<1>3. (IF s.confidence >= 9 THEN s.family ELSE None) = s.family
  BY <1>2
<1> QED
  BY <1>2, <1>3 DEF DeriveFacet

\* Only the family and the brand of a scope count when two are compared.
LEMMA SameVerdict ==
    ASSUME NEW asked, NEW s, NEW r, r.family = s.family, r.brand = s.brand,
           IsIdentified(asked)
    PROVE  CASE ProductDelta(asked, r) = 1 -> ScopeMatches(asked, s)
             [] ProductDelta(asked, r) = -1 -> ~ScopeMatches(asked, s)
             [] OTHER -> ~IsIdentified(s)
<1>1. ScopeMatches(asked, r) <=> ScopeMatches(asked, s)
  BY DEF ScopeMatches
<1>2. IsIdentified(r) <=> IsIdentified(s)
  BY DEF IsIdentified
<1>3. CASE ~IsIdentified(r)
  BY <1>2, <1>3 DEF ProductDelta
<1>4. CASE IsIdentified(r) /\ ScopeMatches(asked, r)
  BY <1>1, <1>4 DEF ProductDelta
<1>5. CASE IsIdentified(r) /\ ~ScopeMatches(asked, r)
  BY <1>1, <1>5 DEF ProductDelta
<1> QED
  BY <1>3, <1>4, <1>5

LEMMA StoredFacetJudges == FacetAgrees /\ SettledHasTitle => BoostAgreesWithGate
<1> SUFFICES ASSUME FacetAgrees, SettledHasTitle, NEW d \in Docs, NEW q \in Questions,
                    IsSettled(d), \A f, g \in Facets[row[d].title] : f = g,
                    NEW asked \in ExtractQueryScope(q),
                    NEW live \in NormalizeProduct(row[d].title), IsIdentified(asked)
             PROVE  CASE ProductDelta(asked, row[d]) = 1 -> ScopeMatches(asked, live)
                      [] ProductDelta(asked, row[d]) = -1 -> ~ScopeMatches(asked, live)
                      [] OTHER -> ~IsIdentified(live)
  BY DEF BoostAgreesWithGate
<1>1. row[d].title \in Titles
  BY DEF SettledHasTitle, IsSettled
<1>2. FacetOf(row[d]) \in Facets[row[d].title]
  BY DEF FacetAgrees
<1>3. [family |-> live.family, brand |-> live.brand] \in Facets[row[d].title]
  BY <1>1, ScopeSays DEF Facets
<1>4. row[d].family = live.family /\ row[d].brand = live.brand
  <2>1. FacetOf(row[d]) = [family |-> live.family, brand |-> live.brand]
    BY <1>2, <1>3
  <2> QED
    BY <2>1 DEF FacetOf
<1> QED
  BY <1>4, SameVerdict

\* However ingests and the backfill interleave, the boost goes by the stored
\* facet as the gate goes by the title, unless a title has two brands.
THEOREM BoostAgrees == FacetSpec => []BoostAgreesWithGate
<1>1. FacetInit => SettledHasTitle
  BY DEF FacetInit, SettledHasTitle
<1>2. FacetInv => FacetAgrees
  BY DEF FacetInv
<1> QED
  BY <1>1, <1>2, InitFacet, FacetStep, SettledHasTitleStep, StoredFacetJudges, PTL
  DEF FacetSpec

-----------------------------------------------------------------------------
(* The gate.                                                               *)

\* No token of a family is a generic word, and no family is called "none".
LEMMA FamiliesAreNoGenericWords ==
    ASSUME NEW i \in DOMAIN Families
    PROVE  /\ Surface(Families[i]) \cap GenericTitleTokens = {}
           /\ Families[i] # None
<1>1. i \in 1 .. 32
  BY DEF Families
<1> QED
  BY <1>1, SMTT(60) DEF Families, Surface, GenericTitleTokens, None

\* A set of numbers that is not empty has a least one.
LEMMA LeastIsInSet ==
    ASSUME NEW S, S \subseteq Nat, S # {}
    PROVE  \E x \in S : \A y \in S : x <= y
<1>1. PICK x \in S : \A y \in S : <<y, x>> \notin OpToRel(<, Nat)
  BY WFMin, NatLessThanWellFounded, Zenon
<1>2. \A y \in S : ~(y < x)
  BY <1>1, Zenon DEF OpToRel
<1> QED
  BY <1>2

\* A text that names one family is taken for it.
LEMMA NamedIsDetected ==
    ASSUME NEW text, NEW f, NamedFamilies(text) = {f}
    PROVE  DetectFamily(text) = f /\ f # None
<1> DEFINE tokens == ToSet(text.words) \ GenericTitleTokens
           found == {i \in DOMAIN Families :
                       /\ Surface(Families[i]) \cap tokens # {}
                       /\ Families[i] = "guide" => GuideIsProduct(text.words)}
<1>1. \A i \in DOMAIN Families : Families[i] \in ToSet(Families)
  BY DEF ToSet
<1>2. \A i \in DOMAIN Families :
        Surface(Families[i]) \cap tokens = Surface(Families[i]) \cap ToSet(text.words)
  BY FamiliesAreNoGenericWords
<1>3. \A i \in found : Families[i] = f
  BY <1>1, <1>2 DEF NamedFamilies
<1>4. found # {}
  <2>1. PICK i \in DOMAIN Families : f = Families[i]
    <3>1. f \in ToSet(Families)
      BY DEF NamedFamilies
    <3> QED
      BY <3>1 DEF ToSet
  <2>2. i \in found
    BY <1>2, <2>1 DEF NamedFamilies
  <2> QED
    BY <2>2
<1>5. Min(found) \in found
  <2>1. found \subseteq Nat
    BY DEF Families
  <2> HIDE DEF found
  <2>2. \E i \in found : \A j \in found : i <= j
    BY <1>4, <2>1, LeastIsInSet
  <2> QED
    BY <2>2 DEF Min
<1>6. DetectFamily(text) = Families[Min(found)]
  BY <1>4 DEF DetectFamily
<1> QED
  BY <1>3, <1>5, <1>6, FamiliesAreNoGenericWords

\* Two texts that name the same single family agree.
LEMMA SameFamilyPasses == SameProductPasses
<1> SUFFICES ASSUME NEW d \in Docs, NEW q \in Questions, NEW f,
                    NamedFamilies(q) = {f}, NamedFamilies(row[d].title) = {f},
                    NEW asked \in ExtractQueryScope(q),
                    NEW live \in NormalizeProduct(row[d].title)
             PROVE  ScopeMatches(asked, live)
  BY DEF SameProductPasses, IsOutOfCorpus
<1>1. DetectFamily(q) = f /\ DetectFamily(row[d].title) = f /\ f # None
  BY NamedIsDetected
<1>2. live.family = f
  BY <1>1, ScopeSays
<1>3. asked.family = f
  BY <1>1 DEF ExtractQueryScope, Scopes
<1> QED
  BY <1>1, <1>2, <1>3 DEF ScopeMatches, IsIdentified

\* Whatever is retrieved beside it, and whatever brands the two name: a question
\* that names one family is never turned away from a document that names it.
THEOREM RightManualPasses == FacetSpec => []SameProductPasses
  BY SameFamilyPasses, PTL

LEMMA NoneIsNoBrand == None \notin ForeignBrands
<1>1. None \notin OutOfCorpusBrands
  BY DEF None, OutOfCorpusBrands
<1>2. ASSUME NEW i \in 1 .. 5 PROVE BrandPhrases[i].brand # None
  BY <1>2 DEF None, BrandPhrases
<1>3. \A p \in ToSet(BrandPhrases) : \E i \in 1 .. 5 : p = BrandPhrases[i]
  BY DEF ToSet, BrandPhrases
<1> QED
  BY <1>1, <1>2, <1>3 DEF ForeignBrands

LEMMA ForeignIsGated == ForeignBrandIsGated
<1> SUFFICES ASSUME NEW docs \in SUBSET {d \in Docs : row[d] # Absent},
                    NEW q \in Questions,
                    DetectBrand(q) \subseteq ForeignBrands, DetectFamily(q) = None,
                    NEW lives, \A live \in lives :
                      IsIdentified(live) /\ live.brand \notin ForeignBrands,
                    NEW asked \in ExtractQueryScope(q)
             PROVE  IsOutOfCorpus(asked, lives)
  BY DEF ForeignBrandIsGated
<1>1. PICK brand \in DetectBrand(q) :
        asked = IF DetectFamily(q) = None /\ brand = None THEN NoScope
                ELSE [family |-> DetectFamily(q), brand |-> brand,
                      confidence |-> IF DetectFamily(q) # None THEN 9 ELSE 7]
  BY DEF ExtractQueryScope, Scopes
<1>2. brand \in ForeignBrands /\ brand # None
  BY NoneIsNoBrand
<1>3. asked.family = None /\ asked.brand = brand
  BY <1>1, <1>2
<1>4. ASSUME NEW live \in lives PROVE ~ScopeMatches(asked, live)
  BY <1>2, <1>3 DEF ScopeMatches, IsIdentified
<1> QED
  BY <1>2, <1>3, <1>4 DEF IsOutOfCorpus, IsIdentified

\* A question that names a foreign brand and no family is turned away by
\* documents that all name a product and none a foreign brand.
THEOREM ForeignBrandsAreTurnedAway == FacetSpec => []ForeignBrandIsGated
  BY ForeignIsGated, PTL
=============================================================================

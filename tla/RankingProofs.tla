--------------------------- MODULE RankingProofs ---------------------------
(***************************************************************************)
(* Theorems of Ranking, for every list the channels return, every title    *)
(* and product, and every limit.                                           *)
(***************************************************************************)
EXTENDS Ranking, ListingProofs

NoRepeat(s) == \A m, n \in 1 .. Len(s) : s[m] = s[n] => m = n

-----------------------------------------------------------------------------
(* What the helpers return.                                                *)

\* A list without repetitions has as many elements as places.
LEMMA NoRepeatCounts ==
    ASSUME NEW S, NEW s \in Seq(S), NoRepeat(s)
    PROVE  IsFiniteSet(Elements(s)) /\ Cardinality(Elements(s)) = Len(s)
<1> DEFINE f == [n \in 1 .. Len(s) |-> s[n]]
<1>1. Len(s) \in Nat
  OBVIOUS
<1>2. f \in Bijection(1 .. Len(s), Elements(s))
  BY Zenon DEF Bijection, Injection, IsInjective, Surjection, Elements, NoRepeat
<1>3. ExistsBijection(1 .. Len(s), Elements(s))
  BY <1>2, Zenon DEF ExistsBijection
<1> QED BY <1>1, <1>3, FS_CountingElements, FS_NatBijection

LEMMA KeyOrderIsTotal ==
    ASSUME NEW P, P \subseteq Int, NEW K, \A n \in P : K[n] \in Int, NEW R,
           \A m, n \in P : <<m, n>> \in R <=> K[m] > K[n] \/ (K[m] = K[n] /\ m <= n)
    PROVE  TotalOrder(P, R)
<1>1. ASSUME NEW x \in P, NEW y \in P
      PROVE  <<x, y>> \in R \/ <<y, x>> \in R
  <2>1. x \in Int /\ y \in Int /\ K[x] \in Int /\ K[y] \in Int
    OBVIOUS
  <2>2. K[x] > K[y] \/ K[y] > K[x] \/ (K[x] = K[y] /\ (x <= y \/ y <= x))
    BY <2>1
  <2> QED BY <2>2, Zenon
<1>2. \A x, y \in P : <<x, y>> \in R /\ <<y, x>> \in R => x = y
  OBVIOUS
<1>3. \A x, y, z \in P : <<x, y>> \in R /\ <<y, z>> \in R => <<x, z>> \in R
  OBVIOUS
<1> QED BY <1>1, <1>2, <1>3, Zenon DEF TotalOrder

\* t goes through all places of s once, in the order o.
Rearranges(t, s, o) ==
    /\ o \in [1 .. Len(s) -> 1 .. Len(s)]
    /\ \A p \in 1 .. Len(s) : \E n \in 1 .. Len(s) : o[n] = p
    /\ \A i, j \in 1 .. Len(s) : i < j => o[i] # o[j]
    /\ t = [n \in 1 .. Len(s) |-> s[o[n]]]

LEMMA Permuted ==
    ASSUME NEW S, NEW s \in Seq(S), NEW t, NEW o, Rearranges(t, s, o)
    PROVE  /\ t \in Seq(S) /\ Len(t) = Len(s)
           /\ Elements(t) = Elements(s)
           /\ NoRepeat(s) => NoRepeat(t)
<1>1. Len(s) \in Nat
  BY PlacesOf
<1>2. ASSUME NEW n \in 1 .. Len(s)
      PROVE  o[n] \in 1 .. Len(s) /\ t[n] = s[o[n]] /\ s[o[n]] \in S
  <2>1. o[n] \in 1 .. Len(s)
    BY DEF Rearranges
  <2> QED BY <2>1 DEF Rearranges
<1>3. t \in Seq(S) /\ Len(t) = Len(s)
  <2>1. t = [n \in 1 .. Len(s) |-> s[o[n]]]
    BY DEF Rearranges
  <2> QED BY <1>1, <1>2, <2>1
<1>4. Elements(t) \subseteq Elements(s)
  <2> SUFFICES ASSUME NEW n \in 1 .. Len(s)
               PROVE  t[n] \in Elements(s)
    BY <1>3, Zenon DEF Elements
  <2> QED BY <1>2, Zenon DEF Elements
<1>5. Elements(s) \subseteq Elements(t)
  <2> SUFFICES ASSUME NEW x \in Elements(s)
               PROVE  x \in Elements(t)
    OBVIOUS
  <2>1. PICK p \in 1 .. Len(s) : x = s[p]
    BY Zenon DEF Elements
  <2>2. PICK n \in 1 .. Len(s) : o[n] = p
    BY DEF Rearranges
  <2>3. t[n] = x
    BY <1>2, <2>1, <2>2, Zenon
  <2> QED BY <1>3, <2>3, Zenon DEF Elements
<1>6. ASSUME NoRepeat(s)
      PROVE  NoRepeat(t)
  <2> SUFFICES ASSUME NEW m \in 1 .. Len(s), NEW n \in 1 .. Len(s), t[m] = t[n]
               PROVE  m = n
    BY <1>3, Zenon DEF NoRepeat
  <2>1. o[m] = o[n]
    BY <1>2, <1>6 DEF NoRepeat
  <2> QED BY <1>1, <2>1 DEF Rearranges
<1> QED BY <1>3, <1>4, <1>5, <1>6

\* sorted: every element once more, and none before one with a higher key.
LEMMA SortByIsSorted ==
    ASSUME NEW S, NEW s \in Seq(S), NEW key, \A n \in 1 .. Len(s) : key[s[n]] \in Int
    PROVE  /\ SortBy(s, key) \in Seq(S) /\ Len(SortBy(s, key)) = Len(s)
           /\ Elements(SortBy(s, key)) = Elements(s)
           /\ NoRepeat(s) => NoRepeat(SortBy(s, key))
           /\ \A i, j \in 1 .. Len(s) : i < j =>
                key[SortBy(s, key)[i]] >= key[SortBy(s, key)[j]]
<1> DEFINE P == 1 .. Len(s)
           R == {p \in P \X P : \/ key[s[p[1]]] > key[s[p[2]]]
                                \/ key[s[p[1]]] = key[s[p[2]]] /\ p[1] <= p[2]}
           t == SortBy(s, key)
<1>1. /\ Len(s) \in Nat /\ IsFiniteSet(P) /\ Cardinality(P) = Len(s)
      /\ P \subseteq Int
  BY PlacesOf
<1>2. PICK K : /\ \A n \in P : K[n] = key[s[n]] /\ K[n] \in Int
  <2> WITNESS [n \in P |-> key[s[n]]]
  <2> QED OBVIOUS
<1>3. \A m, n \in P : <<m, n>> \in R <=> K[m] > K[n] \/ (K[m] = K[n] /\ m <= n)
  BY <1>2
<1>4. SortBy(s, key) = [n \in P |-> s[Listed(P, R)[n]]]
  BY DEF SortBy
<1> HIDE DEF P, R
<1>5. TotalOrder(P, R)
  BY <1>1, <1>2, <1>3, KeyOrderIsTotal
<1>6. /\ Listed(P, R) \in [1 .. Len(s) -> P]
      /\ \A p \in P : \E n \in 1 .. Len(s) : Listed(P, R)[n] = p
      /\ \A i, j \in 1 .. Len(s) : i < j =>
           Listed(P, R)[i] # Listed(P, R)[j] /\ <<Listed(P, R)[i], Listed(P, R)[j]>> \in R
  BY <1>1, <1>5, ListedIsInOrder
<1>7. PICK o : o = Listed(P, R)
  OBVIOUS
<1>8. /\ o \in [1 .. Len(s) -> 1 .. Len(s)]
      /\ \A p \in 1 .. Len(s) : \E n \in 1 .. Len(s) : o[n] = p
      /\ \A i, j \in 1 .. Len(s) : i < j => o[i] # o[j] /\ <<o[i], o[j]>> \in R
      /\ t = [n \in 1 .. Len(s) |-> s[o[n]]]
  BY <1>4, <1>6, <1>7 DEF P
<1> HIDE DEF t
<1>9. /\ t \in Seq(S) /\ Len(t) = Len(s)
      /\ Elements(t) = Elements(s)
      /\ NoRepeat(s) => NoRepeat(t)
  <2>1. Rearranges(t, s, o)
    BY <1>8, Zenon DEF Rearranges
  <2> QED BY <2>1, Permuted, Zenon
<1>10. ASSUME NEW i \in 1 .. Len(s), NEW j \in 1 .. Len(s), i < j
       PROVE  key[t[i]] >= key[t[j]]
  <2>1. o[i] \in P /\ o[j] \in P /\ <<o[i], o[j]>> \in R
    BY <1>8, <1>10 DEF P
  <2>2. t[i] = s[o[i]] /\ t[j] = s[o[j]]
    BY <1>8
  <2>3. K[o[i]] >= K[o[j]]
    BY <1>2, <1>3, <2>1
  <2> QED BY <1>2, <2>1, <2>2, <2>3
<1> QED BY <1>9, <1>10 DEF t

-----------------------------------------------------------------------------
(* Orders that a boost can not turn around.                                *)

Hits(s) == s \in Seq(Chunks) /\ NoRepeat(s)

\* Of the elements of B in s, one that is ahead of another by more than the
\* cap of the boosts comes first.
AheadIn(s, B, sc) ==
    \A i, j \in 1 .. Len(s) :
      s[i] \in B /\ s[j] \in B /\ sc[s[i]] > sc[s[j]] + TITLE_BOOST_CAP => i < j

\* No boost in key makes up for more than the cap.
Respects(key, s, sc) ==
    \A a, b \in Elements(s) :
      /\ key[a] \in Int
      /\ sc[a] > sc[b] + TITLE_BOOST_CAP => key[a] > key[b]

LEMMA SortedHits ==
    ASSUME NEW s, Hits(s), NEW key, NEW sc, Respects(key, s, sc)
    PROVE  /\ Hits(SortBy(s, key)) /\ Len(SortBy(s, key)) = Len(s)
           /\ Elements(SortBy(s, key)) = Elements(s)
           /\ AheadIn(SortBy(s, key), Elements(s), sc)
<1> DEFINE t == SortBy(s, key)
<1>1. s \in Seq(Chunks) /\ Len(s) \in Nat
  BY DEF Hits
<1>2. \A n \in 1 .. Len(s) : key[s[n]] \in Int
  BY DEF Respects, Elements
<1>3. /\ t \in Seq(Chunks) /\ Len(t) = Len(s) /\ Elements(t) = Elements(s)
      /\ NoRepeat(s) => NoRepeat(t)
      /\ \A i, j \in 1 .. Len(s) : i < j => key[t[i]] >= key[t[j]]
  BY <1>1, <1>2, SortByIsSorted
<1> HIDE DEF t
<1>4. ASSUME NEW i \in 1 .. Len(s), NEW j \in 1 .. Len(s),
             sc[t[i]] > sc[t[j]] + TITLE_BOOST_CAP, j <= i
      PROVE  FALSE
  <2>1. t[i] \in Elements(s) /\ t[j] \in Elements(s)
    BY <1>3, Zenon DEF Elements
  <2>2. key[t[i]] > key[t[j]] /\ key[t[i]] \in Int /\ key[t[j]] \in Int
    BY <1>4, <2>1 DEF Respects
  <2>3. i = j \/ key[t[j]] >= key[t[i]]
    BY <1>1, <1>3, <1>4
  <2> QED BY <2>2, <2>3
<1>5. AheadIn(t, Elements(s), sc)
  BY <1>1, <1>3, <1>4 DEF AheadIn
<1> QED BY <1>3, <1>5 DEF t, Hits

LEMMA CutHits ==
    ASSUME NEW s, Hits(s), NEW n \in Nat
    PROVE  /\ Hits(Cut(s, n)) /\ Len(Cut(s, n)) = IF n < Len(s) THEN n ELSE Len(s)
           /\ \A i \in 1 .. Len(Cut(s, n)) : i \in 1 .. Len(s) /\ Cut(s, n)[i] = s[i]
           /\ Elements(Cut(s, n)) \subseteq Elements(s)
           /\ \A B, sc : AheadIn(s, B, sc) => AheadIn(Cut(s, n), B, sc)
<1> DEFINE t == Cut(s, n)
<1>1. s \in Seq(Chunks) /\ Len(s) \in Nat
  BY DEF Hits
<1>2. PICK m \in Nat : m = IF n < Len(s) THEN n ELSE Len(s)
  BY <1>1
<1>3. t = SubSeq(s, 1, m) /\ m <= Len(s)
  BY <1>1, <1>2 DEF Cut
<1>4. t \in Seq(Chunks) /\ Len(t) = m /\ \A i \in 1 .. m : t[i] = s[i]
  BY <1>1, <1>3
<1> HIDE DEF t
<1>5. \A i \in 1 .. Len(t) : i \in 1 .. Len(s) /\ t[i] = s[i]
  BY <1>1, <1>3, <1>4
<1>6. NoRepeat(t)
  BY <1>5 DEF Hits, NoRepeat
<1>7. Elements(t) \subseteq Elements(s)
  BY <1>5 DEF Elements
<1>8. \A B, sc : AheadIn(s, B, sc) => AheadIn(t, B, sc)
  BY <1>5 DEF AheadIn
<1> QED BY <1>2, <1>4, <1>5, <1>6, <1>7, <1>8 DEF t, Hits

LEMMA KeptHits ==
    ASSUME NEW s, Hits(s), NEW places, places \subseteq 1 .. Len(s)
    PROVE  /\ Hits(Keeping(s, places)) /\ Len(Keeping(s, places)) <= Len(s)
           /\ Elements(Keeping(s, places)) = {s[p] : p \in places}
           /\ \A B, sc : AheadIn(s, B, sc) => AheadIn(Keeping(s, places), B, sc)
<1> DEFINE t == Keeping(s, places)
<1>1. s \in Seq(Chunks) /\ Len(s) \in Nat
  BY DEF Hits
<1>2. t \in Seq(Chunks) /\ Len(t) <= Len(s) /\ \E o : Walks(o, t, s, places)
  BY <1>1, KeepingIsAWalk
<1>3. PICK o : Walks(o, t, s, places)
  BY <1>2
<1> HIDE DEF t
<1>4. Len(t) \in Nat
  BY <1>2
<1>5. \A n \in 1 .. Len(t) : o[n] \in places /\ o[n] \in 1 .. Len(s) /\ t[n] = s[o[n]]
  BY <1>3 DEF Walks
<1>6. ASSUME NEW i \in 1 .. Len(t), NEW j \in 1 .. Len(t), o[i] < o[j]
      PROVE  i < j
  <2>1. i = j \/ j < i => o[j] <= o[i]
    BY <1>1, <1>3, <1>5 DEF Walks
  <2> QED BY <1>1, <1>4, <1>5, <1>6, <2>1
<1>7. NoRepeat(t)
  <2> SUFFICES ASSUME NEW m \in 1 .. Len(t), NEW n \in 1 .. Len(t), t[m] = t[n]
               PROVE  m = n
    BY DEF NoRepeat
  <2>1. o[m] = o[n]
    BY <1>5 DEF Hits, NoRepeat
  <2> QED BY <1>1, <1>3, <1>4, <1>5, <2>1 DEF Walks
<1>8. Elements(t) = {s[p] : p \in places}
  <2>1. Elements(t) \subseteq {s[p] : p \in places}
    BY <1>5 DEF Elements
  <2>2. ASSUME NEW p \in places
        PROVE  s[p] \in Elements(t)
    <3>1. PICK n \in 1 .. Len(t) : o[n] = p
      BY <1>3 DEF Walks
    <3> QED BY <1>5, <3>1 DEF Elements
  <2> QED BY <2>1, <2>2
<1>9. ASSUME NEW B, NEW sc, AheadIn(s, B, sc)
      PROVE  AheadIn(t, B, sc)
  <2> SUFFICES ASSUME NEW i \in 1 .. Len(t), NEW j \in 1 .. Len(t),
                      t[i] \in B, t[j] \in B, sc[t[i]] > sc[t[j]] + TITLE_BOOST_CAP
               PROVE  i < j
    BY DEF AheadIn
  <2>1. o[i] < o[j]
    BY <1>5, <1>9 DEF AheadIn
  <2> QED BY <1>6, <2>1
<1> QED BY <1>2, <1>7, <1>8, <1>9 DEF t, Hits

-----------------------------------------------------------------------------
(* Scores, and the best of finitely many.                                  *)

LEMMA QuotientIsNat ==
    ASSUME NEW a \in Nat, NEW b \in Nat \ {0}
    PROVE  a \div b \in Nat
OBVIOUS

\* A finite set that is not empty has an element with the highest score.
LEMMA BestExists ==
    ASSUME NEW T, IsFiniteSet(T), T # {}, NEW g, \A x \in T : g[x] \in Nat
    PROVE  \E x \in T : \A y \in T : g[x] >= g[y]
<1> DEFINE Bad == {U \in SUBSET T : U # {} /\ ~\E x \in U : \A y \in U : g[x] >= g[y]}
<1>1. ASSUME Bad # {}
      PROVE  FALSE
  <2>1. Bad \subseteq FiniteSubsetsOf(T)
    BY FS_FiniteSubsetsOfFinite
  <2>2. PICK U \in Bad : \A V \in Bad : <<V, U>> \notin StrictSubsetOrdering(T)
    <3> HIDE DEF Bad
    <3> QED BY <1>1, <2>1, WFMin, FS_StrictSubsetOrderingWellFounded
  <2>3. U \subseteq T /\ U # {} /\ ~\E x \in U : \A y \in U : g[x] >= g[y]
    OBVIOUS
  <2>4. PICK x \in U : TRUE
    BY <2>3
  <2>5. U \ {x} \notin Bad
    <3>1. U \ {x} \subseteq T /\ U \ {x} \subseteq U /\ U \ {x} # U
      BY <2>3, <2>4
    <3> HIDE DEF Bad
    <3>2. <<U \ {x}, U>> \in StrictSubsetOrdering(T)
      BY <2>3, <3>1 DEF StrictSubsetOrdering
    <3> QED BY <2>2, <3>2
  <2>6. CASE U \ {x} = {}
    <3>1. U = {x} /\ g[x] \in Nat
      BY <2>3, <2>4, <2>6
    <3> QED BY <2>3, <3>1
  <2>7. CASE U \ {x} # {}
    <3>1. PICK z \in U \ {x} : \A y \in U \ {x} : g[z] >= g[y]
      BY <2>3, <2>5, <2>7
    <3>2. g[x] \in Nat /\ g[z] \in Nat /\ \A y \in U : g[y] \in Nat
      BY <2>3, <2>4, <3>1
    <3>3. CASE g[x] >= g[z]
      <4>1. \A y \in U : g[x] >= g[y]
        BY <3>1, <3>2, <3>3
      <4> QED BY <2>3, <2>4, <4>1
    <3>4. CASE g[z] >= g[x]
      <4>1. \A y \in U : g[z] >= g[y]
        BY <3>1, <3>2, <3>4
      <4> QED BY <2>3, <3>1, <4>1
    <3> QED BY <3>2, <3>3, <3>4
  <2> QED BY <2>6, <2>7
<1> QED BY <1>1

\* The sum that DocScore takes is a number.
LEMMA SumIsNat ==
    ASSUME NEW N \in Nat, NEW w, \A n \in 1 .. N : w[n] \in Nat,
           NEW h, h = CHOOSE f : f = [n \in 0 .. N |-> IF n = 0 THEN 0 ELSE f[n - 1] + w[n]]
    PROVE  h[N] \in Nat
<1> DEFINE Sums(f, m) == f = [n \in 0 .. m |-> IF n = 0 THEN 0 ELSE f[n - 1] + w[n]]
           Bad == {m \in Nat : m <= N /\ ~\E f : Sums(f, m)}
           Wrong == {n \in Nat : n <= N /\ h[n] \notin Nat}
<1>1. ASSUME Bad # {}
      PROVE  FALSE
  <2>1. Least(Bad) \in Bad /\ \A m \in Bad : Least(Bad) <= m
    <3>1. Bad \subseteq Nat
      OBVIOUS
    <3> HIDE DEF Bad
    <3> QED BY <1>1, <3>1, LeastIsIn
  <2>2. PICK m \in Nat : m <= N /\ m = Least(Bad) /\ ~\E f : Sums(f, m)
    BY <2>1
  <2>3. CASE m = 0
    <3>1. Sums([n \in 0 .. 0 |-> 0], 0)
      OBVIOUS
    <3> HIDE DEF Sums
    <3> QED BY <2>2, <2>3, <3>1
  <2>4. CASE m > 0
    <3>1. m - 1 \in Nat /\ m - 1 <= N /\ ~(m <= m - 1)
      BY <2>2, <2>4
    <3>2. m - 1 \notin Bad
      <4> HIDE DEF Bad
      <4> QED BY <2>1, <2>2, <3>1
    <3>3. PICK f : Sums(f, m - 1)
      <4> HIDE DEF Sums
      <4> QED BY <3>1, <3>2
    <3> DEFINE e == [n \in 0 .. m |-> IF n = m THEN f[m - 1] + w[m] ELSE f[n]]
    <3>4. ASSUME NEW n \in 0 .. m
          PROVE  e[n] = IF n = 0 THEN 0 ELSE e[n - 1] + w[n]
      <4>1. CASE n = m
        BY <2>4, <3>1, <4>1
      <4>2. CASE n # m
        <5>1. n \in 0 .. m - 1 /\ e[n] = f[n] /\ (n # 0 => e[n - 1] = f[n - 1])
          BY <2>2, <4>2
        <5>2. f[n] = IF n = 0 THEN 0 ELSE f[n - 1] + w[n]
          BY <3>3, <5>1
        <5> HIDE DEF e
        <5> QED BY <5>1, <5>2
      <4> QED BY <4>1, <4>2
    <3>5. e = [n \in 0 .. m |-> IF n = 0 THEN 0 ELSE e[n - 1] + w[n]]
      <4>1. e = [n \in 0 .. m |-> e[n]]
        OBVIOUS
      <4> HIDE DEF e
      <4> QED BY <3>4, <4>1
    <3>6. Sums(e, m)
      <4> HIDE DEF e
      <4> QED BY <3>5
    <3> HIDE DEF Sums, e
    <3> QED BY <2>2, <3>6
  <2> QED BY <2>2, <2>3, <2>4
<1>2. N \notin Bad
  <2> HIDE DEF Bad
  <2> QED BY <1>1
<1>3. \E f : Sums(f, N)
  <2> HIDE DEF Sums
  <2> QED BY <1>2
<1>4. Sums(h, N)
  BY <1>3
<1>5. ASSUME NEW n \in 0 .. N
      PROVE  h[n] = IF n = 0 THEN 0 ELSE h[n - 1] + w[n]
  BY <1>4
<1>6. ASSUME Wrong # {}
      PROVE  FALSE
  <2>1. Least(Wrong) \in Wrong /\ \A m \in Wrong : Least(Wrong) <= m
    <3>1. Wrong \subseteq Nat
      OBVIOUS
    <3> HIDE DEF Wrong
    <3> QED BY <1>6, <3>1, LeastIsIn
  <2>2. PICK m \in Nat : m <= N /\ m = Least(Wrong) /\ h[m] \notin Nat
    BY <2>1
  <2>3. m # 0
    BY <1>5, <2>2
  <2>4. m - 1 \in Nat /\ m - 1 <= N /\ ~(m <= m - 1)
    BY <2>2, <2>3
  <2>5. h[m - 1] \in Nat
    BY <2>1, <2>2, <2>4
  <2>6. h[m] = h[m - 1] + w[m] /\ w[m] \in Nat
    BY <1>5, <2>2, <2>3
  <2> QED BY <2>2, <2>5, <2>6
<1>7. N \notin Wrong
  <2> HIDE DEF Wrong
  <2> QED BY <1>6
<1> QED BY <1>7


-----------------------------------------------------------------------------
(* The invariant.                                                          *)

InputOK ==
    input \in [keyword : Channels, vector : Channels, tokens : BOOLEAN,
               overlap : Overlaps, named : BOOLEAN, product : Products,
               specs : Specs, gone : Gone, top_k : TopKs, budget : Budgets]

ListOK ==
    /\ Hits(list)
    /\ score \in [Elements(list) -> Nat]
    /\ AheadIn(list, Elements(list), score)

BaseOK ==
    /\ Hits(base)
    /\ Elements(base) \subseteq Elements(list)
    /\ AheadIn(base, Elements(base), score)

\* The anchor is a page of the document that leads.
LeaderOK ==
    /\ leader \in [doc : Docs \cup {0}, chunk : Chunks \cup {0}]
    /\ leader.doc # 0 => leader.chunk \in Chunks /\ DocOf[leader.chunk] = leader.doc

ResultOK ==
    /\ Hits(result)
    /\ stage # "done" => result = <<>>
    /\ AheadIn(result, Elements(base), score)
    /\ CandidatesAreSound
    /\ LeadingDocumentIsShown

RankInv ==
    /\ InputOK
    /\ stage \in {"fuse", "title", "product", "leader", "assemble", "done"}
    /\ ListOK
    /\ BaseOK
    /\ stage \in {"fuse", "title", "product"} => base = <<>>
    /\ LeaderOK
    /\ ResultOK

LEMMA InputTypes ==
    ASSUME InputOK
    PROVE  /\ Hits(input.keyword) /\ Hits(input.vector)
           /\ input.tokens \in BOOLEAN /\ input.named \in BOOLEAN
           /\ input.overlap \in [Docs -> Nat] /\ input.product \in [Docs -> {-1, 0, 1}]
           /\ input.specs \subseteq Chunks /\ input.gone \subseteq Chunks
           /\ input.top_k \in Nat \ {0} /\ input.budget \in Nat \ {0}
<1>1. /\ input.keyword \in Channels /\ input.vector \in Channels
      /\ input.tokens \in BOOLEAN /\ input.named \in BOOLEAN
      /\ input.overlap \in Overlaps /\ input.product \in Products
      /\ input.specs \in Specs /\ input.gone \in Gone
      /\ input.top_k \in TopKs /\ input.budget \in Budgets
  BY DEF InputOK
<1>2. Hits(input.keyword) /\ Hits(input.vector)
  BY <1>1, ChannelsAssumption DEF Hits, NoRepeat
<1> QED BY <1>1, <1>2, InputsAssumption

\* What the reranks add to a score.
LEMMA Boosts ==
    ASSUME InputOK, NEW c \in Chunks
    PROVE  /\ TitleBoost(c) \in Nat /\ TitleBoost(c) <= TITLE_BOOST_CAP
           /\ ProductDelta(c) \in {-5000, 0, 5000}
<1>1. DocOf[c] \in Docs
  BY ChunksAssumption
<1>2. input.overlap[DocOf[c]] \in Nat /\ input.product[DocOf[c]] \in {-1, 0, 1}
  BY <1>1, InputTypes
<1>3. TitleBoost(c) \in Nat /\ TitleBoost(c) <= TITLE_BOOST_CAP
  <2> DEFINE S == {TITLE_TOKEN_BOOST * input.overlap[DocOf[c]], TITLE_BOOST_CAP}
  <2>1. S \subseteq Nat /\ S # {} /\ TITLE_BOOST_CAP \in S
    BY <1>2 DEF TITLE_TOKEN_BOOST, TITLE_BOOST_CAP
  <2>2. TitleBoost(c) = IF ~Found(c) THEN 0 ELSE Least(S)
    BY DEF TitleBoost
  <2> HIDE DEF S
  <2>3. PICK n \in Nat : n = Least(S) /\ n <= TITLE_BOOST_CAP
    BY <2>1, LeastIsIn
  <2> QED BY <2>2, <2>3 DEF TITLE_BOOST_CAP
<1>4. ProductDelta(c) \in {-5000, 0, 5000}
  BY <1>2 DEF ProductDelta, PRODUCT_BOOST
<1> QED BY <1>3, <1>4

\* A rank is a number and so is what it counts for.
LEMMA ReciprocalIsNat ==
    ASSUME NEW s, Hits(s), NEW c
    PROVE  Reciprocal(s, c, RRF_K) \in Nat
<1>1. CASE c \notin Elements(s)
  BY <1>1 DEF Reciprocal
<1>2. CASE c \in Elements(s)
  <2> DEFINE n == CHOOSE m \in 1 .. Len(s) : s[m] = c
  <2>1. Len(s) \in Nat
    BY DEF Hits
  <2>2. n \in 1 .. Len(s)
    BY <1>2 DEF Elements
  <2>3. Reciprocal(s, c, RRF_K) = Unit \div (RRF_K + n)
    BY <1>2 DEF Reciprocal
  <2> HIDE DEF n
  <2>4. RRF_K + n \in Nat \ {0} /\ Unit \in Nat
    BY <2>1, <2>2 DEF RRF_K, Unit
  <2> QED BY <2>3, <2>4, QuotientIsNat
<1> QED BY <1>1, <1>2

LEMMA Initially == Init => RankInv
<1> SUFFICES ASSUME Init
             PROVE  RankInv
  OBVIOUS
<1>1. InputOK /\ stage = "fuse"
  BY DEF Init, InputOK
<1>2. Hits(<<>>) /\ Elements(<<>>) = {} /\ Len(<<>>) = 0
  BY DEF Hits, NoRepeat, Elements
<1>3. \A B, sc : AheadIn(<<>>, B, sc)
  BY <1>2 DEF AheadIn
<1>4. list = <<>> /\ score = <<>> /\ base = <<>> /\ result = <<>>
  BY DEF Init
<1>5. score \in [Elements(list) -> Nat]
  BY <1>2, <1>4
<1>6. LeaderOK
  BY DEF Init, LeaderOK
<1>7. CandidatesAreSound /\ LeadingDocumentIsShown
  BY <1>1 DEF CandidatesAreSound, LeadingDocumentIsShown
<1>8. ListOK /\ BaseOK
  BY <1>2, <1>3, <1>4, <1>5 DEF ListOK, BaseOK
<1>9. ResultOK
  BY <1>2, <1>3, <1>4, <1>7 DEF ResultOK
<1> QED BY <1>1, <1>4, <1>6, <1>8, <1>9 DEF RankInv

-----------------------------------------------------------------------------
(* The steps.                                                              *)

\* What the steps before the last leave of the result.
LEMMA NoResultYet ==
    ASSUME RankInv, stage # "done", stage' # "done", result' = result, score' = score, UNCHANGED input
    PROVE  ResultOK'
<1>1. result = <<>> /\ Hits(result)
  BY DEF RankInv, ResultOK
<1>2. AheadIn(result', Elements(base'), score')
  BY <1>1 DEF AheadIn
<1>3. CandidatesAreSound' /\ LeadingDocumentIsShown'
  BY DEF CandidatesAreSound, LeadingDocumentIsShown
<1> QED BY <1>1, <1>2, <1>3 DEF ResultOK

\* Every chunk that a channel found is listed once, after its first sight.
LEMMA FusedHits ==
    ASSUME NEW s, Hits(s), NEW t, Hits(t)
    PROVE  LET all == s \o t
               first == {n \in 1 .. Len(all) : \A m \in 1 .. n - 1 : all[m] # all[n]}
           IN /\ Hits(Keeping(all, first))
              /\ Elements(Keeping(all, first)) = Elements(s) \cup Elements(t)
<1> DEFINE all == s \o t
           first == {n \in 1 .. Len(all) : \A m \in 1 .. n - 1 : all[m] # all[n]}
           k == Keeping(all, first)
<1>1. s \in Seq(Chunks) /\ t \in Seq(Chunks) /\ Len(s) \in Nat /\ Len(t) \in Nat
  BY DEF Hits
<1>2. /\ all \in Seq(Chunks) /\ Len(all) = Len(s) + Len(t)
      /\ \A n \in 1 .. Len(s) : all[n] = s[n]
      /\ \A n \in 1 .. Len(t) : all[Len(s) + n] = t[n]
      /\ \A n \in 1 .. Len(all) : n \in 1 .. Len(s) \/ n - Len(s) \in 1 .. Len(t)
  BY <1>1
<1>3. Elements(all) = Elements(s) \cup Elements(t)
  <2> HIDE DEF all
  <2>1. Elements(s) \subseteq Elements(all)
    BY <1>1, <1>2 DEF Elements
  <2>2. ASSUME NEW n \in 1 .. Len(t)
        PROVE  t[n] \in Elements(all)
    <3>1. Len(s) + n \in 1 .. Len(all) /\ all[Len(s) + n] = t[n]
      BY <1>1, <1>2
    <3> QED BY <3>1 DEF Elements
  <2>3. ASSUME NEW n \in 1 .. Len(all)
        PROVE  all[n] \in Elements(s) \cup Elements(t)
    <3>1. CASE n \in 1 .. Len(s)
      BY <1>2, <3>1 DEF Elements
    <3>2. CASE n - Len(s) \in 1 .. Len(t)
      <4>1. Len(s) + (n - Len(s)) = n
        BY <1>1, <1>2
      <4>2. all[n] = t[n - Len(s)]
        BY <1>2, <3>2, <4>1
      <4> QED BY <3>2, <4>2 DEF Elements
    <3> QED BY <1>2, <3>1, <3>2
  <2> QED BY <2>1, <2>2, <2>3 DEF Elements
<1>4. first \subseteq 1 .. Len(all)
  OBVIOUS
<1>5. k \in Seq(Chunks) /\ \E o : Walks(o, k, all, first)
  <2> HIDE DEF all, first
  <2> QED BY <1>2, <1>4, KeepingIsAWalk
<1>6. PICK o : Walks(o, k, all, first)
  BY <1>5
<1>7. \A n \in first : n \in 1 .. Len(all) /\ n \in Nat /\ \A m \in 1 .. n - 1 : all[m] # all[n]
  BY <1>1, <1>2
<1>8. ASSUME NEW x \in Elements(all)
      PROVE  \E n \in first : all[n] = x
  <2> DEFINE S == {n \in 1 .. Len(all) : all[n] = x}
  <2>1. S \subseteq Nat /\ S # {}
    BY <1>2 DEF Elements
  <2>2. Least(S) \in S /\ \A m \in S : Least(S) <= m
    <3> HIDE DEF S
    <3> QED BY <2>1, LeastIsIn
  <2>3. PICK n \in S : n = Least(S)
    BY <2>2
  <2>4. ASSUME NEW m \in 1 .. n - 1
        PROVE  all[m] # x
    <3>1. m \in 1 .. Len(all) /\ ~(n <= m)
      <4>1. n \in 1 .. Len(all) /\ Len(all) \in Nat
        BY <1>1, <1>2
      <4> HIDE DEF all
      <4> QED BY <4>1
    <3>2. m \notin S
      <4> HIDE DEF S
      <4> QED BY <2>2, <2>3, <3>1
    <3> QED BY <3>1, <3>2
  <2>5. n \in first /\ all[n] = x
    BY <2>3, <2>4
  <2> QED BY <2>5
<1> HIDE DEF all, first, k
<1>9. Len(k) \in Nat /\ \A n \in 1 .. Len(k) : o[n] \in first /\ k[n] = all[o[n]]
  BY <1>5, <1>6 DEF Walks
<1>10. ASSUME NEW i \in 1 .. Len(k), NEW j \in 1 .. Len(k), i < j
       PROVE  k[i] # k[j]
  <2>1. o[i] < o[j]
    BY <1>6, <1>10 DEF Walks
  <2>2. o[i] \in 1 .. o[j] - 1
    BY <1>7, <1>9, <2>1
  <2> QED BY <1>7, <1>9, <2>2
<1>11. NoRepeat(k)
  BY <1>9, <1>10 DEF NoRepeat
<1>12. Elements(k) \subseteq Elements(all)
  BY <1>7, <1>9 DEF Elements
<1>13. ASSUME NEW x \in Elements(all)
       PROVE  x \in Elements(k)
  <2>1. PICK n \in first : all[n] = x
    BY <1>8
  <2>2. PICK m \in 1 .. Len(k) : o[m] = n
    BY <1>6 DEF Walks
  <2> QED BY <1>9, <2>1, <2>2 DEF Elements
<1>14. Hits(k) /\ Elements(k) = Elements(s) \cup Elements(t)
  BY <1>3, <1>5, <1>11, <1>12, <1>13 DEF Hits
<1> QED BY <1>14 DEF k, first, all

\* A rerank of the list keeps the hits and who is far ahead.
LEMMA Reranked ==
    ASSUME NEW s, Hits(s), NEW sc, sc \in [Elements(s) -> Nat], AheadIn(s, Elements(s), sc),
           NEW key, Respects(key, s, sc), NEW t, t = s \/ t = SortBy(s, key)
    PROVE  /\ Hits(t) /\ Elements(t) = Elements(s) /\ Len(t) = Len(s)
           /\ AheadIn(t, Elements(s), sc)
BY SortedHits

LEMMA FuseKeeps == RankInv /\ Fuse => RankInv'
<1> SUFFICES ASSUME RankInv, Fuse
             PROVE  RankInv'
  OBVIOUS
<1> DEFINE all == input.keyword \o input.vector
           first == {n \in 1 .. Len(all) : \A m \in 1 .. n - 1 : all[m] # all[n]}
           s == Keeping(all, first)
<1>1. /\ stage = "fuse" /\ stage' = "title" /\ score' = RRF /\ list' = SortBy(s, RRF)
      /\ UNCHANGED <<input, base, leader, result>>
  BY DEF Fuse
<1>2. InputOK /\ Hits(input.keyword) /\ Hits(input.vector)
  BY InputTypes DEF RankInv
<1>3. Hits(s) /\ Elements(s) = Elements(input.keyword) \cup Elements(input.vector)
  BY <1>2, FusedHits
<1> HIDE DEF s
<1>4. RRF \in [Elements(s) -> Nat]
  <2>1. \A c : Reciprocal(input.keyword, c, RRF_K) + Reciprocal(input.vector, c, RRF_K) \in Nat
    BY <1>2, ReciprocalIsNat
  <2> QED BY <1>3, <2>1 DEF RRF
<1>5. Respects(RRF, s, RRF)
  BY <1>4 DEF Respects, TITLE_BOOST_CAP
<1>6. /\ Hits(list') /\ Elements(list') = Elements(s)
      /\ AheadIn(list', Elements(list'), score')
  BY <1>1, <1>3, <1>5, SortedHits
<1>7. ListOK'
  BY <1>1, <1>4, <1>6 DEF ListOK
<1>8. base = <<>> /\ result = <<>> /\ Elements(<<>>) = {} /\ Hits(<<>>) /\ Len(<<>>) = 0
  BY <1>1 DEF RankInv, ResultOK, Elements, Hits, NoRepeat
<1>9. BaseOK'
  BY <1>1, <1>8 DEF BaseOK, AheadIn
<1>10. ResultOK'
  BY <1>1, <1>8 DEF ResultOK, AheadIn, CandidatesAreSound, LeadingDocumentIsShown
<1>11. LeaderOK' /\ InputOK'
  BY <1>1, <1>2 DEF RankInv, LeaderOK, InputOK
<1> QED BY <1>1, <1>7, <1>8, <1>9, <1>10, <1>11 DEF RankInv

LEMMA RerankKeeps ==
    ASSUME RankInv, stage \in {"title", "product"}, stage' \in {"product", "leader"},
           NEW key, Respects(key, list, score), list' = list \/ list' = SortBy(list, key),
           UNCHANGED <<input, score, base, leader, result>>
    PROVE  RankInv'
<1>1. ListOK /\ base = <<>> /\ result = <<>>
  BY DEF RankInv, ResultOK
<1>2. /\ Hits(list') /\ Elements(list') = Elements(list)
      /\ AheadIn(list', Elements(list), score)
  BY <1>1, Reranked DEF ListOK
<1>3. ListOK'
  BY <1>1, <1>2 DEF ListOK
<1>4. BaseOK'
  BY <1>2 DEF RankInv, BaseOK
<1>5. ResultOK'
  BY NoResultYet
<1>6. LeaderOK' /\ InputOK'
  BY DEF RankInv, LeaderOK, InputOK
<1> QED BY <1>1, <1>3, <1>4, <1>5, <1>6 DEF RankInv

LEMMA RerankByTitleKeeps == RankInv /\ RerankByTitle => RankInv'
<1> SUFFICES ASSUME RankInv, RerankByTitle
             PROVE  RankInv'
  OBVIOUS
<1> DEFINE key == [c \in Elements(list) |-> score[c] + TitleBoost(c)]
<1>1. /\ stage = "title" /\ stage' = "product"
      /\ list' = list \/ list' = SortBy(list, key)
      /\ UNCHANGED <<input, score, base, leader, result>>
  BY DEF RerankByTitle
<1>2. ASSUME NEW a \in Elements(list)
      PROVE  /\ key[a] = score[a] + TitleBoost(a) /\ score[a] \in Nat
             /\ TitleBoost(a) \in Nat /\ TitleBoost(a) <= TITLE_BOOST_CAP
  BY Boosts DEF RankInv, ListOK, Hits, Elements
<1> HIDE DEF key
<1>3. Respects(key, list, score)
  BY <1>2 DEF Respects, TITLE_BOOST_CAP
<1> QED BY <1>1, <1>3, RerankKeeps

LEMMA RerankByProductKeeps == RankInv /\ RerankByProduct => RankInv'
<1> SUFFICES ASSUME RankInv, RerankByProduct
             PROVE  RankInv'
  OBVIOUS
<1> DEFINE key == [c \in Elements(list) |-> score[c] + ProductDelta(c)]
<1>1. /\ stage = "product" /\ stage' = "leader"
      /\ list' = list \/ list' = SortBy(list, key)
      /\ UNCHANGED <<input, score, base, leader, result>>
  BY DEF RerankByProduct
<1>2. ASSUME NEW a \in Elements(list)
      PROVE  /\ key[a] = score[a] + ProductDelta(a) /\ score[a] \in Nat
             /\ ProductDelta(a) \in {-5000, 0, 5000}
  BY Boosts DEF RankInv, ListOK, Hits, Elements
<1> HIDE DEF key
<1>3. Respects(key, list, score)
  BY <1>2 DEF Respects, TITLE_BOOST_CAP
<1> QED BY <1>1, <1>3, RerankKeeps

\* The evidence for a document is a number.
LEMMA DocScoreIsNat ==
    ASSUME list \in Seq(Chunks), NEW d
    PROVE  DocScore(d) \in Nat
<1> DEFINE N == Len(list)
           w == [n \in 1 .. N |-> IF Found(list[n]) /\ DocOf[list[n]] = d
                                 THEN Unit \div (RANK_AGG_K + n) ELSE 0]
           h == CHOOSE f : f = [n \in 0 .. N |-> IF n = 0 THEN 0 ELSE f[n - 1] + w[n]]
<1>1. N \in Nat
  OBVIOUS
<1>2. ASSUME NEW n \in 1 .. N
      PROVE  w[n] \in Nat
  <2>1. RANK_AGG_K + n \in Nat \ {0} /\ Unit \in Nat
    BY <1>1 DEF RANK_AGG_K, Unit
  <2>2. Unit \div (RANK_AGG_K + n) \in Nat
    BY <2>1, QuotientIsNat
  <2> QED BY <2>2
<1>3. h[N] \in Nat
  <2>1. \A n \in 1 .. N : w[n] \in Nat
    BY <1>2
  <2> HIDE DEF w, N
  <2> QED BY <1>1, <2>1, SumIsNat
<1>4. DocScore(d) = h[N]
  BY Zenon DEF DocScore
<1> QED BY <1>3, <1>4

\* The leading document is that of a hit that is there, if there is one.
LEMMA LeadingDocOfAHit ==
    ASSUME Hits(list), LeadingDoc # 0
    PROVE  \E c \in Elements(list) : Found(c) /\ DocOf[c] = LeadingDoc
<1> DEFINE there == {e \in Elements(list) : Found(e)}
           seen == {DocOf[c] : c \in there}
           best == {d \in seen : \A e \in seen : DocScore(d) >= DocScore(e)}
           g == [c \in there |-> DocScore(DocOf[c])]
<1>1. seen # {} /\ LeadingDoc = Least(best)
  BY Zenon DEF LeadingDoc
<1>2. list \in Seq(Chunks) /\ IsFiniteSet(Elements(list))
  BY NoRepeatCounts DEF Hits
<1>3. there # {} /\ IsFiniteSet(there) /\ there \subseteq Chunks
  <2>1. there \subseteq Elements(list) /\ there \subseteq Chunks
    BY DEF Found
  <2>2. there # {}
    BY <1>1
  <2> HIDE DEF there
  <2> QED BY <1>2, <2>1, <2>2, FS_Subset
<1>4. \A c \in there : g[c] \in Nat
  BY <1>2, DocScoreIsNat
<1>5. PICK x \in there : \A y \in there : g[x] >= g[y]
  <2> HIDE DEF there, g
  <2> QED BY <1>3, <1>4, BestExists
<1>6. \A y \in there : DocScore(DocOf[x]) >= DocScore(DocOf[y])
  BY <1>5
<1>7. DocOf[x] \in best
  <2> HIDE DEF there
  <2> QED BY <1>6
<1>8. seen \subseteq Nat
  <2> HIDE DEF there
  <2> QED BY <1>3, ChunksAssumption, DocsAssumption
<1>9. Least(best) \in best
  <2>1. best \subseteq Nat /\ best # {}
    BY <1>7, <1>8
  <2> HIDE DEF best
  <2> QED BY <2>1, LeastIsIn
<1>10. PICK c \in there : DocOf[c] = LeadingDoc
  BY <1>1, <1>9
<1> QED BY <1>10

\* The anchor is one of its pages.
LEMMA AnchorIsAPage ==
    ASSUME Hits(list), score \in [Elements(list) -> Nat], input.top_k \in Nat,
           NEW d, \E c \in Elements(list) : Found(c) /\ DocOf[c] = d
    PROVE  Anchor(d) \in Chunks /\ DocOf[Anchor(d)] = d
<1> DEFINE top == Cut(list, input.top_k)
           pages(s) == {c \in Elements(s) : Found(c) /\ DocOf[c] = d}
           best == {c \in pages(top) : \A e \in pages(top) : score[c] >= score[e]}
           at == {n \in 1 .. Len(list) : list[n] \in pages(list)}
<1>1. \A c \in pages(list) \cup pages(top) : c \in Chunks /\ c \in Nat /\ DocOf[c] = d
  BY ChunksAssumption DEF Found
<1>2. CASE pages(top) # {}
  <2>1. Anchor(d) = Least(best)
    BY <1>2, Zenon DEF Anchor
  <2>2. Hits(top) /\ Elements(top) \subseteq Elements(list)
    BY CutHits
  <2>3. IsFiniteSet(pages(top)) /\ \A c \in pages(top) : score[c] \in Nat
    <3>1. IsFiniteSet(Elements(top))
      BY <2>2, NoRepeatCounts DEF Hits
    <3>2. pages(top) \subseteq Elements(top)
      OBVIOUS
    <3>3. IsFiniteSet(pages(top))
      <4> HIDE DEF pages, top
      <4> QED BY <3>1, <3>2, FS_Subset
    <3>4. \A c \in pages(top) : score[c] \in Nat
      BY <2>2
    <3> QED BY <3>3, <3>4
  <2>4. best # {}
    <3> HIDE DEF pages, top
    <3> QED BY <1>2, <2>3, BestExists
  <2>5. best \subseteq Nat
    BY <1>1
  <2>6. Least(best) \in best
    <3> HIDE DEF best
    <3> QED BY <2>4, <2>5, LeastIsIn
  <2> QED BY <1>1, <2>1, <2>6
<1>3. CASE pages(top) = {}
  <2>1. Anchor(d) = list[Least(at)]
    BY <1>3, Zenon DEF Anchor
  <2>2. at \subseteq Nat /\ at # {}
    BY DEF Elements, Hits
  <2>3. Least(at) \in at
    <3> HIDE DEF at
    <3> QED BY <2>2, LeastIsIn
  <2> QED BY <1>1, <2>1, <2>3
<1> QED BY <1>2, <1>3

LEMMA PickLeaderKeeps == RankInv /\ PickLeader => RankInv'
<1> SUFFICES ASSUME RankInv, PickLeader
             PROVE  RankInv'
  OBVIOUS
<1>1. /\ stage = "leader" /\ stage' = "assemble"
      /\ base' = Cut(list, input.top_k)
      /\ leader' = [doc |-> LeadingDoc,
                    chunk |-> IF LeadingDoc = 0 THEN 0 ELSE Anchor(LeadingDoc)]
      /\ UNCHANGED <<input, list, score, result>>
  BY DEF PickLeader
<1>2. InputOK /\ input.top_k \in Nat /\ ListOK
  BY InputTypes DEF RankInv
<1>3. LeaderOK'
  <2>1. CASE LeadingDoc = 0
    BY <1>1, <2>1 DEF LeaderOK
  <2>2. CASE LeadingDoc # 0
    <3>1. Anchor(LeadingDoc) \in Chunks /\ DocOf[Anchor(LeadingDoc)] = LeadingDoc
      BY <1>2, <2>2, LeadingDocOfAHit, AnchorIsAPage DEF ListOK
    <3>2. LeadingDoc \in Docs
      BY <3>1, ChunksAssumption
    <3> QED BY <1>1, <2>2, <3>1, <3>2 DEF LeaderOK
  <2> QED BY <2>1, <2>2
<1>4. BaseOK'
  <2>1. /\ Hits(base') /\ Elements(base') \subseteq Elements(list)
        /\ AheadIn(base', Elements(list), score)
    BY <1>1, <1>2, CutHits DEF ListOK
  <2>2. AheadIn(base', Elements(base'), score)
    BY <2>1 DEF AheadIn
  <2> QED BY <1>1, <2>1, <2>2 DEF BaseOK
<1>5. ResultOK'
  BY <1>1, NoResultYet
<1>6. ListOK' /\ InputOK'
  BY <1>1, <1>2 DEF ListOK, InputOK
<1> QED BY <1>1, <1>3, <1>4, <1>5, <1>6 DEF RankInv

-----------------------------------------------------------------------------
(* The last step.                                                          *)

\* The neighbours that are appended: pages that are not in s, each once, the
\* anchor first when it is one of them.
LEMMA ClosestPages ==
    ASSUME LeaderOK, leader.doc # 0, NEW s
    PROVE  /\ Closest(s) \in Seq(Neighbours \ Elements(s))
           /\ NoRepeat(Closest(s))
           /\ leader.chunk \in (Neighbours \ Elements(s)) =>
                Len(Closest(s)) > 0 /\ Closest(s)[1] = leader.chunk
<1> DEFINE new == Neighbours \ Elements(s)
           R == {p \in new \X new :
                   \/ Distance(p[1]) < Distance(p[2])
                   \/ Distance(p[1]) = Distance(p[2]) /\ Ordinal[p[1]] <= Ordinal[p[2]]}
<1>1. leader.chunk \in Chunks /\ Ordinal[leader.chunk] \in Nat
  BY ChunksAssumption DEF LeaderOK
<1>2. ASSUME NEW c \in new
      PROVE  /\ c \in Chunks /\ Ordinal[c] \in Nat /\ DocOf[c] = leader.doc
             /\ Distance(c) \in Nat
             /\ Distance(c) = 0 => Ordinal[c] = Ordinal[leader.chunk]
  <2>1. c \in Chunks /\ Ordinal[c] \in Nat /\ DocOf[c] = leader.doc
    BY ChunksAssumption DEF Neighbours
  <2> QED BY <1>1, <2>1 DEF Distance
<1>3. \A c, e \in new : Ordinal[c] = Ordinal[e] => c = e
  BY <1>2, OrdinalAssumption
<1>4. \A c, e \in new : <<c, e>> \in R <=>
        \/ Distance(c) < Distance(e)
        \/ Distance(c) = Distance(e) /\ Ordinal[c] <= Ordinal[e]
  OBVIOUS
<1>5. Closest(s) = Listed(new, R)
  BY DEF Closest
<1>6. IsFiniteSet(new)
  BY <1>2, ChunksAssumption, FS_Subset
<1> HIDE DEF new, R
<1>7. TotalOrder(new, R)
  <2>1. ASSUME NEW x \in new, NEW y \in new
        PROVE  <<x, y>> \in R \/ <<y, x>> \in R
    <3>1. \/ Distance(x) < Distance(y) \/ Distance(y) < Distance(x)
          \/ Distance(x) = Distance(y) /\ Ordinal[x] <= Ordinal[y]
          \/ Distance(y) = Distance(x) /\ Ordinal[y] <= Ordinal[x]
      BY <1>2
    <3> QED BY <1>4, <3>1, Zenon
  <2>2. \A x, y \in new : <<x, y>> \in R /\ <<y, x>> \in R => x = y
    BY <1>2, <1>3, <1>4
  <2>3. \A x, y, z \in new : <<x, y>> \in R /\ <<y, z>> \in R => <<x, z>> \in R
    BY <1>2, <1>4
  <2> QED BY <2>1, <2>2, <2>3, Zenon DEF TotalOrder
<1> DEFINE N == Cardinality(new)
           o == Listed(new, R)
<1>8. /\ N \in Nat /\ o \in [1 .. N -> new]
      /\ \A x \in new : \E k \in 1 .. N : o[k] = x
      /\ \A i, j \in 1 .. N : i < j => o[i] # o[j] /\ <<o[i], o[j]>> \in R
  BY <1>6, <1>7, ListedIsInOrder
<1> HIDE DEF N, o
<1>9. o \in Seq(new) /\ Len(o) = N
  BY <1>8
<1>10. NoRepeat(o)
  <2> SUFFICES ASSUME NEW m \in 1 .. N, NEW n \in 1 .. N, o[m] = o[n]
               PROVE  m = n
    BY <1>9 DEF NoRepeat
  <2>1. ~(m < n) /\ ~(n < m)
    BY <1>8
  <2> QED BY <1>8, <2>1
<1>11. ASSUME leader.chunk \in new
       PROVE  Len(o) > 0 /\ o[1] = leader.chunk
  <2>1. PICK k \in 1 .. N : o[k] = leader.chunk
    BY <1>8, <1>11
  <2>2. 1 \in 1 .. N /\ o[1] \in new
    BY <1>8, <2>1
  <2>3. Distance(leader.chunk) = 0
    BY <1>1 DEF Distance
  <2>4. ASSUME k # 1
        PROVE  FALSE
    <3>1. o[1] # o[k] /\ <<o[1], o[k]>> \in R
      BY <1>8, <2>1, <2>2, <2>4
    <3>2. Distance(o[1]) = 0
      BY <1>2, <1>4, <1>11, <2>1, <2>2, <2>3, <3>1
    <3>3. Ordinal[o[1]] = Ordinal[o[k]]
      BY <1>2, <2>1, <2>2, <3>2
    <3> QED BY <1>3, <1>11, <2>1, <2>2, <3>1, <3>3
  <2> QED BY <1>8, <1>9, <2>1, <2>4
<1> QED BY <1>5, <1>9, <1>10, <1>11 DEF new, o

\* Appending what is not there yet leaves the order of s as it is.
LEMMA ExtendedHits ==
    ASSUME NEW s, Hits(s), NEW t \in Seq(Chunks), NoRepeat(t),
           Elements(t) \cap Elements(s) = {},
           NEW sc, AheadIn(s, Elements(s), sc)
    PROVE  /\ Hits(s \o t) /\ Len(s \o t) = Len(s) + Len(t)
           /\ AheadIn(s \o t, Elements(s), sc)
           /\ \A i \in 1 .. Len(s) : (s \o t)[i] = s[i]
           /\ \A i \in 1 .. Len(t) : (s \o t)[Len(s) + i] = t[i]
           /\ Elements(s \o t) \subseteq Elements(s) \cup Elements(t)
<1> DEFINE a == s \o t
<1>1. s \in Seq(Chunks) /\ Len(s) \in Nat /\ Len(t) \in Nat
  BY DEF Hits
<1>2. /\ a \in Seq(Chunks) /\ Len(a) = Len(s) + Len(t)
      /\ \A i \in 1 .. Len(s) : a[i] = s[i]
      /\ \A i \in 1 .. Len(t) : a[Len(s) + i] = t[i]
  BY <1>1
<1> HIDE DEF a
<1>3. ASSUME NEW n \in 1 .. Len(a)
      PROVE  \/ n \in 1 .. Len(s) /\ a[n] = s[n] /\ a[n] \in Elements(s)
             \/ /\ n - Len(s) \in 1 .. Len(t) /\ a[n] = t[n - Len(s)]
                /\ a[n] \in Elements(t)
  <2>1. CASE n \in 1 .. Len(s)
    BY <1>2, <2>1 DEF Elements
  <2>2. CASE n \notin 1 .. Len(s)
    <3>1. n - Len(s) \in 1 .. Len(t) /\ Len(s) + (n - Len(s)) = n
      BY <1>1, <1>2, <2>2
    <3>2. a[n] = t[n - Len(s)]
      BY <1>2, <3>1
    <3> QED BY <3>1, <3>2 DEF Elements
  <2> QED BY <2>1, <2>2
<1>4. NoRepeat(a)
  <2> SUFFICES ASSUME NEW m \in 1 .. Len(a), NEW n \in 1 .. Len(a), a[m] = a[n]
               PROVE  m = n
    BY DEF NoRepeat
  <2>1. CASE m \in 1 .. Len(s) /\ a[m] = s[m] /\ a[m] \in Elements(s)
    <3>1. n \in 1 .. Len(s) /\ a[n] = s[n]
      BY <1>3, <2>1
    <3> QED BY <2>1, <3>1 DEF Hits, NoRepeat
  <2>2. CASE m - Len(s) \in 1 .. Len(t) /\ a[m] = t[m - Len(s)] /\ a[m] \in Elements(t)
    <3>1. n - Len(s) \in 1 .. Len(t) /\ a[n] = t[n - Len(s)]
      BY <1>3, <2>2
    <3>2. m - Len(s) = n - Len(s)
      BY <2>2, <3>1 DEF NoRepeat
    <3> QED BY <1>1, <1>2, <3>2
  <2> QED BY <1>3, <2>1, <2>2
<1>5. AheadIn(a, Elements(s), sc)
  <2> SUFFICES ASSUME NEW i \in 1 .. Len(a), NEW j \in 1 .. Len(a),
                      a[i] \in Elements(s), a[j] \in Elements(s),
                      sc[a[i]] > sc[a[j]] + TITLE_BOOST_CAP
               PROVE  i < j
    BY DEF AheadIn
  <2>1. i \in 1 .. Len(s) /\ a[i] = s[i] /\ j \in 1 .. Len(s) /\ a[j] = s[j]
    BY <1>3
  <2> QED BY <2>1 DEF AheadIn
<1>6. Elements(a) \subseteq Elements(s) \cup Elements(t)
  BY <1>3 DEF Elements
<1> QED BY <1>2, <1>4, <1>5, <1>6 DEF a, Hits

\* The base after the rerank within the leading document.
LEMMA WithinDocHits ==
    ASSUME BaseOK, ListOK
    PROVE  /\ Hits(WithinDoc(base)) /\ Len(WithinDoc(base)) = Len(base)
           /\ Elements(WithinDoc(base)) = Elements(base)
           /\ AheadIn(WithinDoc(base), Elements(base), score)
<1> DEFINE key == [c \in Elements(base) |-> score[c] +
                     IF Found(c) /\ DocOf[c] = leader.doc /\ c \in input.specs
                     THEN RERANK_BONUS ELSE 0]
<1>1. WithinDoc(base) = base \/ WithinDoc(base) = SortBy(base, key)
  BY DEF WithinDoc
<1>2. ASSUME NEW a \in Elements(base)
      PROVE  /\ score[a] \in Nat
             /\ key[a] = score[a] \/ key[a] = score[a] + 5000
  BY DEF BaseOK, ListOK, RERANK_BONUS
<1> HIDE DEF key
<1>3. Respects(key, base, score)
  BY <1>2 DEF Respects, TITLE_BOOST_CAP
<1>4. Hits(base) /\ AheadIn(base, Elements(base), score)
  BY DEF BaseOK
<1> QED BY <1>1, <1>3, <1>4, SortedHits

\* What Assemble works on before it drops the rows that are gone.
LEMMA AssembledHits ==
    ASSUME RankInv,
           NEW all, all = IF Expands THEN Appended(WithinDoc(base)) ELSE Cut(base, input.budget)
    PROVE  /\ Hits(all) /\ Len(all) <= input.budget
           /\ AheadIn(all, Elements(base), score)
           /\ Elements(all) \subseteq Elements(base) \cup Neighbours
           /\ Elements(base) \subseteq Elements(all) \/ Elements(all) \subseteq Elements(base)
           /\ ~Expands => Elements(all) \subseteq Elements(base)
           /\ Expands /\ Len(base) < input.budget => leader.chunk \in Elements(all)
<1>1. /\ ListOK /\ BaseOK /\ LeaderOK /\ Hits(base)
      /\ AheadIn(base, Elements(base), score) /\ input.budget \in Nat
  BY InputTypes DEF RankInv, BaseOK
<1>2. CASE ~Expands
  <2>1. all = Cut(base, input.budget)
    BY <1>2
  <2>2. /\ Hits(all) /\ Elements(all) \subseteq Elements(base)
        /\ AheadIn(all, Elements(base), score)
        /\ Len(all) = IF input.budget < Len(base) THEN input.budget ELSE Len(base)
    BY <1>1, <2>1, CutHits
  <2>3. Len(base) \in Nat
    BY <1>1 DEF Hits
  <2> QED BY <1>1, <1>2, <2>2, <2>3
<1>3. CASE Expands
  <2> DEFINE w == WithinDoc(base)
             t == Closest(w)
             a == w \o t
  <2>1. /\ Hits(w) /\ Len(w) = Len(base) /\ Elements(w) = Elements(base)
        /\ AheadIn(w, Elements(w), score) /\ Len(w) \in Nat
    BY <1>1, WithinDocHits DEF Hits
  <2>2. leader.doc # 0
    BY <1>3, DocsAssumption DEF Expands
  <2> HIDE DEF w
  <2>3. /\ t \in Seq(Neighbours \ Elements(w)) /\ NoRepeat(t)
        /\ leader.chunk \in (Neighbours \ Elements(w)) =>
             Len(t) > 0 /\ t[1] = leader.chunk
    BY <1>1, <2>2, ClosestPages
  <2> HIDE DEF t
  <2>4. /\ t \in Seq(Chunks) /\ Len(t) \in Nat
        /\ Elements(t) \subseteq Neighbours /\ Elements(t) \cap Elements(w) = {}
    BY <2>3 DEF Neighbours, Elements
  <2>5. /\ Hits(a) /\ Len(a) = Len(w) + Len(t)
        /\ AheadIn(a, Elements(w), score)
        /\ \A i \in 1 .. Len(w) : a[i] = w[i]
        /\ \A i \in 1 .. Len(t) : a[Len(w) + i] = t[i]
        /\ Elements(a) \subseteq Elements(w) \cup Elements(t)
    BY <2>1, <2>3, <2>4, ExtendedHits
  <2> HIDE DEF a
  <2>6. all = Cut(a, input.budget)
    BY <1>3 DEF Appended, w, t, a
  <2>7. /\ Hits(all)
        /\ Len(all) = IF input.budget < Len(a) THEN input.budget ELSE Len(a)
        /\ \A i \in 1 .. Len(all) : i \in 1 .. Len(a) /\ all[i] = a[i]
        /\ Elements(all) \subseteq Elements(a)
        /\ AheadIn(all, Elements(w), score)
    BY <1>1, <2>5, <2>6, CutHits
  <2>8. Len(all) <= input.budget
    BY <1>1, <2>1, <2>4, <2>5, <2>7
  <2>9. Elements(base) \subseteq Elements(all) \/ Elements(all) \subseteq Elements(base)
    <3>1. CASE input.budget < Len(w)
      <4>1. \A i \in 1 .. Len(all) : i \in 1 .. Len(w) /\ all[i] = w[i]
        BY <1>1, <2>1, <2>4, <2>5, <2>7, <3>1
      <4>2. Elements(all) \subseteq Elements(w)
        BY <4>1 DEF Elements
      <4> QED BY <2>1, <4>2
    <3>2. CASE ~(input.budget < Len(w))
      <4>1. \A i \in 1 .. Len(w) : i \in 1 .. Len(all) /\ all[i] = w[i]
        BY <1>1, <2>1, <2>4, <2>5, <2>7, <3>2
      <4>2. Elements(w) \subseteq Elements(all)
        BY <4>1 DEF Elements
      <4> QED BY <2>1, <4>2
    <3> QED BY <3>1, <3>2
  <2>10. ASSUME Len(base) < input.budget
         PROVE  leader.chunk \in Elements(all)
    <3>1. leader.chunk \in Neighbours
      <4>1. /\ leader.chunk \in Chunks /\ DocOf[leader.chunk] = leader.doc
            /\ Ordinal[leader.chunk] \in Nat /\ PageWindow \in Nat
        BY <1>1, <2>2, ChunksAssumption, InputsAssumption DEF LeaderOK
      <4> QED BY <4>1 DEF Neighbours, Distance
    <3>2. CASE leader.chunk \in Elements(w)
      <4>1. PICK i \in 1 .. Len(w) : w[i] = leader.chunk
        BY <3>2 DEF Elements
      <4>2. i \in 1 .. Len(all) /\ all[i] = w[i]
        BY <1>1, <2>1, <2>4, <2>5, <2>7, <2>10
      <4> QED BY <4>1, <4>2 DEF Elements
    <3>3. CASE leader.chunk \notin Elements(w)
      <4>1. Len(t) > 0 /\ t[1] = leader.chunk
        BY <2>3, <3>1, <3>3
      <4>2. a[Len(w) + 1] = leader.chunk
        BY <2>4, <2>5, <4>1
      <4>3. Len(w) + 1 \in 1 .. Len(all)
        BY <1>1, <2>1, <2>4, <2>5, <2>7, <2>10, <4>1
      <4> QED BY <2>7, <4>2, <4>3 DEF Elements
    <3> QED BY <3>2, <3>3
  <2> QED BY <1>3, <2>1, <2>4, <2>5, <2>7, <2>8, <2>9, <2>10
<1> QED BY <1>2, <1>3

LEMMA AssembleKeeps == RankInv /\ Assemble => RankInv'
<1> SUFFICES ASSUME RankInv, Assemble
             PROVE  RankInv'
  OBVIOUS
<1>1. PICK all : all = IF Expands THEN Appended(WithinDoc(base)) ELSE Cut(base, input.budget)
  OBVIOUS
<1> DEFINE there == {n \in 1 .. Len(all) :
                       Found(all[n]) \/ (Expands /\ all[n] \in Neighbours)}
<1>2. /\ stage = "assemble" /\ stage' = "done" /\ result' = Keeping(all, there)
      /\ UNCHANGED <<input, list, score, base, leader>>
  BY <1>1 DEF Assemble
<1>3. /\ Hits(all) /\ Len(all) <= input.budget
      /\ AheadIn(all, Elements(base), score)
      /\ Elements(all) \subseteq Elements(base) \cup Neighbours
      /\ Elements(base) \subseteq Elements(all) \/ Elements(all) \subseteq Elements(base)
      /\ Expands /\ Len(base) < input.budget => leader.chunk \in Elements(all)
  BY <1>1, AssembledHits
<1>4. /\ Hits(result') /\ Len(result') <= Len(all)
      /\ Elements(result') = {all[n] : n \in there}
      /\ AheadIn(result', Elements(base), score)
  <2>1. there \subseteq 1 .. Len(all)
    OBVIOUS
  <2> HIDE DEF there
  <2> QED BY <1>2, <1>3, <2>1, KeptHits
<1>5. /\ Elements(result') \subseteq Elements(all)
      /\ \A c \in Elements(all) : Found(c) \/ (Expands /\ c \in Neighbours)
           => c \in Elements(result')
  BY <1>4 DEF Elements
<1> HIDE DEF there
<1>6. Neighbours' = Neighbours /\ Expands' = Expands /\ \A c : Found(c)' = Found(c)
  BY <1>2 DEF Neighbours, Distance, Expands, Found
<1>7. CandidatesAreSound'
  <2>1. Cardinality(Elements(result')) = Len(result')
    BY <1>4, NoRepeatCounts DEF Hits
  <2>2. Len(result') <= input.budget
    <3>1. Len(result') \in Nat /\ Len(all) \in Nat /\ input.budget \in Nat
      BY <1>3, <1>4, InputTypes DEF Hits, RankInv
    <3> QED BY <1>3, <1>4, <3>1
  <2>3. Elements(result') \subseteq Elements(base) \cup Neighbours
    BY <1>3, <1>5
  <2>4. \/ {c \in Elements(base) : Found(c)} \subseteq Elements(result')
        \/ Elements(result') \subseteq Elements(base)
    BY <1>3, <1>5
  <2> QED BY <1>2, <1>6, <2>1, <2>2, <2>3, <2>4 DEF CandidatesAreSound
<1>8. LeadingDocumentIsShown'
  <2> SUFFICES ASSUME Expands, Len(base) < input.budget
               PROVE  leader.chunk \in Elements(result')
    BY <1>2, <1>6 DEF LeadingDocumentIsShown
  <2>1. leader.doc \in Docs /\ leader.doc # 0
    BY DocsAssumption DEF Expands
  <2>2. /\ leader.chunk \in Chunks /\ DocOf[leader.chunk] = leader.doc
        /\ Ordinal[leader.chunk] \in Nat /\ PageWindow \in Nat
    BY <2>1, ChunksAssumption, InputsAssumption DEF LeaderOK, RankInv
  <2>3. leader.chunk \in Neighbours
    BY <2>2 DEF Neighbours, Distance
  <2> QED BY <1>3, <1>5, <2>3
<1>9. ResultOK'
  BY <1>2, <1>4, <1>7, <1>8 DEF ResultOK
<1>10. ListOK' /\ BaseOK' /\ LeaderOK' /\ InputOK'
  BY <1>2 DEF RankInv, ListOK, BaseOK, LeaderOK, InputOK
<1> QED BY <1>2, <1>9, <1>10 DEF RankInv

LEMMA StutterKeeps == RankInv /\ UNCHANGED vars => RankInv'
BY DEF vars, RankInv, InputOK, ListOK, BaseOK, LeaderOK, ResultOK, CandidatesAreSound,
       LeadingDocumentIsShown, Neighbours, Distance, Expands, Found

LEMMA StepKeeps == RankInv /\ [Next]_vars => RankInv'
BY FuseKeeps, RerankByTitleKeeps, RerankByProductKeeps, PickLeaderKeeps, AssembleKeeps,
   StutterKeeps DEF Next

-----------------------------------------------------------------------------
(* The theorems.                                                           *)

THEOREM RankingIsInvariant == Spec => []RankInv
<1>1. Init => RankInv
  BY Initially
<1>2. RankInv /\ [Next]_vars => RankInv'
  BY StepKeeps
<1> QED BY <1>1, <1>2, PTL DEF Spec

\* The lists hold chunks, none twice, and the hits carry their scores.
THEOREM TypesHold == Spec => []TypeOK
<1>1. RankInv => TypeOK
  <2> SUFFICES ASSUME RankInv
               PROVE  TypeOK
    OBVIOUS
  <2>1. ListOK /\ BaseOK /\ LeaderOK /\ Hits(result)
    BY DEF RankInv, ResultOK
  <2>2. Cardinality(Elements(list)) = Len(list)
    BY <2>1, NoRepeatCounts DEF ListOK, Hits
  <2>3. Elements(list) \subseteq Chunks /\ Elements(result) \subseteq Chunks
    BY <2>1 DEF ListOK, Hits, Elements
  <2> QED BY <2>1, <2>2, <2>3 DEF RankInv, TypeOK, ListOK, BaseOK, LeaderOK
<1> QED BY <1>1, RankingIsInvariant, PTL

\* The candidates are no strangers, none is there twice, and none of the hits
\* that are there was given up for a neighbour.
THEOREM CandidatesSound == Spec => []CandidatesAreSound
<1>1. RankInv => CandidatesAreSound
  BY DEF RankInv, ResultOK
<1> QED BY <1>1, RankingIsInvariant, PTL

\* The anchor page of a PDF that leads is shown when there is room.
THEOREM LeaderShown == Spec => []LeadingDocumentIsShown
<1>1. RankInv => LeadingDocumentIsShown
  BY DEF RankInv, ResultOK
<1> QED BY <1>1, RankingIsInvariant, PTL

\* In a list without repetitions that keeps far-ahead hits ahead they come first.
LEMMA AheadIsBefore ==
    ASSUME NEW s, Len(s) \in Nat, NEW B, NEW sc, AheadIn(s, B, sc),
           NEW a \in B \cap Elements(s), NEW b \in B \cap Elements(s),
           sc[a] > sc[b] + TITLE_BOOST_CAP
    PROVE  Before(s, a, b)
<1>1. PICK i \in 1 .. Len(s) : s[i] = a
  BY DEF Elements
<1>2. PICK j \in 1 .. Len(s) : s[j] = b
  BY DEF Elements
<1>3. i < j
  BY <1>1, <1>2 DEF AheadIn
<1> QED BY <1>1, <1>2, <1>3 DEF Before

\* No rerank lets a hit pass one that is ahead by more than the boosts, in the
\* list and in the candidates.
THEOREM FarAheadStays == Spec => []FarAheadStaysAhead
<1>1. RankInv => FarAheadStaysAhead
  <2> SUFFICES ASSUME RankInv, NEW a \in Elements(list), NEW b \in Elements(list),
                      score[a] > score[b] + TITLE_BOOST_CAP
               PROVE  /\ Before(list, a, b)
                      /\ {a, b} \subseteq Elements(base) \cap Elements(result)
                           => Before(result, a, b)
    BY DEF FarAheadStaysAhead
  <2>1. /\ AheadIn(list, Elements(list), score) /\ Len(list) \in Nat
        /\ AheadIn(result, Elements(base), score) /\ Len(result) \in Nat
    BY DEF RankInv, ListOK, ResultOK, Hits
  <2> QED BY <2>1, AheadIsBefore
<1> QED BY <1>1, RankingIsInvariant, PTL
=============================================================================

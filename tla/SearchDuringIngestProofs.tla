---------------------- MODULE SearchDuringIngestProofs ----------------------
(***************************************************************************)
(* Theorems of SearchDuringIngest, for every publication, manual and       *)
(* question: what the parser makes of a page can be put together again     *)
(* from its chunks, and a search beside commands does so.                  *)
(***************************************************************************)
EXTENDS SearchDuringIngest, HtmlIngestionProofs, ListingProofs

-----------------------------------------------------------------------------
(* FlattenSeq.                                                             *)

\* t has the first element of ss[j] before anything of ss[j] and what follows.
HasHead(t, ss, j) ==
    \E q \in 1 .. Len(t) :
      /\ t[q] = ss[j][1]
      /\ \A r \in 1 .. q - 1 : \E m \in 1 .. j - 1 : t[r] \in ToSet(ss[m])

\* t is the first n sequences of ss in a row, as far as we need to know.
Joins(t, S, ss, n) ==
    /\ t \in Seq(S)
    /\ \A q \in 1 .. Len(t) : \E j \in 1 .. n : t[q] \in ToSet(ss[j])
    /\ \A j \in 1 .. n : ToSet(ss[j]) \subseteq ToSet(t)
    /\ \A j \in 1 .. n : ss[j] # <<>> => HasHead(t, ss, j)

\* The elements of a sequence, and of two in a row.
LEMMA ElementsOf ==
    ASSUME NEW S, NEW s \in Seq(S)
    PROVE  /\ Len(s) \in Nat /\ DOMAIN s = 1 .. Len(s)
           /\ ToSet(s) \subseteq S
           /\ \A x : x \in ToSet(s) <=> \E k \in 1 .. Len(s) : s[k] = x
           /\ s = <<>> <=> Len(s) = 0
           /\ s = <<>> <=> ToSet(s) = {}
<1>1. Len(s) \in Nat /\ DOMAIN s = 1 .. Len(s) /\ (s = <<>> <=> Len(s) = 0)
  OBVIOUS
<1>2. \A x : x \in ToSet(s) <=> \E k \in 1 .. Len(s) : s[k] = x
  BY <1>1 DEF ToSet
<1>3. ToSet(s) \subseteq S
  BY <1>2
<1>4. s = <<>> <=> ToSet(s) = {}
  <2>1. ASSUME s # <<>> PROVE ToSet(s) # {}
    <3>1. 1 \in 1 .. Len(s)
      BY <1>1, <2>1
    <3>2. s[1] \in ToSet(s)
      BY <1>2, <3>1
    <3> QED
      BY <3>2
  <2>2. ASSUME s = <<>> PROVE ToSet(s) = {}
    <3>1. \A k : k \notin 1 .. Len(s)
      BY <1>1, <2>2
    <3> QED
      BY <1>2, <3>1
  <2> QED
    BY <2>1, <2>2
<1> QED
  BY <1>1, <1>2, <1>3, <1>4

LEMMA ElementsInARow ==
    ASSUME NEW S, NEW s \in Seq(S), NEW t \in Seq(S)
    PROVE  /\ s \o t \in Seq(S) /\ Len(s \o t) = Len(s) + Len(t)
           /\ \A k \in 1 .. Len(s) : (s \o t)[k] = s[k]
           /\ \A k \in 1 .. Len(t) : (s \o t)[Len(s) + k] = t[k]
           /\ ToSet(s \o t) = ToSet(s) \cup ToSet(t)
<1>1. /\ s \o t \in Seq(S) /\ Len(s \o t) = Len(s) + Len(t)
      /\ Len(s) \in Nat /\ Len(t) \in Nat
      /\ \A k \in 1 .. Len(s) : (s \o t)[k] = s[k]
      /\ \A k \in 1 .. Len(t) : (s \o t)[Len(s) + k] = t[k]
  OBVIOUS
<1>2. PICK u : u = s \o t
  OBVIOUS
<1>3. \A x : x \in ToSet(u) <=> \E k \in 1 .. Len(u) : u[k] = x
  BY <1>1, <1>2, ElementsOf
<1>4. ASSUME NEW x \in ToSet(u) PROVE x \in ToSet(s) \cup ToSet(t)
  <2>1. PICK k \in 1 .. Len(u) : u[k] = x
    BY <1>3
  <2>2. CASE k \in 1 .. Len(s)
    BY <1>1, <1>2, <2>1, <2>2, ElementsOf
  <2>3. CASE k \notin 1 .. Len(s)
    <3>1. k - Len(s) \in 1 .. Len(t) /\ k = Len(s) + (k - Len(s))
      BY <1>1, <1>2, <2>1, <2>3
    <3>2. t[k - Len(s)] = x
      BY <1>1, <1>2, <2>1, <3>1
    <3> QED
      BY <3>1, <3>2, ElementsOf
  <2> QED
    BY <2>2, <2>3
<1>5. ASSUME NEW x \in ToSet(s) PROVE x \in ToSet(u)
  <2>1. PICK k \in 1 .. Len(s) : s[k] = x
    BY ElementsOf
  <2>2. k \in 1 .. Len(u) /\ u[k] = x
    BY <1>1, <1>2, <2>1
  <2> QED
    BY <1>3, <2>2
<1>6. ASSUME NEW x \in ToSet(t) PROVE x \in ToSet(u)
  <2>1. PICK k \in 1 .. Len(t) : t[k] = x
    BY ElementsOf
  <2>2. Len(s) + k \in 1 .. Len(u) /\ u[Len(s) + k] = x
    BY <1>1, <1>2, <2>1
  <2> QED
    BY <1>3, <2>2
<1>7. ToSet(u) = ToSet(s) \cup ToSet(t)
  BY <1>4, <1>5, <1>6
<1> QED
  BY <1>1, <1>2, <1>7

LEMMA JoinsOneMore ==
    ASSUME NEW S, NEW ss \in Seq(Seq(S)), NEW n \in Nat, n + 1 <= Len(ss),
           NEW t, Joins(t, S, ss, n)
    PROVE  Joins(t \o ss[n + 1], S, ss, n + 1)
<1> DEFINE b == ss[n + 1]
           u == t \o b
<1>1. t \in Seq(S) /\ b \in Seq(S) /\ n + 1 \in 1 .. n + 1
  BY DEF Joins
<1> HIDE DEF b
<1>2. /\ u \in Seq(S) /\ Len(u) = Len(t) + Len(b)
      /\ Len(t) \in Nat /\ Len(b) \in Nat
      /\ \A k \in 1 .. Len(t) : u[k] = t[k]
      /\ \A k \in 1 .. Len(b) : u[Len(t) + k] = b[k]
      /\ ToSet(u) = ToSet(t) \cup ToSet(b)
  BY <1>1, ElementsInARow
<1> HIDE DEF u
<1>3. \A j \in 1 .. n : j \in 1 .. n + 1
  OBVIOUS
<1>4. \A q \in 1 .. Len(t) : \E j \in 1 .. n + 1 : t[q] \in ToSet(ss[j])
  BY <1>3 DEF Joins
<1>5. ASSUME NEW q \in 1 .. Len(u)
      PROVE  \E j \in 1 .. n + 1 : u[q] \in ToSet(ss[j])
  <2>1. CASE q \in 1 .. Len(t)
    BY <1>2, <1>4, <2>1
  <2>2. CASE q \notin 1 .. Len(t)
    <3>1. q - Len(t) \in 1 .. Len(b) /\ q = Len(t) + (q - Len(t))
      BY <1>2, <2>2
    <3>2. u[q] = b[q - Len(t)]
      BY <1>2, <3>1
    <3>3. u[q] \in ToSet(b)
      BY <1>1, <3>1, <3>2, ElementsOf
    <3> QED
      BY <1>1, <3>3 DEF b
  <2> QED
    BY <2>1, <2>2
<1>6. ASSUME NEW j \in 1 .. n + 1 PROVE ToSet(ss[j]) \subseteq ToSet(u)
  <2>1. CASE j \in 1 .. n
    BY <1>2, <2>1 DEF Joins
  <2>2. CASE j = n + 1
    BY <1>2, <2>2 DEF b
  <2> QED
    BY <2>1, <2>2
<1>7. ASSUME NEW j \in 1 .. n + 1, ss[j] # <<>> PROVE HasHead(u, ss, j)
  <2>1. CASE j \in 1 .. n
    <3>1. PICK q \in 1 .. Len(t) :
            /\ t[q] = ss[j][1]
            /\ \A r \in 1 .. q - 1 : \E m \in 1 .. j - 1 : t[r] \in ToSet(ss[m])
      BY <1>7, <2>1 DEF Joins, HasHead
    <3>2. q \in 1 .. Len(u) /\ u[q] = t[q] /\ \A r \in 1 .. q - 1 : u[r] = t[r]
      BY <1>2
    <3> QED
      BY <3>1, <3>2 DEF HasHead
  <2>2. CASE j = n + 1
    <3>1. 1 \in 1 .. Len(b)
      BY <1>1, <1>2, <1>7, <2>2, ElementsOf DEF b
    <3>2. Len(t) + 1 \in 1 .. Len(u) /\ u[Len(t) + 1] = ss[j][1]
      BY <1>2, <2>2, <3>1 DEF b
    <3>3. ASSUME NEW r \in 1 .. (Len(t) + 1) - 1
          PROVE  \E m \in 1 .. j - 1 : u[r] \in ToSet(ss[m])
      <4>1. r \in 1 .. Len(t) /\ u[r] = t[r] /\ j - 1 = n
        BY <1>2, <2>2
      <4> QED
        BY <4>1 DEF Joins
    <3> QED
      BY <3>2, <3>3 DEF HasHead
  <2> QED
    BY <2>1, <2>2
<1>8. Joins(u, S, ss, n + 1)
  BY <1>2, <1>5, <1>6, <1>7 DEF Joins
<1> QED
  BY <1>8 DEF u, b

Unfolds(f, ss, n) ==
    f = [i \in 1 .. n |-> IF i = 1 THEN ss[i] ELSE f[i - 1] \o ss[i]]

\* The recursive function of FlattenSeq exists.
LEMMA FlattenExists ==
    ASSUME NEW ss, NEW N \in Nat \ {0}
    PROVE  \E f : Unfolds(f, ss, N)
<1> DEFINE Bad == {m \in Nat : m >= 1 /\ m <= N /\ ~\E f : Unfolds(f, ss, m)}
<1>1. ASSUME Bad # {}
      PROVE  FALSE
  <2>1. Least(Bad) \in Bad /\ \A m \in Bad : Least(Bad) <= m
    <3>1. Bad \subseteq Nat
      OBVIOUS
    <3> HIDE DEF Bad
    <3> QED
      BY <1>1, <3>1, LeastIsIn
  <2>2. PICK m \in Nat : m >= 1 /\ m <= N /\ m = Least(Bad) /\ ~\E f : Unfolds(f, ss, m)
    BY <2>1
  <2>3. CASE m = 1
    <3>1. Unfolds([i \in 1 .. 1 |-> ss[i]], ss, 1)
      BY DEF Unfolds
    <3> QED
      BY <2>2, <2>3, <3>1
  <2>4. CASE m > 1
    <3>1. m - 1 \in Nat /\ m - 1 >= 1 /\ m - 1 <= N /\ ~(m <= m - 1)
      BY <2>2, <2>4
    <3>2. m - 1 \notin Bad
      <4> HIDE DEF Bad
      <4> QED
        BY <2>1, <2>2, <3>1
    <3>3. PICK f : Unfolds(f, ss, m - 1)
      BY <3>1, <3>2
    <3> DEFINE e == [i \in 1 .. m |-> IF i = m THEN f[m - 1] \o ss[m] ELSE f[i]]
    <3>4. ASSUME NEW i \in 1 .. m
          PROVE  e[i] = IF i = 1 THEN ss[i] ELSE e[i - 1] \o ss[i]
      <4>1. CASE i = m
        <5>1. m \in 1 .. m /\ m - 1 \in 1 .. m /\ m - 1 # m
          BY <2>2, <3>1
        <5>2. e[m] = f[m - 1] \o ss[m] /\ e[m - 1] = f[m - 1]
          BY <5>1
        <5>3. m # 1
          BY <2>4
        <5> HIDE DEF e
        <5> QED
          BY <4>1, <5>2, <5>3, Zenon
      <4>2. CASE i # m
        <5>1. i \in 1 .. m - 1 /\ e[i] = f[i] /\ (i # 1 => e[i - 1] = f[i - 1])
          BY <2>2, <4>2
        <5>2. f[i] = IF i = 1 THEN ss[i] ELSE f[i - 1] \o ss[i]
          BY <3>3, <5>1 DEF Unfolds
        <5> HIDE DEF e
        <5> QED
          BY <5>1, <5>2
      <4> QED
        BY <4>1, <4>2
    <3>5. e = [i \in 1 .. m |-> IF i = 1 THEN ss[i] ELSE e[i - 1] \o ss[i]]
      <4>1. e = [i \in 1 .. m |-> e[i]]
        OBVIOUS
      <4> HIDE DEF e
      <4> QED
        BY <3>4, <4>1
    <3>6. Unfolds(e, ss, m)
      <4> HIDE DEF e
      <4> QED
        BY <3>5 DEF Unfolds
    <3> HIDE DEF e
    <3> QED
      BY <2>2, <3>6
  <2> QED
    BY <2>2, <2>3, <2>4
<1>2. N \notin Bad
  <2> HIDE DEF Bad
  <2> QED
    BY <1>1
<1> QED
  BY <1>2

\* FlattenSeq has the elements of its sequences, and in their order.
LEMMA FlattenJoins ==
    ASSUME NEW S, NEW ss \in Seq(Seq(S))
    PROVE  Joins(FlattenSeq(ss), S, ss, Len(ss))
<1> DEFINE N == Len(ss)
<1>1. N \in Nat
  OBVIOUS
<1>2. CASE N = 0
  <2>1. FlattenSeq(ss) = <<>>
    BY <1>2, ElementsOf DEF FlattenSeq
  <2>2. <<>> \in Seq(S) /\ Len(<<>>) = 0
    OBVIOUS
  <2> QED
    BY <1>2, <2>1, <2>2 DEF Joins
<1>3. CASE N # 0
  <2> DEFINE h == CHOOSE f : Unfolds(f, ss, N)
  <2>1. FlattenSeq(ss) = h[N]
    BY <1>3 DEF FlattenSeq, Unfolds
  <2>2. Unfolds(h, ss, N)
    BY <1>1, <1>3, FlattenExists
  <2> HIDE DEF h
  <2>3. \A i \in 1 .. N : h[i] = IF i = 1 THEN ss[i] ELSE h[i - 1] \o ss[i]
    BY <2>2 DEF Unfolds
  <2> DEFINE Wrong == {n \in Nat : n >= 1 /\ n <= N /\ ~Joins(h[n], S, ss, n)}
  <2>4. ASSUME Wrong # {}
        PROVE  FALSE
    <3>1. Least(Wrong) \in Wrong /\ \A m \in Wrong : Least(Wrong) <= m
      <4>1. Wrong \subseteq Nat
        OBVIOUS
      <4> HIDE DEF Wrong
      <4> QED
        BY <2>4, <4>1, LeastIsIn
    <3>2. PICK n \in Nat : n >= 1 /\ n <= N /\ n = Least(Wrong) /\ ~Joins(h[n], S, ss, n)
      BY <3>1
    <3>3. CASE n = 1
      <4>1. ss[1] \in Seq(S) /\ h[1] = ss[1]
        BY <1>1, <2>3, <3>2, <3>3
      <4>2. \A q \in 1 .. Len(ss[1]) : ss[1][q] \in ToSet(ss[1])
        BY <4>1, ElementsOf
      <4>3. ASSUME ss[1] # <<>> PROVE HasHead(ss[1], ss, 1)
        <5>1. 1 \in 1 .. Len(ss[1])
          BY <4>1, <4>3, ElementsOf
        <5>2. \A r : r \notin 1 .. 1 - 1
          OBVIOUS
        <5> QED
          BY <5>1, <5>2 DEF HasHead
      <4>4. \A j \in 1 .. 1 : j = 1
        OBVIOUS
      <4>5. 1 \in 1 .. 1
        OBVIOUS
      <4>6. Joins(ss[1], S, ss, 1)
        BY <4>1, <4>2, <4>3, <4>4, <4>5 DEF Joins
      <4> QED
        BY <3>2, <3>3, <4>1, <4>6
    <3>4. CASE n # 1
      <4>1. n - 1 \in Nat /\ n - 1 >= 1 /\ n - 1 <= N /\ ~(n <= n - 1) /\ (n - 1) + 1 = n
        BY <3>2, <3>4
      <4>2. n - 1 \notin Wrong
        <5> HIDE DEF Wrong
        <5> QED
          BY <3>1, <3>2, <4>1
      <4>3. Joins(h[n - 1], S, ss, n - 1)
        BY <4>1, <4>2
      <4>4. h[n] = h[n - 1] \o ss[n]
        <5>1. n \in 1 .. N
          BY <1>1, <3>2
        <5>2. h[n] = IF n = 1 THEN ss[n] ELSE h[n - 1] \o ss[n]
          BY <2>3, <5>1
        <5> QED
          BY <3>4, <5>2
      <4>5. Joins(h[n - 1] \o ss[(n - 1) + 1], S, ss, (n - 1) + 1)
        BY <3>2, <4>1, <4>3, JoinsOneMore
      <4> QED
        BY <3>2, <4>1, <4>4, <4>5
    <3> QED
      BY <3>3, <3>4
  <2>5. N \notin Wrong
    <3> HIDE DEF Wrong
    <3> QED
      BY <2>4
  <2> QED
    BY <1>1, <1>3, <2>1, <2>5
<1> QED
  BY <1>2, <1>3

\* What FlattenSeq contains, and where it begins.
LEMMA FlattenContains ==
    ASSUME NEW S, NEW ss \in Seq(Seq(S))
    PROVE  /\ FlattenSeq(ss) \in Seq(S)
           /\ \A x : x \in ToSet(FlattenSeq(ss)) <=>
                \E j \in 1 .. Len(ss) : x \in ToSet(ss[j])
<1> DEFINE t == FlattenSeq(ss)
<1>1. Joins(t, S, ss, Len(ss))
  BY FlattenJoins
<1> HIDE DEF t
<1>2. t \in Seq(S)
  BY <1>1 DEF Joins
<1>3. ASSUME NEW x \in ToSet(t) PROVE \E j \in 1 .. Len(ss) : x \in ToSet(ss[j])
  <2>1. PICK k \in 1 .. Len(t) : t[k] = x
    BY <1>2, ElementsOf
  <2> QED
    BY <1>1, <2>1 DEF Joins
<1>4. ASSUME NEW j \in 1 .. Len(ss), NEW x \in ToSet(ss[j]) PROVE x \in ToSet(t)
  BY <1>1 DEF Joins
<1> QED
  BY <1>2, <1>3, <1>4 DEF t

-----------------------------------------------------------------------------
(* Keeping.                                                                *)

\* t has what s has at these places.
Keeps(t, S, s, places) ==
    /\ t \in Seq(S)
    /\ \A x : x \in ToSet(t) <=> \E k \in places : s[k] = x

LEMMA KeptElements ==
    ASSUME NEW S, NEW s \in Seq(S), NEW places, places \subseteq 1 .. Len(s)
    PROVE  Keeps(Keeping(s, places), S, s, places)
<1> DEFINE t == Keeping(s, places)
<1>1. t \in Seq(S) /\ \E o : Walks(o, t, s, places)
  BY KeepingIsAWalk
<1> HIDE DEF t
<1>2. PICK o : Walks(o, t, s, places)
  BY <1>1
<1>3. ASSUME NEW x \in ToSet(t) PROVE \E k \in places : s[k] = x
  <2>1. PICK n \in 1 .. Len(t) : t[n] = x
    BY <1>1, ElementsOf
  <2>2. o[n] \in places /\ s[o[n]] = x
    BY <1>2, <2>1 DEF Walks
  <2> QED
    BY <2>2
<1>4. ASSUME NEW k \in places PROVE s[k] \in ToSet(t)
  <2>1. PICK n \in 1 .. Len(t) : o[n] = k
    BY <1>2 DEF Walks
  <2>2. t[n] = s[k]
    BY <1>2, <2>1 DEF Walks
  <2> QED
    BY <1>1, <2>2, ElementsOf
<1> QED
  BY <1>1, <1>3, <1>4 DEF t, Keeps

\* The first that is kept comes first.
LEMMA KeptBegins ==
    ASSUME NEW S, NEW s \in Seq(S), NEW places, places \subseteq 1 .. Len(s),
           NEW k \in places, \A j \in places : k <= j
    PROVE  Keeping(s, places) # <<>> /\ Keeping(s, places)[1] = s[k]
<1> DEFINE t == Keeping(s, places)
<1>1. t \in Seq(S) /\ \E o : Walks(o, t, s, places)
  BY KeepingIsAWalk
<1> HIDE DEF t
<1>2. PICK o : Walks(o, t, s, places)
  BY <1>1
<1>3. PICK n \in 1 .. Len(t) : o[n] = k
  BY <1>2 DEF Walks
<1>4. Len(t) \in Nat /\ 1 \in 1 .. Len(t) /\ n \in Nat
  BY <1>1, <1>3
<1>5. o[1] \in places /\ t[1] = s[o[1]] /\ (1 < n => o[1] < o[n])
  BY <1>2, <1>3, <1>4 DEF Walks
<1>6. o[1] = k
  <2>1. k \in 1 .. Len(s) /\ o[1] \in 1 .. Len(s) /\ k <= o[1]
    BY <1>5
  <2>2. CASE n = 1
    BY <1>3, <2>2
  <2>3. CASE n # 1
    BY <1>3, <1>4, <1>5, <2>1, <2>3
  <2> QED
    BY <2>2, <2>3
<1>7. t # <<>>
  BY <1>1, <1>4, ElementsOf
<1> QED
  BY <1>5, <1>6, <1>7 DEF t

-----------------------------------------------------------------------------
(* Words.                                                                  *)

LEMMA SeqGrows ==
    ASSUME NEW A, NEW B, A \subseteq B, NEW s \in Seq(A)
    PROVE  s \in Seq(B)
<1>1. Len(s) \in Nat /\ s = [k \in 1 .. Len(s) |-> s[k]] /\ \A k \in 1 .. Len(s) : s[k] \in B
  OBVIOUS
<1> QED
  BY <1>1

LEMMA WordsAreIn ==
    ASSUME NEW W, NEW t \in Seq(Seq(W)), NEW x
    PROVE  x \in WordsOf(t) <=> \E f \in ToSet(t) : x \in ToSet(f)
BY DEF WordsOf, ToSet

LEMMA WordsInARow ==
    ASSUME NEW W, NEW s \in Seq(Seq(W)), NEW t \in Seq(Seq(W))
    PROVE  s \o t \in Seq(Seq(W)) /\ WordsOf(s \o t) = WordsOf(s) \cup WordsOf(t)
<1>1. s \o t \in Seq(Seq(W)) /\ ToSet(s \o t) = ToSet(s) \cup ToSet(t)
  BY ElementsInARow
<1>2. PICK u : u = s \o t
  OBVIOUS
<1>3. \A x : x \in WordsOf(u) <=> x \in WordsOf(s) \/ x \in WordsOf(t)
  BY <1>1, <1>2, WordsAreIn
<1> QED
  BY <1>1, <1>2, <1>3

LEMMA NoWords == WordsOf(<<>>) = {} /\ ToSet(<<>>) = {}
BY DEF WordsOf, ToSet

LEMMA OneLine ==
    ASSUME NEW W, NEW f \in Seq(W)
    PROVE  <<f>> \in Seq(Seq(W)) /\ ToSet(<<f>>) = {f} /\ WordsOf(<<f>>) = ToSet(f)
<1>1. <<f>> \in Seq(Seq(W)) /\ ToSet(<<f>>) = {f}
  BY DEF ToSet
<1>2. PICK t : t = <<f>>
  OBVIOUS
<1>3. \A x : x \in WordsOf(t) <=> x \in ToSet(f)
  BY <1>1, <1>2, WordsAreIn
<1> QED
  BY <1>1, <1>2, <1>3

\* A blank says nothing.
LEMMA NonBlankWords ==
    ASSUME NEW W, NEW t \in Seq(Seq(W))
    PROVE  /\ NonBlank(t) \in Seq(Seq(W))
           /\ WordsOf(NonBlank(t)) = WordsOf(t)
           /\ \A f \in ToSet(NonBlank(t)) : f # <<>>
<1> DEFINE places == {k \in DOMAIN t : t[k] # <<>>}
<1>1. places \subseteq 1 .. Len(t)
  BY ElementsOf
<1>2. /\ NonBlank(t) \in Seq(Seq(W))
      /\ \A f : f \in ToSet(NonBlank(t)) <=> \E k \in places : t[k] = f
  <2> HIDE DEF places
  <2>1. Keeps(Keeping(t, places), Seq(W), t, places)
    BY <1>1, KeptElements
  <2> QED
    BY <2>1 DEF Keeps, NonBlank, places
<1>3. \A f : f \in ToSet(NonBlank(t)) <=> f \in ToSet(t) /\ f # <<>>
  BY <1>2 DEF ToSet
<1>4. \A x : x \in WordsOf(NonBlank(t)) <=> x \in WordsOf(t)
  BY <1>2, <1>3, WordsAreIn, NoWords
<1> QED
  BY <1>2, <1>3, <1>4

\* A line that is not repeated has been there before.
LEMMA DeduplicatedWords ==
    ASSUME NEW W, NEW t \in Seq(Seq(W))
    PROVE  /\ Deduplicated(t) \in Seq(Seq(W))
           /\ WordsOf(Deduplicated(t)) = WordsOf(t)
<1> DEFINE places == {k \in DOMAIN t : \A j \in 1 .. k - 1 : t[j] # t[k]}
<1>1. places \subseteq 1 .. Len(t) /\ DOMAIN t = 1 .. Len(t) /\ Len(t) \in Nat
  BY ElementsOf
<1>2. /\ Deduplicated(t) \in Seq(Seq(W))
      /\ \A f : f \in ToSet(Deduplicated(t)) <=> \E k \in places : t[k] = f
  <2> HIDE DEF places
  <2>1. Keeps(Keeping(t, places), Seq(W), t, places)
    BY <1>1, KeptElements
  <2> QED
    BY <2>1 DEF Keeps, Deduplicated, places
<1>3. ASSUME NEW f \in ToSet(t) PROVE f \in ToSet(Deduplicated(t))
  <2> DEFINE T == {k \in 1 .. Len(t) : t[k] = f}
  <2>1. T \subseteq Nat /\ T # {}
    <3>1. PICK k \in 1 .. Len(t) : t[k] = f
      BY ElementsOf, Zenon
    <3>2. k \in T
      BY <3>1
    <3>3. T \subseteq Nat
      OBVIOUS
    <3> QED
      BY <3>2, <3>3
  <2>2. Least(T) \in T /\ \A k \in T : Least(T) <= k
    <3> HIDE DEF T
    <3> QED
      BY <2>1, LeastIsIn
  <2>3. PICK k \in 1 .. Len(t) : t[k] = f /\ \A j \in 1 .. Len(t) : t[j] = f => k <= j
    BY <2>2
  <2>4. \A j \in 1 .. k - 1 : j \in 1 .. Len(t) /\ ~(k <= j)
    BY <1>1
  <2>5. k \in places
    BY <1>1, <2>3, <2>4
  <2> QED
    BY <1>2, <2>3, <2>5
<1>4. \A f : f \in ToSet(Deduplicated(t)) <=> f \in ToSet(t)
  BY <1>2, <1>3 DEF ToSet
<1>5. \A x : x \in WordsOf(Deduplicated(t)) <=> x \in WordsOf(t)
  BY <1>2, <1>4, WordsAreIn
<1> QED
  BY <1>2, <1>5

\* B is what A says, with or without the word that heads a list of tools.
Says(B, A) == A \subseteq B /\ B \subseteq A \cup {"Tools:"}

\* t says what the texts of ss say together.
SaysAll(t, W, ss) ==
    /\ t \in Seq(Seq(W))
    /\ \A x : x \in WordsOf(t) <=> \E j \in 1 .. Len(ss) : x \in WordsOf(ss[j])

LEMMA FlattenWords ==
    ASSUME NEW W, NEW ss \in Seq(Seq(Seq(W)))
    PROVE  SaysAll(FlattenSeq(ss), W, ss)
<1> DEFINE t == FlattenSeq(ss)
<1>1. Joins(t, Seq(W), ss, Len(ss))
  BY FlattenJoins
<1> HIDE DEF t
<1>2. t \in Seq(Seq(W))
  BY <1>1 DEF Joins
<1>3. \A f : f \in ToSet(t) => \E j \in 1 .. Len(ss) : f \in ToSet(ss[j])
  <2> TAKE f
  <2> HAVE f \in ToSet(t)
  <2>1. PICK k \in 1 .. Len(t) : t[k] = f
    BY <1>2, ElementsOf
  <2> QED
    BY <1>1, <2>1 DEF Joins
<1>4. \A j \in 1 .. Len(ss) : ToSet(ss[j]) \subseteq ToSet(t)
  BY <1>1 DEF Joins
<1>5. \A j \in 1 .. Len(ss) : ss[j] \in Seq(Seq(W))
  OBVIOUS
<1>6. ASSUME NEW x \in WordsOf(t) PROVE \E j \in 1 .. Len(ss) : x \in WordsOf(ss[j])
  <2>1. PICK f \in ToSet(t) : x \in ToSet(f)
    BY <1>2, WordsAreIn
  <2>2. PICK j \in 1 .. Len(ss) : f \in ToSet(ss[j])
    BY <1>3, <2>1
  <2>3. x \in WordsOf(ss[j])
    BY <1>5, <2>1, <2>2, WordsAreIn
  <2> QED
    BY <2>3
<1>7. ASSUME NEW j \in 1 .. Len(ss), NEW x \in WordsOf(ss[j]) PROVE x \in WordsOf(t)
  <2>1. PICK f \in ToSet(ss[j]) : x \in ToSet(f)
    BY <1>5, WordsAreIn
  <2>2. f \in ToSet(t)
    BY <1>4, <2>1
  <2> QED
    BY <1>2, <2>1, <2>2, WordsAreIn
<1>8. SaysAll(t, W, ss)
  BY <1>2, <1>6, <1>7 DEF SaysAll
<1> QED
  BY <1>8 DEF t

LEMMA FlattenLine ==
    ASSUME NEW W, NEW t \in Seq(Seq(W))
    PROVE  FlattenSeq(t) \in Seq(W) /\ ToSet(FlattenSeq(t)) = WordsOf(t)
<1>1. FlattenSeq(t) \in Seq(W)
  BY FlattenContains
<1>2. PICK u : u = FlattenSeq(t)
  OBVIOUS
<1>3. \A x : x \in ToSet(u) <=> \E j \in 1 .. Len(t) : x \in ToSet(t[j])
  BY <1>2, FlattenContains
<1>4. \A x : x \in WordsOf(t) <=> \E j \in 1 .. Len(t) : x \in ToSet(t[j])
  <2>1. DOMAIN t = 1 .. Len(t)
    OBVIOUS
  <2> QED
    BY <2>1 DEF WordsOf
<1> QED
  BY <1>1, <1>2, <1>3, <1>4

\* A list of tools says what its entries say.
LEMMA ToolListWords ==
    ASSUME NEW W, "Tools:" \in W, NEW e \in Seq(Seq(W))
    PROVE  /\ ToolListText(e) \in Seq(Seq(W))
           /\ Says(WordsOf(ToolListText(e)), WordsOf(e))
<1> DEFINE items == NonBlank(e)
           line == <<"Tools:">> \o FlattenSeq(items)
<1>1. items \in Seq(Seq(W)) /\ WordsOf(items) = WordsOf(e)
  BY NonBlankWords
<1> HIDE DEF items
<1>2. CASE items = <<>>
  <2>1. WordsOf(e) = {} /\ <<>> \in Seq(Seq(W)) /\ WordsOf(<<>>) = {}
    BY <1>1, <1>2, NoWords
  <2> QED
    BY <1>2, <2>1 DEF ToolListText, Says, items
<1>3. CASE items # <<>>
  <2>1. FlattenSeq(items) \in Seq(W) /\ ToSet(FlattenSeq(items)) = WordsOf(e)
    BY <1>1, FlattenLine
  <2>2. <<"Tools:">> \in Seq(W) /\ ToSet(<<"Tools:">>) = {"Tools:"}
    BY DEF ToSet
  <2>3. line \in Seq(W) /\ ToSet(line) = {"Tools:"} \cup WordsOf(e)
    <3>1. \A s, t \in Seq(W) : s \o t \in Seq(W) /\ ToSet(s \o t) = ToSet(s) \cup ToSet(t)
      BY ElementsInARow
    <3> QED
      BY <2>1, <2>2, <3>1, Zenon
  <2> HIDE DEF line
  <2>4. <<line>> \in Seq(Seq(W)) /\ WordsOf(<<line>>) = ToSet(line)
    BY <2>3, OneLine
  <2>5. ToolListText(e) = <<line>>
    BY <1>3, Zenon DEF ToolListText, items, line
  <2> QED
    BY <2>3, <2>4, <2>5 DEF Says
<1> QED
  BY <1>2, <1>3

\* The words of the chunks.
Spoken == Words \cup {"Tools:"}

LEMMA TextGrows ==
    ASSUME NEW t \in Seq(Seq(Words))
    PROVE  t \in Seq(Seq(Spoken))
<1>1. Words \subseteq Spoken
  BY DEF Spoken
<1>2. \A f \in Seq(Words) : f \in Seq(Spoken)
  BY <1>1, SeqGrows
<1>3. Seq(Words) \subseteq Seq(Spoken)
  BY <1>2
<1> QED
  BY <1>3, SeqGrows

LEMMA TwoTexts ==
    /\ \A s, t \in Seq(Seq(Words)) :
         s \o t \in Seq(Seq(Words)) /\ WordsOf(s \o t) = WordsOf(s) \cup WordsOf(t)
    /\ \A s, t \in Seq(Seq(Spoken)) :
         s \o t \in Seq(Seq(Spoken)) /\ WordsOf(s \o t) = WordsOf(s) \cup WordsOf(t)
BY WordsInARow

\* An item says its text and its captions.
LEMMA ContentWords ==
    ASSUME NEW items \in Seq(Item)
    PROVE  /\ ContentTexts(items) \in Seq(Seq(Words))
           /\ WordsOf(ContentTexts(items)) =
                (UNION {ToSet(items[k].text) : k \in DOMAIN items})
                  \cup UNION {WordsOf(items[k].captions) : k \in DOMAIN items}
<1> DEFINE said(k) == NonBlank(<<items[k].text>>) \o ImageCaptions(items[k].captions)
           ss == [k \in DOMAIN items |-> said(k)]
           A == UNION {ToSet(items[k].text) : k \in DOMAIN items}
           B == UNION {WordsOf(items[k].captions) : k \in DOMAIN items}
<1>1. Len(items) \in Nat /\ DOMAIN items = 1 .. Len(items)
  OBVIOUS
<1>2. ASSUME NEW k \in DOMAIN items
      PROVE  /\ said(k) \in Seq(Seq(Words))
             /\ WordsOf(said(k)) = ToSet(items[k].text) \cup WordsOf(items[k].captions)
  <2>1. items[k] \in Item
    OBVIOUS
  <2>2. items[k].text \in Seq(Words) /\ items[k].captions \in Seq(Seq(Words))
    BY <2>1 DEF Item, Fragment
  <2>3. PICK f \in Seq(Words) : f = items[k].text
    BY <2>2
  <2>4. PICK c \in Seq(Seq(Words)) : c = items[k].captions
    BY <2>2
  <2>5. <<f>> \in Seq(Seq(Words)) /\ WordsOf(<<f>>) = ToSet(f)
    BY OneLine
  <2>6. NonBlank(<<f>>) \in Seq(Seq(Words)) /\ WordsOf(NonBlank(<<f>>)) = ToSet(f)
    BY <2>5, NonBlankWords
  <2>7. NonBlank(c) \in Seq(Seq(Words)) /\ WordsOf(NonBlank(c)) = WordsOf(c)
    BY NonBlankWords
  <2>8. /\ NonBlank(<<f>>) \o NonBlank(c) \in Seq(Seq(Words))
        /\ WordsOf(NonBlank(<<f>>) \o NonBlank(c)) = ToSet(f) \cup WordsOf(c)
    <3>1. PICK u : u = NonBlank(<<f>>)
      OBVIOUS
    <3>2. u \in Seq(Seq(Words)) /\ WordsOf(u) = ToSet(f)
      BY <2>6, <3>1
    <3>3. PICK v : v = NonBlank(c)
      OBVIOUS
    <3>4. v \in Seq(Seq(Words)) /\ WordsOf(v) = WordsOf(c)
      BY <2>7, <3>3
    <3>5. u \o v \in Seq(Seq(Words)) /\ WordsOf(u \o v) = WordsOf(u) \cup WordsOf(v)
      BY <3>2, <3>4, WordsInARow
    <3>6. u \o v \in Seq(Seq(Words)) /\ WordsOf(u \o v) = ToSet(f) \cup WordsOf(c)
      BY <3>2, <3>4, <3>5
    <3> QED
      BY <3>1, <3>3, <3>6
  <2>9. said(k) = NonBlank(<<f>>) \o NonBlank(c)
    BY <2>3, <2>4, Zenon DEF ImageCaptions
  <2> QED
    BY <2>3, <2>4, <2>8, <2>9
<1> HIDE DEF said
<1>3. ss \in Seq(Seq(Seq(Words))) /\ Len(ss) = Len(items) /\ \A k \in 1 .. Len(ss) : ss[k] = said(k)
  BY <1>1, <1>2
<1> HIDE DEF ss
<1>4. SaysAll(FlattenSeq(ss), Words, ss)
  BY <1>3, FlattenWords
<1>5. ContentTexts(items) = FlattenSeq(ss)
  BY DEF ContentTexts, ss, said
<1>6. \A x : x \in WordsOf(FlattenSeq(ss)) <=> x \in A \cup B
  <2>1. \A x : x \in WordsOf(FlattenSeq(ss)) <=> \E j \in DOMAIN items : x \in WordsOf(said(j))
    BY <1>1, <1>3, <1>4 DEF SaysAll
  <2>2. \A x : x \in A \cup B <=>
               \E j \in DOMAIN items : x \in ToSet(items[j].text) \cup WordsOf(items[j].captions)
    OBVIOUS
  <2> QED
    BY <1>2, <2>1, <2>2
<1>7. FlattenSeq(ss) \in Seq(Seq(Words))
  BY <1>4 DEF SaysAll
<1> QED
  BY <1>5, <1>6, <1>7

\* A block says what is printed in it.
LEMMA BlockWords ==
    ASSUME NEW b \in Block
    PROVE  /\ BlockText(b) \in Seq(Seq(Spoken))
           /\ Says(WordsOf(BlockText(b)), PrintedInBlock(b))
<1> DEFINE head == NonBlank(<<b.title>>)
           texts == [k \in DOMAIN b.content |-> b.content[k].text]
           rest == IF b.list THEN ToolListText(texts)
                   ELSE ContentTexts(b.content) \o ImageCaptions(b.captions)
                          \o ToolListText(b.tools)
           T == UNION {ToSet(b.content[k].text) : k \in DOMAIN b.content}
           C == UNION {WordsOf(b.content[k].captions) : k \in DOMAIN b.content}
           P == IF b.list THEN T ELSE T \cup C \cup WordsOf(b.captions) \cup WordsOf(b.tools)
<1>1. /\ b.title \in Seq(Words) /\ b.content \in Seq(Item) /\ b.list \in BOOLEAN
      /\ b.captions \in Seq(Seq(Words)) /\ b.tools \in Seq(Seq(Words))
  BY DEF Block, Fragment
<1>2. head \in Seq(Seq(Spoken)) /\ WordsOf(head) = ToSet(b.title)
  <2>1. PICK f \in Seq(Words) : f = b.title
    BY <1>1
  <2>2. <<f>> \in Seq(Seq(Words)) /\ WordsOf(<<f>>) = ToSet(f)
    BY OneLine
  <2>3. NonBlank(<<f>>) \in Seq(Seq(Words)) /\ WordsOf(NonBlank(<<f>>)) = ToSet(f)
    BY <2>2, NonBlankWords
  <2>4. NonBlank(<<f>>) \in Seq(Seq(Spoken))
    BY <2>3, TextGrows
  <2> QED
    BY <2>1, <2>3, <2>4
<1> HIDE DEF head
<1>3. "Tools:" \in Spoken
  BY DEF Spoken
<1>4. rest \in Seq(Seq(Spoken)) /\ Says(WordsOf(rest), P)
  <2>1. CASE b.list
    <3>1. texts \in Seq(Seq(Words))
      <4>1. \A k \in 1 .. Len(b.content) : b.content[k] \in Item
        BY <1>1
      <4>1a. \A i \in Item : i.text \in Seq(Words)
        BY DEF Item, Fragment
      <4>2. Len(b.content) \in Nat /\ DOMAIN b.content = 1 .. Len(b.content)
        BY <1>1
      <4> QED
        BY <4>1, <4>1a, <4>2
    <3>2. WordsOf(texts) = T
      BY DEF WordsOf
    <3> HIDE DEF texts, T
    <3>3. texts \in Seq(Seq(Spoken))
      BY <3>1, TextGrows
    <3>4. ToolListText(texts) \in Seq(Seq(Spoken)) /\ Says(WordsOf(ToolListText(texts)), T)
      BY <1>3, <3>2, <3>3, ToolListWords
    <3> QED
      BY <2>1, <3>4
  <2>2. CASE ~b.list
    <3> DEFINE c == ContentTexts(b.content)
               i == ImageCaptions(b.captions)
               l == ToolListText(b.tools)
    <3>1. c \in Seq(Seq(Spoken)) /\ WordsOf(c) = T \cup C
      <4>1. c \in Seq(Seq(Words)) /\ WordsOf(c) = T \cup C
        BY <1>1, ContentWords
      <4> QED
        BY <4>1, TextGrows
    <3>2. i \in Seq(Seq(Spoken)) /\ WordsOf(i) = WordsOf(b.captions)
      BY <1>1, NonBlankWords, TextGrows DEF ImageCaptions
    <3>3. l \in Seq(Seq(Spoken)) /\ Says(WordsOf(l), WordsOf(b.tools))
      BY <1>1, <1>3, ToolListWords, TextGrows
    <3> HIDE DEF c, i, l, T, C
    <3>4. c \o i \in Seq(Seq(Spoken)) /\ WordsOf(c \o i) = T \cup C \cup WordsOf(b.captions)
      BY <3>1, <3>2, TwoTexts, Zenon
    <3>5. /\ (c \o i) \o l \in Seq(Seq(Spoken))
          /\ WordsOf((c \o i) \o l) = T \cup C \cup WordsOf(b.captions) \cup WordsOf(l)
      BY <3>3, <3>4, TwoTexts, Zenon
    <3>6. Says(WordsOf((c \o i) \o l), P)
      BY <2>2, <3>3, <3>5 DEF Says
    <3>7. rest = (c \o i) \o l
      BY <2>2 DEF c, i, l
    <3> QED
      BY <3>5, <3>6, <3>7
  <2> QED
    BY <1>1, <2>1, <2>2
<1>5. PrintedInBlock(b) = ToSet(b.title) \cup P
  BY DEF PrintedInBlock
<1> HIDE DEF rest, P
<1>6. head \o rest \in Seq(Seq(Spoken)) /\ WordsOf(head \o rest) = WordsOf(head) \cup WordsOf(rest)
  BY <1>2, <1>4, TwoTexts, Zenon
<1>7. BlockText(b) = Deduplicated(head \o rest)
  BY DEF BlockText, head, rest
<1>8. BlockText(b) \in Seq(Seq(Spoken)) /\ WordsOf(BlockText(b)) = WordsOf(head) \cup WordsOf(rest)
  BY <1>6, <1>7, DeduplicatedWords
<1> QED
  BY <1>2, <1>4, <1>5, <1>8 DEF Says

-----------------------------------------------------------------------------
(* Pieces, chunks and pages.                                               *)

PieceType == [text : Seq(Seq(Spoken)), anchor : Hashes \cup {NoHash},
              parent : Hashes \cup {NoHash}, link : Hashes \cup {NoHash}]

\* What a set of pieces says.
Said(P) == {x \in Spoken : \E p \in P : x \in WordsOf(p.text)}

LEMMA WordsWithin ==
    ASSUME NEW W, NEW t \in Seq(Seq(W))
    PROVE  WordsOf(t) \subseteq W
<1>1. ASSUME NEW x \in WordsOf(t) PROVE x \in W
  <2>1. PICK f \in ToSet(t) : x \in ToSet(f)
    BY WordsAreIn
  <2>2. f \in Seq(W)
    BY <2>1, ElementsOf
  <2> QED
    BY <2>1, <2>2, ElementsOf
<1> QED
  BY <1>1

LEMMA PieceFacts ==
    ASSUME NEW text, NEW anchor, NEW parent
    PROVE  /\ Piece(text, anchor, parent).text = text
           /\ Piece(text, anchor, parent).parent = parent
           /\ (text \in Seq(Seq(Spoken)) /\ anchor \in Hashes \cup {NoHash}
                 /\ parent \in Hashes \cup {NoHash}) =>
                Piece(text, anchor, parent) \in PieceType
<1>1. PICK l : l = IF anchor # NoHash THEN anchor ELSE parent
  OBVIOUS
<1>2. Piece(text, anchor, parent) =
        [text |-> text, anchor |-> anchor, parent |-> parent, link |-> l]
  BY <1>1 DEF Piece
<1> QED
  BY <1>1, <1>2 DEF PieceType

LEMMA DictsKept ==
    ASSUME NEW S, NEW nodes \in Seq(S)
    PROVE  Dicts(nodes) \in Seq(S)
<1>1. {k \in DOMAIN nodes : nodes[k].dict} \subseteq 1 .. Len(nodes)
  OBVIOUS
<1>2. Keeping(nodes, {k \in DOMAIN nodes : nodes[k].dict}) \in Seq(S)
  BY <1>1, KeepingIsAWalk
<1> QED
  BY <1>2 DEF Dicts

\* The pieces of a module: its heading first, all of them its own, and together
\* they say what is printed in it.
PiecesOf(ps, m) ==
    /\ ps \in Seq(PieceType)
    /\ ps # <<>> /\ ps[1] = Piece(NonBlank(<<m.title>>), m.hash, m.hash)
    /\ \A p \in ToSet(ps) : p.parent = m.hash
    /\ Says(Said(ToSet(ps)), PrintedIn(m))

LEMMA ModuleWords ==
    ASSUME NEW m \in Module
    PROVE  PiecesOf(ModulePieces(m), m)
<1> DEFINE d == Dicts(m.children)
           head == Piece(NonBlank(<<m.title>>), m.hash, m.hash)
           list == Piece(ToolListText(m.tools), NoHash, m.hash)
           part(b) == Piece(BlockText(b), b.hash, m.hash)
           rest == [k \in DOMAIN d |-> part(d[k])]
           two == <<head, list>>
           blocks == UNION {PrintedInBlock(b) : b \in ToSet(d)}
<1>1. /\ m.title \in Seq(Words) /\ m.tools \in Seq(Seq(Words))
      /\ m.hash \in Hashes \cup {NoHash} /\ m.children \in Seq(Block)
  BY DEF Module, Fragment
<1>2. d \in Seq(Block)
  BY <1>1, DictsKept
<1> HIDE DEF d
<1>3. /\ head \in PieceType /\ head.parent = m.hash
      /\ WordsOf(head.text) = ToSet(m.title)
  <2>1. PICK f \in Seq(Words) : f = m.title
    BY <1>1
  <2>2. <<f>> \in Seq(Seq(Words)) /\ WordsOf(<<f>>) = ToSet(f)
    BY OneLine
  <2>3. PICK u : u = NonBlank(<<f>>)
    OBVIOUS
  <2>4. u \in Seq(Seq(Words)) /\ WordsOf(u) = ToSet(f)
    BY <2>2, <2>3, NonBlankWords
  <2>5. u \in Seq(Seq(Spoken))
    BY <2>4, TextGrows
  <2>6. head = Piece(u, m.hash, m.hash)
    BY <2>1, <2>3
  <2> QED
    BY <1>1, <2>1, <2>4, <2>5, <2>6, PieceFacts
<1>4. /\ list \in PieceType /\ list.parent = m.hash
      /\ Says(WordsOf(list.text), WordsOf(m.tools))
  <2>1. PICK u : u = ToolListText(m.tools)
    OBVIOUS
  <2>2. u \in Seq(Seq(Spoken)) /\ Says(WordsOf(u), WordsOf(m.tools))
    <3>1. "Tools:" \in Spoken /\ m.tools \in Seq(Seq(Spoken))
      BY <1>1, TextGrows DEF Spoken
    <3> QED
      BY <2>1, <3>1, ToolListWords
  <2>3. list = Piece(u, NoHash, m.hash)
    BY <2>1
  <2> QED
    BY <1>1, <2>2, <2>3, PieceFacts
<1>5. ASSUME NEW b \in Block
      PROVE  /\ part(b) \in PieceType /\ part(b).parent = m.hash
             /\ Says(WordsOf(part(b).text), PrintedInBlock(b))
  <2>1. b.hash \in Hashes \cup {NoHash}
    BY DEF Block
  <2>2. PICK u : u = BlockText(b)
    OBVIOUS
  <2>3. u \in Seq(Seq(Spoken)) /\ Says(WordsOf(u), PrintedInBlock(b))
    BY <2>2, BlockWords
  <2>4. part(b) = Piece(u, b.hash, m.hash)
    BY <2>2
  <2> QED
    BY <1>1, <2>1, <2>3, <2>4, PieceFacts
<1> HIDE DEF head, list, part
<1>6. rest \in Seq(PieceType) /\ \A p : p \in ToSet(rest) <=> \E b \in ToSet(d) : p = part(b)
  <2>1. Len(d) \in Nat /\ DOMAIN d = 1 .. Len(d) /\ \A k \in 1 .. Len(d) : d[k] \in Block
    BY <1>2
  <2>2. rest \in Seq(PieceType) /\ DOMAIN rest = DOMAIN d
    BY <1>5, <2>1
  <2>3. \A p : p \in ToSet(rest) <=> \E k \in DOMAIN d : p = part(d[k])
    BY DEF ToSet
  <2>4. \A b : b \in ToSet(d) <=> \E k \in DOMAIN d : b = d[k]
    BY DEF ToSet
  <2> HIDE DEF rest
  <2> QED
    BY <2>2, <2>3, <2>4
<1>7. two \in Seq(PieceType) /\ ToSet(two) = {head, list} /\ Len(two) = 2 /\ two[1] = head
  BY <1>3, <1>4 DEF ToSet
<1> HIDE DEF two, rest
<1> DEFINE ps == two \o rest
<1>8. /\ ps \in Seq(PieceType) /\ Len(ps) = 2 + Len(rest) /\ ps[1] = head
      /\ ToSet(ps) = {head, list} \cup ToSet(rest)
  <2>1. 1 \in 1 .. Len(two) /\ Len(rest) \in Nat
    BY <1>6, <1>7
  <2> HIDE DEF ps
  <2>2. \A s, t \in Seq(PieceType) :
          /\ s \o t \in Seq(PieceType) /\ Len(s \o t) = Len(s) + Len(t)
          /\ ToSet(s \o t) = ToSet(s) \cup ToSet(t)
          /\ \A k \in 1 .. Len(s) : (s \o t)[k] = s[k]
    BY ElementsInARow
  <2>3. rest \in Seq(PieceType) /\ two \in Seq(PieceType)
    BY <1>6, <1>7
  <2>4. /\ ps \in Seq(PieceType) /\ Len(ps) = Len(two) + Len(rest)
        /\ ToSet(ps) = ToSet(two) \cup ToSet(rest) /\ ps[1] = two[1]
    BY <2>1, <2>2, <2>3, Zenon DEF ps
  <2> QED
    BY <1>7, <2>4
<1>9. ps # <<>>
  BY <1>6, <1>8
<1> HIDE DEF ps
<1>10. \A p \in ToSet(ps) : p.parent = m.hash
  <2>1. ToSet(d) \subseteq Block
    BY <1>2, ElementsOf
  <2> QED
    BY <1>3, <1>4, <1>5, <1>6, <1>8, <2>1
<1>11. PrintedIn(m) = (ToSet(m.title) \cup WordsOf(m.tools)) \cup blocks
  BY DEF PrintedIn, d
<1>12. Says(Said(ToSet(ps)), PrintedIn(m))
  <2>1. \A b \in ToSet(d) : Says(WordsOf(part(b).text), PrintedInBlock(b))
    BY <1>2, <1>5, ElementsOf
  <2>2. \A p \in ToSet(ps) : WordsOf(p.text) \subseteq Spoken
    <3>1. ToSet(ps) \subseteq PieceType
      BY <1>8, ElementsOf
    <3>2. \A p \in PieceType : p.text \in Seq(Seq(Spoken))
      BY DEF PieceType
    <3> QED
      BY <3>1, <3>2, WordsWithin
  <2>3. \A x : x \in Said(ToSet(ps)) <=>
               \/ x \in WordsOf(head.text) \/ x \in WordsOf(list.text)
               \/ \E b \in ToSet(d) : x \in WordsOf(part(b).text)
    <3>1. \A x : x \in Said(ToSet(ps)) <=> \E p \in ToSet(ps) : x \in WordsOf(p.text)
      BY <2>2 DEF Said
    <3>2. \A p : p \in ToSet(ps) <=> p = head \/ p = list \/ \E b \in ToSet(d) : p = part(b)
      BY <1>6, <1>8
    <3> QED
      BY <3>1, <3>2
  <2>4. \A x : x \in blocks <=> \E b \in ToSet(d) : x \in PrintedInBlock(b)
    OBVIOUS
  <2> HIDE DEF blocks
  <2>5. ASSUME NEW x \in PrintedIn(m) PROVE x \in Said(ToSet(ps))
    BY <1>3, <1>4, <1>11, <2>1, <2>3, <2>4 DEF Says
  <2>6. ASSUME NEW x \in Said(ToSet(ps)) PROVE x \in PrintedIn(m) \cup {"Tools:"}
    BY <1>3, <1>4, <1>11, <2>1, <2>3, <2>4 DEF Says
  <2> QED
    BY <2>5, <2>6 DEF Says
<1>13. ModulePieces(m) = ps
  BY DEF ModulePieces, ps, two, rest, head, list, part, d
<1>14. PiecesOf(ps, m)
  BY <1>8, <1>9, <1>10, <1>12 DEF PiecesOf, head
<1> QED
  BY <1>13, <1>14

\* ps has the first piece of the modules that carry h where this title is.
Heads(ps, h, title) ==
    \E q \in 1 .. Len(ps) :
      /\ ps[q].parent = h /\ ps[q].text = NonBlank(<<title>>)
      /\ \A r \in 1 .. q - 1 : ps[r].parent # h

Of(P, h) == {p \in P : p.parent = h}

\* ps are pieces of the page: those of a hash say what the page has under it,
\* and begin with its title.
PiecesOn(ps, page) ==
    /\ ps \in Seq(PieceType)
    /\ \A h \in Hashes :
         /\ Says(Said(Of(ToSet(ps), h)), PrintedUnder(page, h))
         /\ Of(ToSet(ps), h) # {} =>
              TitleUnder(page, h) \in Seq(Words) /\ Heads(ps, h, TitleUnder(page, h))

AllPieces(page) ==
    LET modules == Dicts(page.modules)
    IN <<Piece(ToolListText(page.tools), NoHash, NoHash)>>
         \o FlattenSeq([k \in DOMAIN modules |-> ModulePieces(modules[k])])

LEMMA PageWords ==
    ASSUME NEW page \in Page
    PROVE  PiecesOn(AllPieces(page), page)
<1> DEFINE ms == Dicts(page.modules)
           tools == Piece(ToolListText(page.tools), NoHash, NoHash)
           ss == [k \in DOMAIN ms |-> ModulePieces(ms[k])]
           flat == FlattenSeq(ss)
           ps == <<tools>> \o flat
<1>1. page.modules \in Seq(Module) /\ page.tools \in Seq(Seq(Words))
  BY DEF Page, Fragment
<1>2. ms \in Seq(Module)
  BY <1>1, DictsKept
<1>3. tools \in PieceType /\ tools.parent = NoHash
  <2>1. "Tools:" \in Spoken /\ page.tools \in Seq(Seq(Spoken))
    BY <1>1, TextGrows DEF Spoken
  <2>2. PICK u : u = ToolListText(page.tools)
    OBVIOUS
  <2>3. u \in Seq(Seq(Spoken))
    BY <2>1, <2>2, ToolListWords
  <2>4. tools = Piece(u, NoHash, NoHash)
    BY <2>2
  <2> QED
    BY <2>3, <2>4, PieceFacts
<1>4. AllPieces(page) = ps
  BY DEF AllPieces
<1> HIDE DEF ms, tools
<1>5. Len(ms) \in Nat /\ DOMAIN ms = 1 .. Len(ms) /\ \A k \in 1 .. Len(ms) : ms[k] \in Module
  BY <1>2
<1>6. \A k \in 1 .. Len(ms) : PiecesOf(ss[k], ms[k])
  BY <1>5, ModuleWords
<1>7. ss \in Seq(Seq(PieceType)) /\ Len(ss) = Len(ms)
  <2>1. \A k \in 1 .. Len(ms) : ModulePieces(ms[k]) \in Seq(PieceType)
    BY <1>5, ModuleWords DEF PiecesOf
  <2> QED
    BY <1>5, <2>1
<1> HIDE DEF ss
<1>8. Joins(flat, PieceType, ss, Len(ss))
  BY <1>7, FlattenJoins
<1>9. /\ flat \in Seq(PieceType)
      /\ \A p : p \in ToSet(flat) <=> \E j \in 1 .. Len(ss) : p \in ToSet(ss[j])
  BY <1>7, FlattenContains
<1> HIDE DEF flat
<1>10. /\ ps \in Seq(PieceType) /\ Len(ps) = 1 + Len(flat) /\ ps[1] = tools
       /\ \A k \in 1 .. Len(flat) : ps[1 + k] = flat[k]
       /\ ToSet(ps) = {tools} \cup ToSet(flat)
  <2>1. <<tools>> \in Seq(PieceType) /\ Len(<<tools>>) = 1 /\ ToSet(<<tools>>) = {tools}
        /\ <<tools>>[1] = tools /\ 1 \in 1 .. 1
    BY <1>3 DEF ToSet
  <2>2. PICK one : one = <<tools>>
    OBVIOUS
  <2>3. \A s, t \in Seq(PieceType) :
          /\ s \o t \in Seq(PieceType) /\ Len(s \o t) = Len(s) + Len(t)
          /\ ToSet(s \o t) = ToSet(s) \cup ToSet(t)
          /\ \A k \in 1 .. Len(s) : (s \o t)[k] = s[k]
          /\ \A k \in 1 .. Len(t) : (s \o t)[Len(s) + k] = t[k]
    BY ElementsInARow
  <2>4. one \in Seq(PieceType) /\ Len(one) = 1 /\ ToSet(one) = {tools} /\ one[1] = tools /\ 1 \in 1 .. Len(one)
    BY <2>1, <2>2
  <2>5. /\ one \o flat \in Seq(PieceType) /\ Len(one \o flat) = Len(one) + Len(flat)
        /\ ToSet(one \o flat) = ToSet(one) \cup ToSet(flat)
        /\ (one \o flat)[1] = one[1]
        /\ \A k \in 1 .. Len(flat) : (one \o flat)[Len(one) + k] = flat[k]
    BY <1>9, <2>3, <2>4, Zenon
  <2> QED
    BY <2>2, <2>4, <2>5, Zenon
<1> HIDE DEF ps
<1>11. \A h \in Hashes : h # NoHash
  BY HashAssumption
<1>12. ASSUME NEW h \in Hashes, NEW p \in ToSet(ps)
       PROVE  p.parent = h <=> \E j \in 1 .. Len(ss) : ms[j].hash = h /\ p \in ToSet(ss[j])
  <2>1. \A j \in 1 .. Len(ss) : \A q \in ToSet(ss[j]) : q.parent = ms[j].hash
    BY <1>6, <1>7 DEF PiecesOf
  <2> QED
    BY <1>3, <1>9, <1>10, <1>11, <2>1
<1>13. ASSUME NEW h \in Hashes
       PROVE  Says(Said(Of(ToSet(ps), h)), PrintedUnder(page, h))
  <2>1. \A x : x \in Said(Of(ToSet(ps), h)) <=>
               \E j \in 1 .. Len(ss) : ms[j].hash = h /\ x \in Said(ToSet(ss[j]))
    <3>1. \A p : p \in Of(ToSet(ps), h) <=>
                 \E j \in 1 .. Len(ss) : ms[j].hash = h /\ p \in ToSet(ss[j])
      BY <1>9, <1>10, <1>12 DEF Of
    <3> QED
      BY <3>1 DEF Said
  <2>2. \A x : x \in PrintedUnder(page, h) <=>
               \E j \in 1 .. Len(ss) : ms[j].hash = h /\ x \in PrintedIn(ms[j])
    <3>1. \A m : m \in ToSet(ms) <=> \E j \in 1 .. Len(ss) : m = ms[j]
      BY <1>5, <1>7 DEF ToSet
    <3>2. PrintedUnder(page, h) = UNION {PrintedIn(m) : m \in {m \in ToSet(ms) : m.hash = h}}
      BY DEF PrintedUnder, ms
    <3> QED
      BY <3>1, <3>2
  <2>3. \A j \in 1 .. Len(ss) : Says(Said(ToSet(ss[j])), PrintedIn(ms[j]))
    BY <1>6, <1>7 DEF PiecesOf
  <2> QED
    BY <2>1, <2>2, <2>3 DEF Says
<1>14. ASSUME NEW h \in Hashes, Of(ToSet(ps), h) # {}
       PROVE  TitleUnder(page, h) \in Seq(Words) /\ Heads(ps, h, TitleUnder(page, h))
  <2> DEFINE J == {k \in DOMAIN ms : ms[k].hash = h}
             j == Least(J)
  <2>1. J \subseteq Nat /\ J # {}
    <3>1. PICK p \in ToSet(ps) : p.parent = h
      BY <1>14 DEF Of
    <3>2. PICK k \in 1 .. Len(ss) : ms[k].hash = h
      BY <1>12, <3>1
    <3>3. k \in J
      BY <1>5, <1>7, <3>2
    <3>4. J \subseteq Nat
      BY <1>5
    <3> QED
      BY <3>3, <3>4
  <2>2. j \in J /\ \A k \in J : j <= k
    <3> HIDE DEF J
    <3> QED
      BY <2>1, LeastIsIn
  <2>3. j \in 1 .. Len(ss) /\ ms[j].hash = h /\ \A k \in 1 .. j - 1 : k \in 1 .. Len(ss) /\ ms[k].hash # h
    <3> DEFINE n == Len(ss)
    <3>1. J = {k \in 1 .. n : ms[k].hash = h} /\ n \in Nat
      BY <1>5, <1>7
    <3> HIDE DEF n
    <3>2. PICK i : i = j
      OBVIOUS
    <3>3. i \in 1 .. n /\ ms[i].hash = h /\ \A k \in 1 .. n : ms[k].hash = h => i <= k
      <4> HIDE DEF j, J
      <4> QED
        BY <2>2, <3>1, <3>2
    <3>4. \A k \in 1 .. i - 1 : k \in 1 .. n /\ ~(i <= k)
      BY <3>1, <3>3
    <3>5. \A k \in 1 .. i - 1 : k \in 1 .. n /\ ms[k].hash # h
      BY <3>3, <3>4
    <3> HIDE DEF j, J
    <3> QED
      BY <3>2, <3>3, <3>5 DEF n
  <2>4. TitleUnder(page, h) = ms[j].title
    BY DEF TitleUnder, ms
  <2> HIDE DEF j, J
  <2>5. ms[j] \in Module /\ ms[j].title \in Seq(Words)
    BY <1>5, <1>7, <2>3 DEF Module, Fragment
  <2>6. PiecesOf(ss[j], ms[j])
    BY <1>6, <1>7, <2>3
  <2>7. HasHead(flat, ss, j)
    BY <1>8, <2>3, <2>6 DEF Joins, PiecesOf
  <2>8. PICK q \in 1 .. Len(flat) :
          /\ flat[q] = ss[j][1]
          /\ \A r \in 1 .. q - 1 : \E m \in 1 .. j - 1 : flat[r] \in ToSet(ss[m])
    BY <2>7 DEF HasHead
  <2>9. ss[j][1].parent = h /\ ss[j][1].text = NonBlank(<<ms[j].title>>)
    <3>1. PICK u : u = NonBlank(<<ms[j].title>>)
      OBVIOUS
    <3>2. ss[j][1] = Piece(u, h, h)
      BY <2>3, <2>6, <3>1 DEF PiecesOf
    <3> QED
      BY <3>1, <3>2, PieceFacts
  <2>10. Len(flat) \in Nat
    BY <1>9
  <2>11. 1 + q \in 1 .. Len(ps) /\ ps[1 + q] = ss[j][1]
    BY <1>10, <2>8, <2>10
  <2>12. ASSUME NEW r \in 1 .. (1 + q) - 1 PROVE ps[r].parent # h
    <3>1. CASE r = 1
      BY <1>3, <1>10, <1>11, <3>1
    <3>2. CASE r # 1
      <4>1. r - 1 \in 1 .. q - 1 /\ r - 1 \in 1 .. Len(flat) /\ r = 1 + (r - 1)
        BY <2>8, <2>10, <3>2
      <4>2. PICK m \in 1 .. j - 1 : flat[r - 1] \in ToSet(ss[m])
        BY <2>8, <4>1
      <4>3. flat[r - 1].parent = ms[m].hash
        BY <1>6, <1>7, <2>3, <4>2 DEF PiecesOf
      <4>4. ps[r] = flat[r - 1]
        BY <1>10, <4>1
      <4> QED
        BY <2>3, <4>3, <4>4
    <3> QED
      BY <3>1, <3>2
  <2>13. Heads(ps, h, ms[j].title)
    BY <2>9, <2>11, <2>12 DEF Heads
  <2> QED
    BY <2>4, <2>5, <2>13
<1>15. PiecesOn(ps, page)
  BY <1>10, <1>13, <1>14 DEF PiecesOn
<1> QED
  BY <1>4, <1>15

\* Chunks: pieces that have been numbered.
ChunkType == [ord : Nat, text : Seq(Seq(Spoken)), anchor : Hashes \cup {NoHash},
              parent : Hashes \cup {NoHash}, link : Hashes \cup {NoHash}]

Begins(cs, h, title) ==
    \E n \in 1 .. Len(cs) :
      /\ cs[n].parent = h /\ cs[n].text = <<title>>
      /\ \A r \in 1 .. n - 1 : cs[r].parent # h

\* cs are chunks of the page.
ChunksOn(cs, page) ==
    /\ cs \in Seq(ChunkType)
    /\ \A k \in 1 .. Len(cs) : cs[k].ord = k /\ cs[k].text # <<>>
    /\ \A h \in Hashes :
         /\ Says(Said(Of(ToSet(cs), h)), PrintedUnder(page, h))
         /\ Of(ToSet(cs), h) # {} /\ TitleUnder(page, h) # <<>> =>
              TitleUnder(page, h) \in Seq(Words) /\ Begins(cs, h, TitleUnder(page, h))

LEMMA OneIsKept ==
    ASSUME NEW f \in Seq(Words), f # <<>>
    PROVE  NonBlank(<<f>>) = <<f>>
<1> DEFINE s == <<f>>
           places == {k \in DOMAIN s : s[k] # <<>>}
           t == Keeping(s, places)
<1>1. s \in Seq(Seq(Words)) /\ Len(s) = 1 /\ s[1] = f /\ DOMAIN s = 1 .. 1
  OBVIOUS
<1>2. \A k \in 1 .. 1 : k = 1
  OBVIOUS
<1>3. 1 \in places /\ places \subseteq 1 .. Len(s) /\ \A j \in places : 1 <= j
  BY <1>1, <1>2
<1>4. NonBlank(s) = t
  BY DEF NonBlank
<1> HIDE DEF s, places
<1>5. t # <<>> /\ t[1] = f
  BY <1>1, <1>3, KeptBegins
<1>6. t \in Seq(Seq(Words)) /\ Len(t) <= 1
  BY <1>1, <1>3, KeepingIsAWalk
<1> HIDE DEF t
<1>7. Len(t) = 1
  <2>1. Len(t) \in Nat /\ Len(t) # 0
    BY <1>5, <1>6, ElementsOf
  <2>2. PICK n : n = Len(t)
    OBVIOUS
  <2>3. n \in Nat /\ n # 0 /\ n <= 1
    BY <1>6, <2>1, <2>2, Zenon
  <2>4. n = 1
    BY <2>3
  <2> QED
    BY <2>2, <2>4
<1>8. t = <<f>>
  BY <1>5, <1>6, <1>7
<1> QED
  BY <1>4, <1>8 DEF s

LEMMA ChunkWords ==
    ASSUME NEW page \in Page
    PROVE  ChunksOn(ParsePublication(page), page)
<1> DEFINE ps == AllPieces(page)
           places == {k \in DOMAIN ps : ps[k].text # <<>>}
           kept == Keeping(ps, places)
           cs == [k \in DOMAIN kept |->
                    [ord |-> k, text |-> kept[k].text, anchor |-> kept[k].anchor,
                     parent |-> kept[k].parent, link |-> kept[k].link]]
<1>1. ParsePublication(page) = cs
  BY DEF ParsePublication, AllPieces
<1>2. PiecesOn(ps, page)
  BY PageWords
<1> HIDE DEF ps
<1>3. ps \in Seq(PieceType) /\ Len(ps) \in Nat /\ DOMAIN ps = 1 .. Len(ps)
  BY <1>2 DEF PiecesOn
<1>4. places \subseteq 1 .. Len(ps) /\ \A q \in 1 .. Len(ps) : ps[q].text # <<>> => q \in places
  BY <1>3
<1>5. kept \in Seq(PieceType) /\ \E o : Walks(o, kept, ps, places)
  <2> HIDE DEF places
  <2> QED
    BY <1>3, <1>4, KeepingIsAWalk
<1> HIDE DEF places
<1> HIDE DEF kept
<1>6. PICK o : Walks(o, kept, ps, places)
  BY <1>5
<1>7. /\ cs \in Seq(ChunkType) /\ Len(cs) = Len(kept) /\ Len(kept) \in Nat
      /\ \A k \in 1 .. Len(kept) : /\ cs[k].ord = k
                                   /\ cs[k].text = kept[k].text
                                   /\ cs[k].parent = kept[k].parent
  <2>1. Len(kept) \in Nat /\ DOMAIN kept = 1 .. Len(kept)
    BY <1>5
  <2>2. \A k \in 1 .. Len(kept) : kept[k] \in PieceType
    BY <1>5
  <2>3. \A k \in 1 .. Len(kept) :
          [ord |-> k, text |-> kept[k].text, anchor |-> kept[k].anchor,
           parent |-> kept[k].parent, link |-> kept[k].link] \in ChunkType
    BY <2>2 DEF ChunkType, PieceType
  <2>4. cs \in [1 .. Len(kept) -> ChunkType]
    BY <2>1, <2>3
  <2>5. cs \in Seq(ChunkType) /\ Len(cs) = Len(kept)
    <3> HIDE DEF cs
    <3> QED
      BY <2>1, <2>4
  <2> QED
    BY <2>1, <2>5
<1> HIDE DEF cs
<1>8. \A k \in 1 .. Len(cs) :
        /\ o[k] \in places /\ o[k] \in 1 .. Len(ps)
        /\ cs[k].text = ps[o[k]].text /\ cs[k].parent = ps[o[k]].parent
  BY <1>4, <1>6, <1>7 DEF Walks
<1>9. \A q \in 1 .. Len(ps) : ps[q].text # <<>> => \E k \in 1 .. Len(cs) : o[k] = q
  BY <1>4, <1>6, <1>7 DEF Walks
<1>10. /\ \A p : p \in ToSet(ps) <=> \E q \in 1 .. Len(ps) : ps[q] = p
       /\ \A c : c \in ToSet(cs) <=> \E k \in 1 .. Len(cs) : cs[k] = c
  BY <1>3, <1>7, ElementsOf
<1>11. ASSUME NEW h \in Hashes
       PROVE  Says(Said(Of(ToSet(cs), h)), PrintedUnder(page, h))
  <2>1. ASSUME NEW x \in Said(Of(ToSet(cs), h)) PROVE x \in Said(Of(ToSet(ps), h))
    <3>1. PICK k \in 1 .. Len(cs) : cs[k].parent = h /\ x \in WordsOf(cs[k].text)
      BY <1>10 DEF Said, Of
    <3>2. ps[o[k]] \in ToSet(ps) /\ ps[o[k]].parent = h /\ x \in WordsOf(ps[o[k]].text)
      BY <1>8, <1>10, <3>1
    <3> QED
      BY <3>2 DEF Said, Of
  <2>2. ASSUME NEW x \in Said(Of(ToSet(ps), h)) PROVE x \in Said(Of(ToSet(cs), h))
    <3>1. PICK q \in 1 .. Len(ps) : ps[q].parent = h /\ x \in WordsOf(ps[q].text)
      BY <1>10 DEF Said, Of
    <3>2. ps[q].text # <<>>
      BY <3>1, NoWords
    <3>3. PICK k \in 1 .. Len(cs) : o[k] = q
      BY <1>9, <3>2
    <3>4. cs[k] \in ToSet(cs) /\ cs[k].parent = h /\ x \in WordsOf(cs[k].text)
      BY <1>8, <1>10, <3>1, <3>3
    <3> QED
      BY <3>4 DEF Said, Of
  <2>3. Said(Of(ToSet(cs), h)) = Said(Of(ToSet(ps), h))
    BY <2>1, <2>2
  <2> QED
    BY <1>2, <2>3 DEF PiecesOn
<1>12. ASSUME NEW h \in Hashes, Of(ToSet(cs), h) # {}, TitleUnder(page, h) # <<>>
       PROVE  TitleUnder(page, h) \in Seq(Words) /\ Begins(cs, h, TitleUnder(page, h))
  <2>1. PICK k \in 1 .. Len(cs) : cs[k].parent = h
    BY <1>10, <1>12 DEF Of
  <2>2. ps[o[k]] \in Of(ToSet(ps), h)
    BY <1>8, <1>10, <2>1 DEF Of
  <2>3. TitleUnder(page, h) \in Seq(Words) /\ Heads(ps, h, TitleUnder(page, h))
    BY <1>2, <2>2 DEF PiecesOn
  <2>4. PICK f \in Seq(Words) : f = TitleUnder(page, h)
    BY <2>3
  <2>5. NonBlank(<<f>>) = <<f>>
    BY <1>12, <2>4, OneIsKept
  <2>6. PICK q \in 1 .. Len(ps) :
          /\ ps[q].parent = h /\ ps[q].text = <<f>>
          /\ \A r \in 1 .. q - 1 : ps[r].parent # h
    BY <2>3, <2>4, <2>5 DEF Heads
  <2>7. ps[q].text # <<>>
    BY <2>6
  <2>8. PICK n \in 1 .. Len(cs) : o[n] = q
    BY <1>9, <2>7
  <2>9. ASSUME NEW r \in 1 .. n - 1 PROVE cs[r].parent # h
    <3>1. r \in 1 .. Len(cs) /\ r < n
      BY <1>7, <2>8
    <3>2. o[r] < q
      BY <1>6, <1>7, <2>8, <3>1 DEF Walks
    <3>3. o[r] \in 1 .. q - 1
      BY <1>3, <1>8, <2>6, <3>1, <3>2
    <3> QED
      BY <1>8, <2>6, <3>1, <3>3
  <2>10. Begins(cs, h, f)
    BY <1>8, <2>6, <2>8, <2>9 DEF Begins
  <2> QED
    BY <2>3, <2>4, <2>10
<1>13. \A k \in 1 .. Len(cs) : cs[k].text # <<>>
  BY <1>8 DEF places
<1>14. ChunksOn(cs, page)
  BY <1>7, <1>11, <1>12, <1>13 DEF ChunksOn
<1> QED
  BY <1>1, <1>14

\* What is put together from the chunks of a page says what the page has under
\* the hash, and starts with the title there; it is not empty when a chunk has
\* the hash.
IsModuleText(t, cs, page, h) ==
    /\ Of(ToSet(cs), h) # {} => t # <<>>
    /\ t \in Seq(Seq(Spoken))
    /\ Says(WordsOf(t), PrintedUnder(page, h))
    /\ t # <<>> /\ TitleUnder(page, h) # <<>> => t[1] = TitleUnder(page, h)

LEMMA ModuleTextWords ==
    ASSUME NEW cs, NEW page, ChunksOn(cs, page), NEW h \in Hashes
    PROVE  IsModuleText(ModuleText(cs, h), cs, page, h)
<1> DEFINE places == {k \in DOMAIN cs : cs[k].parent = h}
           its == Keeping(cs, places)
           ss == [k \in DOMAIN its |-> its[k].text]
           t == FlattenSeq(ss)
           title == TitleUnder(page, h)
<1>1. ModuleText(cs, h) = t
  BY DEF ModuleText
<1>2. cs \in Seq(ChunkType) /\ Len(cs) \in Nat /\ DOMAIN cs = 1 .. Len(cs)
  BY DEF ChunksOn
<1>3. /\ places \subseteq 1 .. Len(cs) /\ \A k \in places : cs[k].parent = h
      /\ \A k \in 1 .. Len(cs) : cs[k].parent = h => k \in places
  BY <1>2
<1> HIDE DEF places
<1>4. Keeps(its, ChunkType, cs, places)
  BY <1>2, <1>3, KeptElements
<1>5. its \in Seq(ChunkType) /\ Len(its) \in Nat /\ DOMAIN its = 1 .. Len(its)
  <2> HIDE DEF its
  <2> QED
    BY <1>4 DEF Keeps
<1>6. \A k \in places : (\A j \in places : k <= j) => its # <<>> /\ its[1] = cs[k]
  BY <1>2, <1>3, KeptBegins
<1> HIDE DEF its
<1>7. /\ ss \in Seq(Seq(Seq(Spoken))) /\ Len(ss) = Len(its)
      /\ \A k \in 1 .. Len(its) : ss[k] = its[k].text
  <2>1. \A k \in 1 .. Len(its) : its[k] \in ChunkType
    BY <1>5
  <2>2. \A c \in ChunkType : c.text \in Seq(Seq(Spoken))
    BY DEF ChunkType
  <2> QED
    BY <1>5, <2>1, <2>2
<1> HIDE DEF ss
<1>8. SaysAll(t, Spoken, ss) /\ Joins(t, Seq(Spoken), ss, Len(ss))
  BY <1>7, FlattenWords, FlattenJoins
<1>9. FlattenSeq(<<>>) = <<>>
  BY DEF FlattenSeq
<1>10. Len(its) = 0 => t = <<>>
  <2>1. Len(its) = 0 => ss = <<>>
    BY <1>7
  <2> QED
    BY <1>9, <2>1
<1> HIDE DEF t
<1>11. \A x : x \in WordsOf(t) <=> x \in Said(Of(ToSet(cs), h))
  <2>1. \A c : c \in ToSet(its) <=> \E k \in 1 .. Len(its) : its[k] = c
    BY <1>5, ElementsOf
  <2>2. \A c : c \in ToSet(its) <=> \E k \in places : cs[k] = c
    BY <1>4 DEF Keeps
  <2>3. \A c : c \in ToSet(cs) <=> \E k \in 1 .. Len(cs) : cs[k] = c
    BY <1>2, ElementsOf
  <2>4. \A c : c \in ToSet(its) <=> c \in Of(ToSet(cs), h)
    BY <1>3, <2>2, <2>3 DEF Of
  <2>5. \A x : x \in WordsOf(t) <=> \E k \in 1 .. Len(its) : x \in WordsOf(its[k].text)
    BY <1>7, <1>8 DEF SaysAll
  <2>6. \A x : x \in WordsOf(t) <=> \E c \in ToSet(its) : x \in WordsOf(c.text)
    BY <2>1, <2>5
  <2>7. WordsOf(t) \subseteq Spoken
    BY <1>8, WordsWithin DEF SaysAll
  <2> QED
    BY <2>4, <2>6, <2>7 DEF Said
<1>12. t \in Seq(Seq(Spoken)) /\ Says(WordsOf(t), PrintedUnder(page, h))
  <2>1. WordsOf(t) = Said(Of(ToSet(cs), h))
    BY <1>11
  <2> QED
    BY <1>8, <2>1 DEF SaysAll, ChunksOn
<1>13. ASSUME t # <<>>, title # <<>> PROVE t[1] = title
  <2>1. Len(its) # 0
    BY <1>10, <1>13
  <2>2. 1 \in 1 .. Len(its)
    BY <1>5, <2>1
  <2>3. its[1] \in ToSet(its)
    BY <1>5, <2>2, ElementsOf
  <2>4. PICK k \in places : cs[k] = its[1]
    BY <1>4, <2>3 DEF Keeps
  <2>5. cs[k] \in ToSet(cs) /\ cs[k].parent = h
    BY <1>2, <1>3, <2>4, ElementsOf
  <2>6. Of(ToSet(cs), h) # {}
    BY <2>5 DEF Of
  <2>7. Begins(cs, h, title)
    BY <1>13, <2>6 DEF ChunksOn
  <2>8. PICK n \in 1 .. Len(cs) :
          /\ cs[n].parent = h /\ cs[n].text = <<title>>
          /\ \A r \in 1 .. n - 1 : cs[r].parent # h
    BY <2>7 DEF Begins
  <2>9. n \in places /\ \A j \in places : n <= j
    <3>1. ASSUME NEW j \in places PROVE n <= j
      <4>1. j \in 1 .. Len(cs) /\ j \notin 1 .. n - 1
        BY <1>3, <2>8
      <4> QED
        BY <1>2, <4>1
    <3> QED
      BY <1>3, <2>8, <3>1
  <2>10. its[1] = cs[n]
    BY <1>6, <2>9
  <2>11. ss[1] = <<title>> /\ ss[1] # <<>> /\ ss[1][1] = title
    <3>1. ss[1] = <<title>>
      BY <1>7, <2>2, <2>8, <2>10, Zenon
    <3>2. <<title>> # <<>> /\ <<title>>[1] = title
      OBVIOUS
    <3> QED
      BY <3>1, <3>2, Zenon
  <2>12. HasHead(t, ss, 1)
    BY <1>7, <1>8, <2>2, <2>11 DEF Joins
  <2>13. PICK q \in 1 .. Len(t) :
           /\ t[q] = ss[1][1]
           /\ \A r \in 1 .. q - 1 : \E m \in 1 .. 1 - 1 : t[r] \in ToSet(ss[m])
    BY <2>12 DEF HasHead
  <2>14. q = 1
    <3>1. \A m : m \notin 1 .. 1 - 1
      OBVIOUS
    <3>2. \A r : r \notin 1 .. q - 1
      BY <2>13, <3>1
    <3>3. q \in Nat /\ q >= 1 /\ 1 \notin 1 .. q - 1
      BY <2>13, <3>2
    <3> QED
      BY <3>3
  <2> QED
    BY <2>11, <2>13, <2>14
<1>14. ASSUME NEW c \in Of(ToSet(cs), h) PROVE t # <<>>
  <2>1. PICK k \in 1 .. Len(cs) : cs[k] = c
    BY <1>2, <1>14, ElementsOf DEF Of
  <2>2. k \in places
    BY <1>3, <1>14, <2>1 DEF Of
  <2>3. c \in ToSet(its)
    BY <1>4, <2>1, <2>2 DEF Keeps
  <2>4. PICK n \in 1 .. Len(its) : its[n] = c
    BY <1>5, <2>3, ElementsOf
  <2>5. ss[n] \in Seq(Seq(Spoken)) /\ ss[n] # <<>>
    <3>1. ss[n] = its[n].text /\ ss[n] \in Seq(Seq(Spoken))
      BY <1>7, <2>4
    <3>2. its[n].text # <<>>
      BY <2>1, <2>4, Zenon DEF ChunksOn
    <3> QED
      BY <3>1, <3>2, Zenon
  <2>6. ToSet(ss[n]) # {}
    <3>1. \A s \in Seq(Seq(Spoken)) : s # <<>> => ToSet(s) # {}
      BY ElementsOf
    <3> QED
      BY <2>5, <3>1, Zenon
  <2>7. ToSet(ss[n]) \subseteq ToSet(t)
    BY <1>7, <1>8, <2>4 DEF Joins
  <2> QED
    BY <2>6, <2>7, NoWords
<1>15. IsModuleText(t, cs, page, h)
  BY <1>12, <1>13, <1>14 DEF IsModuleText
<1> QED
  BY <1>1, <1>15

-----------------------------------------------------------------------------
(* The rows of a document.                                                 *)

\* An image of a finite set is finite.
LEMMA ImageIsFinite ==
    ASSUME NEW S, IsFiniteSet(S), NEW f
    PROVE  IsFiniteSet({f[x] : x \in S})
<1> DEFINE T == {f[x] : x \in S}
           g == [x \in S |-> f[x]]
<1>1. g \in Surjection(S, T)
  BY DEF Surjection
<1> QED
  BY <1>1, FS_Surjection

\* Numbers that go up and leave nothing out count.
GoesUp(g, C, N) ==
    /\ g \in [1 .. C -> 1 .. N]
    /\ \A i, j \in 1 .. C : i < j => g[i] < g[j]
    /\ \A n \in 1 .. N : \E m \in 1 .. C : g[m] = n

LEMMA CountingUp ==
    ASSUME NEW C \in Nat, NEW N \in Nat, NEW g, GoesUp(g, C, N)
    PROVE  C = N /\ \A k \in 1 .. C : g[k] = k
<1> USE DEF GoesUp
<1> DEFINE Wrong == {k \in 1 .. C : g[k] # k}
<1>1. ASSUME Wrong # {} PROVE FALSE
  <2>1. Wrong \subseteq Nat
    OBVIOUS
  <2>2. Least(Wrong) \in Wrong /\ \A j \in Wrong : Least(Wrong) <= j
    <3> HIDE DEF Wrong
    <3> QED
      BY <1>1, <2>1, LeastIsIn
  <2>3. PICK k \in 1 .. C : g[k] # k /\ \A j \in 1 .. C : g[j] # j => k <= j
    BY <2>2
  <2>4. \A j \in 1 .. C : j < k => g[j] = j
    BY <2>3
  <2>5. g[k] > k
    <3>1. CASE k = 1
      BY <2>3, <3>1
    <3>2. CASE k # 1
      <4>1. k - 1 \in 1 .. C /\ k - 1 < k
        BY <3>2
      <4>2. g[k - 1] = k - 1 /\ g[k - 1] < g[k]
        BY <2>4, <4>1
      <4> QED
        BY <2>3, <4>2
    <3> QED
      BY <3>1, <3>2
  <2>6. k \in 1 .. N
    BY <2>5
  <2>7. PICK m \in 1 .. C : g[m] = k
    BY <2>6
  <2>8. CASE m < k
    BY <2>4, <2>7, <2>8
  <2>9. CASE m = k
    BY <2>3, <2>7, <2>9
  <2>10. CASE m > k
    <3>1. g[k] < g[m]
      BY <2>10
    <3> QED
      BY <2>5, <2>7, <3>1
  <2> QED
    BY <2>7, <2>8, <2>9, <2>10
<1>2. \A k \in 1 .. C : g[k] = k
  BY <1>1
<1>3. C <= N
  <2>1. CASE C = 0
    BY <2>1
  <2>2. CASE C # 0
    <3>1. C \in 1 .. C
      BY <2>2
    <3>2. g[C] = C /\ g[C] \in 1 .. N
      BY <1>2, <3>1
    <3> QED
      BY <3>2
  <2> QED
    BY <2>1, <2>2
<1>4. N <= C
  <2>1. CASE N = 0
    BY <2>1
  <2>2. CASE N # 0
    <3>1. N \in 1 .. N
      BY <2>2
    <3>2. PICK m \in 1 .. C : g[m] = N
      BY <3>1
    <3> QED
      BY <1>2, <3>2
  <2> QED
    BY <2>1, <2>2
<1> QED
  BY <1>2, <1>3, <1>4

\* The parser's view of a content.
LEMMA ParsedIsOnPage ==
    ASSUME NEW v \in Versions
    PROVE  /\ ChunksOn(Parsed[v], Manual[v])
           /\ Parsed[v] \in Seq(ChunkType) /\ Len(Parsed[v]) = ChunkCount[v]
<1>1. Parsed[v] = ParsePublication(Manual[v]) /\ Manual[v] \in Page
  BY ManualAssumption DEF Parsed
<1>2. ChunksOn(Parsed[v], Manual[v])
  BY <1>1, ChunkWords
<1> QED
  BY <1>1, <1>2, ManualAssumption DEF ChunksOn

\* The rows of a document in their order are the chunks of its content.
LEMMA RowsAreTheChunks ==
    ASSUME NEW p \in Pubs, NEW u \in Versions, chunks[p] = ChunksOf(u)
    PROVE  RowsOf(p) = Parsed[u]
<1> DEFINE N == ChunkCount[u]
           T == chunks[p]
           R == {r \in T \X T : r[1].ord <= r[2].ord}
           L == Listed(T, R)
           C == Cardinality(T)
           row(o) == [ord |-> o, ver |-> u]
<1>1. N \in Nat /\ Parsed[u] \in Seq(ChunkType) /\ Len(Parsed[u]) = N
  BY ChunkCountAssumption, ParsedIsOnPage
<1>2. T = {row(o) : o \in 1 .. N}
  BY DEF ChunksOf, ChunksUpTo
<1>3. \A o : row(o).ord = o /\ row(o).ver = u
  OBVIOUS
<1> HIDE DEF N, T, row
<1>4. IsFiniteSet(T)
  <2>1. IsFiniteSet(1 .. N)
    BY <1>1, FS_Interval
  <2> DEFINE f == [o \in 1 .. N |-> row(o)]
  <2>2. IsFiniteSet({f[o] : o \in 1 .. N})
    <3> HIDE DEF f
    <3> QED
      BY <2>1, ImageIsFinite
  <2> QED
    BY <1>2, <2>2
<1>5. \A x \in T : x.ord \in 1 .. N /\ x = row(x.ord)
  BY <1>2, <1>3
<1>6. \A x, y \in T : <<x, y>> \in R <=> x.ord <= y.ord
  OBVIOUS
<1>7. TotalOrder(T, R)
  <2> HIDE DEF R
  <2>0. \A x \in T : x.ord \in Nat
    BY <1>1, <1>5
  <2>1. \A x, y \in T : <<x, y>> \in R \/ <<y, x>> \in R
    <3> SUFFICES ASSUME NEW x \in T, NEW y \in T, <<x, y>> \notin R PROVE <<y, x>> \in R
      OBVIOUS
    <3>1. ~(x.ord <= y.ord) /\ x.ord \in Nat /\ y.ord \in Nat
      BY <1>6, <2>0
    <3>2. y.ord <= x.ord
      BY <3>1
    <3> QED
      BY <1>6, <3>2
  <2>2. \A x, y \in T : <<x, y>> \in R /\ <<y, x>> \in R => x = y
    <3> SUFFICES ASSUME NEW x \in T, NEW y \in T, <<x, y>> \in R, <<y, x>> \in R
                 PROVE  x = y
      OBVIOUS
    <3>1. x.ord = y.ord
      BY <1>1, <1>5, <1>6
    <3> QED
      BY <1>5, <3>1
  <2>3. \A x, y, z \in T : <<x, y>> \in R /\ <<y, z>> \in R => <<x, z>> \in R
    BY <1>1, <1>5, <1>6
  <2> QED
    BY <2>1, <2>2, <2>3 DEF TotalOrder
<1> HIDE DEF R
<1>8. /\ C \in Nat /\ L \in [1 .. C -> T]
      /\ \A x \in T : \E k \in 1 .. C : L[k] = x
      /\ \A i, j \in 1 .. C : i < j => L[i] # L[j] /\ <<L[i], L[j]>> \in R
  BY <1>4, <1>7, ListedIsInOrder
<1> HIDE DEF C, L
<1> DEFINE g == [k \in 1 .. C |-> L[k].ord]
<1>9. C = N /\ \A k \in 1 .. C : g[k] = k
  <2>1. g \in [1 .. C -> 1 .. N]
    BY <1>5, <1>8
  <2>2. ASSUME NEW i \in 1 .. C, NEW j \in 1 .. C, i < j PROVE g[i] < g[j]
    <3>1. L[i] \in T /\ L[j] \in T /\ L[i] # L[j] /\ L[i].ord <= L[j].ord
      BY <1>6, <1>8, <2>2
    <3>2. L[i].ord # L[j].ord
      BY <1>5, <3>1
    <3> QED
      BY <1>1, <1>5, <3>1, <3>2
  <2>3. ASSUME NEW n \in 1 .. N PROVE \E m \in 1 .. C : g[m] = n
    <3>1. row(n) \in T
      BY <1>2
    <3>2. PICK m \in 1 .. C : L[m] = row(n)
      BY <1>8, <3>1
    <3> QED
      BY <1>3, <3>2
  <2> HIDE DEF g
  <2>4. GoesUp(g, C, N)
    BY <2>1, <2>2, <2>3 DEF GoesUp
  <2> QED
    BY <1>1, <1>8, <2>4, CountingUp
<1>10. \A k \in 1 .. N : L[k] = row(k)
  <2>1. \A k \in 1 .. N : L[k] \in T /\ L[k].ord = k
    BY <1>8, <1>9
  <2> QED
    BY <1>5, <2>1
<1>11. \A k \in 1 .. N : Content(L[k]) = Parsed[u][k]
  BY <1>3, <1>10 DEF Content
<1>12. DOMAIN L = 1 .. N
  BY <1>8, <1>9
<1>13. Parsed[u] = [k \in 1 .. N |-> Parsed[u][k]]
  <2>1. PICK s : s = Parsed[u]
    OBVIOUS
  <2>2. s = [k \in 1 .. N |-> s[k]]
    BY <1>1, <2>1
  <2> QED
    BY <2>1, <2>2
<1>14. [k \in DOMAIN L |-> Content(L[k])] = Parsed[u]
  BY <1>11, <1>12, <1>13
<1>15. RowsOf(p) = [k \in DOMAIN L |-> Content(L[k])]
  BY DEF RowsOf, L, R, T
<1> QED
  BY <1>14, <1>15

-----------------------------------------------------------------------------
(* The commands, one after the other.                                      *)

\* What is indexed came from the site, and what an ingest works on is no older.
TextInv ==
    /\ \A p \in Pubs : IndexedVersion(p) <= live[p]
    /\ \A i \in Ingesters : ing[i].pc \notin {"idle", "fetch"} =>
         IndexedVersion(ing[i].pub) <= ing[i].ver

IndexGrows ==
    \A p \in Pubs : IndexedVersion(p)' \in Nat /\ IndexedVersion(p) <= IndexedVersion(p)'

\* A document has one content, that of its rows.
LEMMA IndexedIsContent ==
    ASSUME IInv, NEW p \in Pubs
    PROVE  /\ IndexedVersion(p) \in Nat
           /\ chunks[p] # {} => /\ IndexedVersion(p) \in Versions
                                /\ chunks[p] = ChunksOf(IndexedVersion(p))
           /\ chunks[p] = {} => IndexedVersion(p) = 0
           /\ p \in docs => chunks[p] # {}
<1>1. CASE p \in docs
  <2>1. PICK v \in Versions : ChunkCount[v] > 0 /\ chunks[p] = ChunksOf(v)
    BY <1>1 DEF IInv, WholeDocument
  <2>2. chunks[p] # {} /\ \A u \in Versions : chunks[p] = ChunksOf(u) <=> u = v
    BY <2>1, ChunksNameContent
  <2>3. IndexedVersion(p) = v
    <3>1. (CHOOSE u \in Versions : chunks[p] = ChunksOf(u)) = v
      BY <2>2
    <3> QED
      BY <2>1, <2>2, <3>1 DEF IndexedVersion
  <2>4. v \in Nat
    BY MaxVersionAssumption DEF Versions
  <2> QED
    BY <2>1, <2>2, <2>3, <2>4
<1>2. CASE p \notin docs
  <2>1. chunks[p] = {}
    BY <1>2 DEF IInv, WholeDocument
  <2> QED
    BY <1>2, <2>1 DEF IndexedVersion
<1> QED
  BY <1>1, <1>2

LEMMA InitTextInv == Init => TextInv
<1> SUFFICES ASSUME Init PROVE TextInv
  OBVIOUS
<1>1. \A p \in Pubs : IndexedVersion(p) = 0 /\ live[p] = 1
  BY DEF Init, IndexedVersion
<1>2. \A i \in Ingesters : ing[i].pc = "idle"
  BY DEF Init, AtRest
<1> QED
  BY <1>1, <1>2 DEF TextInv

\* Only a commit changes what is indexed.
LEMMA StandingText ==
    ASSUME IInv, UNCHANGED chunks
    PROVE  IndexGrows /\ \A p : IndexedVersion(p)' = IndexedVersion(p)
<1>1. \A p : IndexedVersion(p)' = IndexedVersion(p)
  BY DEF IndexedVersion
<1>2. \A p \in Pubs : IndexedVersion(p) \in Nat
  BY IndexedIsContent
<1> QED
  BY <1>1, <1>2 DEF IndexGrows

LEMMA NextTextInv ==
    ASSUME IInv, IndexInv, OneAtATime, TextInv, [Next]_vars
    PROVE  TextInv' /\ IndexGrows
<1>0. \A p \in Pubs : IndexedVersion(p) \in Nat /\ live[p] \in Nat
  BY IndexedIsContent, MaxVersionAssumption DEF IInv, TypeOK, Versions
<1>1. ASSUME NEW c \in Crawlers,
             StartCrawl(c) \/ CrawlStep(c) \/ AbortCrawl(c) \/ RollBackCrawl(c)
      PROVE  TextInv' /\ IndexGrows
  <2>1. UNCHANGED <<live, chunks, ing>>
    BY <1>1, CrawlWorks
  <2>2. IndexGrows /\ \A p : IndexedVersion(p)' = IndexedVersion(p)
    BY <2>1, StandingText
  <2> QED
    BY <2>1, <2>2 DEF TextInv
<1>2. ASSUME NEW i \in Ingesters, ~CommitIngest(i),
             StartIngest(i) \/ IngestStep(i) \/ AbortIngest(i) \/ RollBackIngest(i)
      PROVE  TextInv' /\ IndexGrows
  <2>1. UNCHANGED <<live, chunks>> /\ \A j \in Ingesters \ {i} : ing'[j] = ing[j]
    BY <1>2, IngestWorks
  <2>2. IndexGrows /\ \A p : IndexedVersion(p)' = IndexedVersion(p)
    BY <2>1, StandingText
  <2>3. IngestGoes(i)
    BY <1>2, IngestGoesOn DEF IInv
  <2>4. ing'[i].pc \notin {"idle", "fetch"} => IndexedVersion(ing'[i].pub) <= ing'[i].ver
    BY <2>3 DEF IngestGoes, TextInv
  <2> QED
    BY <2>1, <2>2, <2>4 DEF TextInv
<1>3. ASSUME NEW i \in Ingesters, CommitIngest(i)
      PROVE  TextInv' /\ IndexGrows
  <2>0. PICK p, v : p = ing[i].pub /\ v = ing[i].ver
    OBVIOUS
  <2>1. /\ IndexedVersion(p)' = v
        /\ \A q \in Pubs \ {p} : IndexedVersion(q)' = IndexedVersion(q)
        /\ p \in Pubs /\ v \in Versions
    BY <1>3, <2>0, IndexedIsCommitted
  <2>2. ing[i].pc = "commit" /\ UNCHANGED live
    BY <1>3 DEF CommitIngest
  <2>3. v <= live[p] /\ IndexedVersion(p) <= v
    BY <2>0, <2>2 DEF IndexInv, IngestKnows, TextInv
  <2>4. ing'[i].pc \in {"idle", "fetch"}
    BY <1>3 DEF CommitIngest, NextTarget, AtRest
  <2>5. \A j \in Ingesters \ {i} : ing'[j].pc = "idle"
    BY <1>3, <2>2, AloneFacts, OtherIngestsStand DEF IngestStep
  <2>6. IndexGrows
    <3>1. v \in Nat
      BY <2>1, MaxVersionAssumption DEF Versions
    <3> QED
      BY <1>0, <2>1, <2>3, <3>1 DEF IndexGrows
  <2> QED
    BY <2>1, <2>2, <2>3, <2>4, <2>5, <2>6 DEF TextInv
<1>4. ASSUME NEW p \in Pubs, Publish(p) PROVE TextInv' /\ IndexGrows
  <2>1. UNCHANGED <<chunks, ing>> /\ live' = [live EXCEPT ![p] = live[p] + 1]
    BY <1>4 DEF Publish
  <2>2. IndexGrows /\ \A q : IndexedVersion(q)' = IndexedVersion(q)
    BY <2>1, StandingText
  <2>3. \A q \in Pubs : live[q] <= live'[q] /\ live'[q] \in Nat
    BY <1>0, <2>1 DEF IInv, TypeOK
  <2> QED
    BY <1>0, <2>1, <2>2, <2>3 DEF TextInv
<1>5. CASE UNCHANGED vars
  <2>1. UNCHANGED <<live, chunks, ing>>
    BY <1>5 DEF vars
  <2>2. IndexGrows /\ \A p : IndexedVersion(p)' = IndexedVersion(p)
    BY <2>1, StandingText
  <2> QED
    BY <2>1, <2>2 DEF TextInv
<1> QED
  BY <1>1, <1>2, <1>3, <1>4, <1>5 DEF Next, BreakDeadlock

\* What holds of the database while it is searched.
BaseInv == IInv /\ IndexInv /\ OneAtATime /\ TextInv

LEMMA BaseHolds == Spec => []BaseInv
<1>1. Spec => []OneAtATime
  BY CommandsTakeTurns, InTurn
<1>2. IInv /\ IndexInv /\ OneAtATime /\ TextInv /\ [Next]_vars => TextInv'
  BY NextTextInv
<1>3. IInv /\ IInv' /\ IndexInv /\ [Next]_vars => IndexInv'
  BY NextIndexInv
<1>4. Spec => []IInv
  BY Invariance
<1> QED
  BY <1>1, <1>2, <1>3, <1>4, InitIndexInv, InitTextInv, PTL DEF Spec, BaseInv

-----------------------------------------------------------------------------
(* The request.                                                            *)

LEMMA SearchIsSpec == SearchSpec => Spec
<1>1. SearchInit => Init
  BY DEF SearchInit
<1>2. [SearchNext]_allVars => [Next]_vars
  BY DEF SearchNext, Commands, Next, allVars, vars
<1> QED
  BY <1>1, <1>2, PTL DEF SearchSpec, Spec

\* A row the request knows: its document had it, and is no older by now.
Known(row) ==
    /\ row.pub \in Pubs /\ row.ver \in Versions /\ row.ord \in 1 .. ChunkCount[row.ver]
    /\ row.ver <= IndexedVersion(row.pub)

\* What Claude is given for a hit is a whole module of one content, under its
\* title; or the hit by itself.
Whole(s) ==
    IF s.module
    THEN \E v \in Contents(s) :
           /\ IsModuleOf(s, v)
           /\ TitleUnder(Manual[v], Parent(s)) # <<>> =>
                s.label = TitleUnder(Manual[v], Parent(s))
    ELSE \/ Parent(s) = NoHash
         \/ \E v \in Contents(s) : v > s.hit.ver /\ PrintedUnder(Manual[v], Parent(s)) = {}

AskInv ==
    /\ ask = [pc |-> ask.pc, found |-> ask.found, missed |-> ask.missed,
              hits |-> ask.hits, sources |-> ask.sources]
    /\ \A row \in ask.found \cup ask.hits : Known(row)
    /\ IsFiniteSet(ask.found)
    /\ ask.pc = "load" => ask.found # {}
    /\ \A s \in ask.sources : Known(s.hit) /\ Whole(s)

LEMMA KnownStays ==
    ASSUME BaseInv, IndexGrows, NEW row, Known(row)
    PROVE  Known(row)'
<1>1. /\ row.ver \in Nat /\ IndexedVersion(row.pub) \in Nat
      /\ IndexedVersion(row.pub)' \in Nat
      /\ IndexedVersion(row.pub) <= IndexedVersion(row.pub)'
  BY IndexedIsContent, MaxVersionAssumption DEF Known, BaseInv, Versions, IndexGrows
<1> QED
  BY <1>1 DEF Known

LEMMA WholeStays ==
    ASSUME BaseInv, IndexGrows, NEW s, Known(s.hit), Whole(s)
    PROVE  Whole(s)'
<1>1. Contents(s) \subseteq Contents(s)'
  <2>1. /\ IndexedVersion(s.hit.pub) \in Nat /\ IndexedVersion(s.hit.pub)' \in Nat
        /\ IndexedVersion(s.hit.pub) <= IndexedVersion(s.hit.pub)'
    BY IndexedIsContent DEF Known, BaseInv, IndexGrows
  <2>2. s.hit.ver \in Nat
    BY MaxVersionAssumption DEF Known, Versions
  <2> QED
    BY <2>1, <2>2 DEF Contents
<1> QED
  BY <1>1 DEF Whole, IsModuleOf, Parent, Content, Parsed

\* What the route puts together for a hit.
LEMMA SourceIsWhole ==
    ASSUME BaseInv, NEW row, Known(row)
    PROVE  Source(row).hit = row /\ Whole(Source(row))
<1> DEFINE chunk == Content(row)
           u == IndexedVersion(row.pub)
           h == chunk.parent
           module == IF h = NoHash THEN <<>> ELSE ModuleText(RowsOf(row.pub), h)
           text == IF module = <<>> THEN chunk.text ELSE module
           s == [hit |-> row, module |-> module # <<>>, text |-> text, label |-> text[1]]
<1>1. Source(row) = s
  BY DEF Source
<1>2. /\ s.hit = row /\ s.module = (module # <<>>) /\ s.text = text /\ s.label = text[1]
      /\ Parent(s) = h
  BY DEF Parent
<1>3. /\ row.pub \in Pubs /\ row.ver \in Versions /\ row.ord \in 1 .. ChunkCount[row.ver]
      /\ row.ver <= u /\ row.ver \in Nat /\ row.ver >= 1
  BY MaxVersionAssumption DEF Known, Versions
<1>4. u \in Versions /\ u \in Nat /\ chunks[row.pub] = ChunksOf(u)
  BY <1>3, IndexedIsContent DEF BaseInv
<1> HIDE DEF u
<1>5. RowsOf(row.pub) = Parsed[u]
  BY <1>3, <1>4, RowsAreTheChunks
<1>6. row.ver \in Contents(s) /\ u \in Contents(s)
  BY <1>2, <1>3, <1>4 DEF Contents, u
<1> HIDE DEF s
<1>7. chunk \in ChunkType /\ chunk \in ToSet(Parsed[row.ver])
  <2>1. Parsed[row.ver] \in Seq(ChunkType) /\ Len(Parsed[row.ver]) = ChunkCount[row.ver]
    BY <1>3, ParsedIsOnPage
  <2> QED
    BY <1>3, <2>1, ElementsOf DEF Content
<1> HIDE DEF chunk
<1>8. CASE h = NoHash
  <2>1. ~s.module
    BY <1>2, <1>8
  <2> QED
    BY <1>1, <1>2, <1>8, <2>1 DEF Whole
<1>9. CASE h # NoHash
  <2>1. h \in Hashes
    BY <1>7, <1>9 DEF ChunkType
  <2> HIDE DEF h
  <2>2. module = ModuleText(Parsed[u], h)
    BY <1>5, <1>9
  <2>3. IsModuleText(module, Parsed[u], Manual[u], h)
    BY <1>4, <2>1, <2>2, ParsedIsOnPage, ModuleTextWords
  <2> HIDE DEF module
  <2>4. CASE module # <<>>
    <3>1. s.module /\ s.text = module /\ s.label = module[1]
      BY <1>2, <2>4
    <3>2. WordsOf(module) \ {"Tools:"} = PrintedUnder(Manual[u], h) \ {"Tools:"}
      BY <2>3 DEF IsModuleText, Says
    <3>3. TitleUnder(Manual[u], h) # <<>> => s.label = TitleUnder(Manual[u], h)
      BY <2>3, <2>4, <3>1 DEF IsModuleText
    <3>4. IsModuleOf(s, u)
      BY <1>2, <3>1, <3>2 DEF IsModuleOf
    <3> QED
      BY <1>1, <1>2, <1>6, <3>1, <3>3, <3>4 DEF Whole
  <2>5. CASE module = <<>>
    <3>1. ~s.module
      BY <1>2, <2>5
    <3>2. PrintedUnder(Manual[u], h) = {}
      BY <2>3, <2>5, NoWords DEF IsModuleText, Says
    <3>3. u # row.ver
      <4>1. Of(ToSet(Parsed[row.ver]), h) # {}
        BY <1>7 DEF Of, h
      <4> QED
        BY <2>3, <2>5, <4>1 DEF IsModuleText
    <3>4. u > s.hit.ver
      BY <1>2, <1>3, <1>4, <3>3
    <3> QED
      BY <1>1, <1>2, <1>6, <3>1, <3>2, <3>4 DEF Whole
  <2> QED
    BY <2>4, <2>5
<1> QED
  BY <1>1, <1>2, <1>8, <1>9

\* The rows a statement sees.
LEMMA VisibleRows ==
    ASSUME BaseInv
    PROVE  /\ \A row \in Visible : Known(row)
           /\ IsFiniteSet(Visible)
           /\ docs # {} => Visible # {}
<1> DEFINE Rows(p) == {[pub |-> p, ord |-> k.ord, ver |-> k.ver, gone |-> FALSE] : k \in chunks[p]}
<1>1. Visible = UNION {Rows(p) : p \in Pubs}
  BY DEF Visible
<1>2. ASSUME NEW p \in Pubs, NEW row \in Rows(p) PROVE Known(row)
  <2> DEFINE u == IndexedVersion(p)
  <2>1. chunks[p] # {}
    OBVIOUS
  <2>2. u \in Versions /\ u \in Nat /\ chunks[p] = ChunksOf(u)
    BY <2>1, IndexedIsContent DEF BaseInv
  <2> HIDE DEF u
  <2>3. PICK o \in 1 .. ChunkCount[u] :
          row = [pub |-> p, ord |-> o, ver |-> u, gone |-> FALSE]
    BY <2>2 DEF ChunksOf, ChunksUpTo
  <2> QED
    BY <2>2, <2>3 DEF Known, u
<1>3. ASSUME NEW p \in Pubs PROVE IsFiniteSet(Rows(p))
  <2>1. IsFiniteSet(chunks[p])
    <3>1. CASE chunks[p] = {}
      BY <3>1, FS_EmptySet
    <3>2. CASE chunks[p] # {}
      <4> DEFINE u == IndexedVersion(p)
                 f == [o \in 1 .. ChunkCount[u] |-> [ord |-> o, ver |-> u]]
      <4>1. u \in Versions /\ chunks[p] = ChunksOf(u)
        BY <3>2, IndexedIsContent DEF BaseInv
      <4> HIDE DEF u
      <4>2. chunks[p] = {f[o] : o \in 1 .. ChunkCount[u]}
        BY <4>1 DEF ChunksOf, ChunksUpTo
      <4>3. IsFiniteSet(1 .. ChunkCount[u])
        BY <4>1, ChunkCountAssumption, FS_Interval
      <4> HIDE DEF f
      <4>4. IsFiniteSet({f[o] : o \in 1 .. ChunkCount[u]})
        BY <4>3, ImageIsFinite
      <4> QED
        BY <4>2, <4>4, Zenon
    <3> QED
      BY <3>1, <3>2
  <2> DEFINE f == [k \in chunks[p] |-> [pub |-> p, ord |-> k.ord, ver |-> k.ver, gone |-> FALSE]]
  <2>2. Rows(p) = {f[k] : k \in chunks[p]}
    OBVIOUS
  <2> HIDE DEF f, Rows
  <2> QED
    BY <2>1, <2>2, ImageIsFinite
<1>4. ASSUME docs # {} PROVE Visible # {}
  <2>1. PICK p \in Pubs : p \in docs
    BY <1>4 DEF BaseInv, IInv, TypeOK
  <2>2. PICK k : k \in chunks[p]
    BY <2>1, IndexedIsContent DEF BaseInv
  <2>3. [pub |-> p, ord |-> k.ord, ver |-> k.ver, gone |-> FALSE] \in Rows(p)
    BY <2>2
  <2> HIDE DEF Rows
  <2> QED
    BY <1>1, <2>3
<1> HIDE DEF Rows
<1>5. IsFiniteSet(Visible)
  <2> DEFINE f == [p \in Pubs |-> Rows(p)]
  <2>1. IsFiniteSet({f[p] : p \in Pubs})
    <3> HIDE DEF f
    <3> QED
      BY PubsAssumption, ImageIsFinite
  <2>2. {Rows(p) : p \in Pubs} = {f[p] : p \in Pubs}
    OBVIOUS
  <2>3. IsFiniteSet({Rows(p) : p \in Pubs})
    BY <2>1, <2>2
  <2>4. PICK F : F = {Rows(p) : p \in Pubs}
    OBVIOUS
  <2>5. IsFiniteSet(F) /\ \A T \in F : IsFiniteSet(T)
    BY <1>3, <2>3, <2>4
  <2>6. IsFiniteSet(UNION F)
    BY <2>5, FS_UNION
  <2> QED
    BY <1>1, <2>4, <2>6
<1> QED
  BY <1>1, <1>2, <1>4, <1>5

\* Of at least one, at least one is chosen.
LEMMA SomeAreChosen ==
    ASSUME NEW S, IsFiniteSet(S), S # {}, NEW n \in Nat \ {0}, NEW T \in SUBSET S,
           Cardinality(T) = Min({n, Cardinality(S)})
    PROVE  T # {}
<1>1. Cardinality(S) \in Nat /\ Cardinality(S) # 0
  BY FS_CardinalityType, FS_EmptySet
<1>2. PICK m \in Nat : m = Cardinality(S) /\ m # 0
  BY <1>1
<1>3. \E x \in {n, m} : \A y \in {n, m} : x <= y
  BY <1>2
<1>4. Min({n, m}) \in {n, m}
  BY <1>3 DEF Min
<1>5. Cardinality(T) # 0
  BY <1>2, <1>4
<1>6. Cardinality({}) = 0
  BY FS_EmptySet
<1> QED
  BY <1>5, <1>6

LEMMA InitAskInv == SearchInit => AskInv
BY FS_EmptySet DEF SearchInit, AskInv, Asked

\* What a request has found, as the commands see it.
LEMMA CommandsKeepAsk ==
    ASSUME BaseInv, IndexGrows, AskInv, Commands
    PROVE  AskInv' /\ ask'.pc = ask.pc
<1>1. \A row : Known(row) => Known(row)'
  BY KnownStays
<1>2. ASSUME NEW s \in ask.sources PROVE Known(s.hit)' /\ Whole(s)'
  BY <1>1, <1>2, WholeStays DEF AskInv
<1>3. CASE UNCHANGED ask
  BY <1>1, <1>2, <1>3 DEF AskInv
<1>4. ASSUME NEW p \in Pubs, Replace(p) PROVE AskInv' /\ ask'.pc = ask.pc
  <2> DEFINE f == [row \in ask.found |-> [row EXCEPT !.gone = row.gone \/ row.pub = p]]
             found == {[row EXCEPT !.gone = row.gone \/ row.pub = p] : row \in ask.found}
  <2>1. ask' = [ask EXCEPT !.found = found]
    BY <1>4 DEF Replace
  <2>2. found = {f[row] : row \in ask.found}
    OBVIOUS
  <2>3. IsFiniteSet(found)
    <3>1. IsFiniteSet({f[row] : row \in ask.found})
      <4> HIDE DEF f
      <4> QED
        BY ImageIsFinite DEF AskInv
    <3> HIDE DEF f, found
    <3> QED
      BY <2>2, <3>1, Zenon
  <2>4. ask.found # {} => found # {}
    OBVIOUS
  <2>5. \A row \in found : Known(row)'
    <3> SUFFICES ASSUME NEW row \in ask.found
                 PROVE  Known([row EXCEPT !.gone = row.gone \/ row.pub = p])'
      OBVIOUS
    <3> DEFINE r == [row EXCEPT !.gone = row.gone \/ row.pub = p]
    <3>1. r.pub = row.pub /\ r.ver = row.ver /\ r.ord = row.ord
      OBVIOUS
    <3>2. Known(row)'
      BY <1>1 DEF AskInv
    <3> HIDE DEF r
    <3>3. Known(r)'
      BY <3>1, <3>2 DEF Known
    <3> QED
      BY <3>3 DEF r
  <2> HIDE DEF found
  <2>6. ask' = [pc |-> ask.pc, found |-> found, missed |-> ask.missed,
                hits |-> ask.hits, sources |-> ask.sources]
    BY <2>1 DEF AskInv
  <2>7. \A row \in ask.hits : Known(row)'
    BY <1>1 DEF AskInv
  <2>8. ask.pc = "load" => ask.found # {}
    BY DEF AskInv
  <2> QED
    BY <1>2, <2>3, <2>4, <2>5, <2>6, <2>7, <2>8 DEF AskInv
<1>5. ASSUME NEW i \in Ingesters, IngestStep(i), ing[i].pc = "commit"
      PROVE  ing[i].pub \in Pubs
  BY <1>5 DEF BaseInv, IInv, IngestInv, IngestWrites
<1> QED
  BY <1>3, <1>4, <1>5 DEF Commands

\* A request that does not look at the rows.
LEMMA StandingRows ==
    ASSUME UNCHANGED vars
    PROVE  /\ \A row : Known(row) => Known(row)'
           /\ \A s : Whole(s) => Whole(s)'
<1>1. \A p : IndexedVersion(p)' = IndexedVersion(p)
  BY DEF vars, IndexedVersion
<1> QED
  BY <1>1 DEF Known, Whole, Contents, IsModuleOf, Parent, Content, Parsed

LEMMA RequestKeepsAsk ==
    ASSUME BaseInv, AskInv, Request, UNCHANGED vars
    PROVE  AskInv'
<1>0. /\ \A row : Known(row) => Known(row)'
      /\ \A s : Whole(s) => Whole(s)'
  BY StandingRows
<1>1. \A pc : ask' = Asked(pc) /\ pc # "load" => AskInv'
  BY FS_EmptySet DEF AskInv, Asked
<1>2. ask = [pc |-> ask.pc, found |-> ask.found, missed |-> ask.missed,
             hits |-> ask.hits, sources |-> ask.sources]
  BY DEF AskInv
<1>3. CASE Ask \/ StatementFails
  BY <1>1, <1>3 DEF Ask, StatementFails
<1>4. CASE KeywordSearch
  <2>1. PICK S \in SUBSET Visible : ask' = [ask EXCEPT !.pc = "vector", !.found = S]
    BY <1>4 DEF KeywordSearch
  <2>2. ask' = [pc |-> "vector", found |-> S, missed |-> ask.missed,
                hits |-> ask.hits, sources |-> ask.sources]
    BY <1>2, <2>1
  <2>3. IsFiniteSet(S) /\ \A row \in S : Known(row)
    BY VisibleRows, FS_Subset
  <2> QED
    BY <1>0, <2>2, <2>3 DEF AskInv
<1>5. CASE VectorSearch
  <2>1. PICK S \in SUBSET Visible :
          ask' = IF ask.found \cup S = {} THEN Asked("nothing")
                 ELSE [ask EXCEPT !.pc = "load", !.found = ask.found \cup S]
    BY <1>5 DEF VectorSearch
  <2>2. CASE ask.found \cup S = {}
    BY <1>1, <2>1, <2>2
  <2>3. CASE ask.found \cup S # {}
    <3>1. ask' = [pc |-> "load", found |-> ask.found \cup S, missed |-> ask.missed,
                  hits |-> ask.hits, sources |-> ask.sources]
      BY <1>2, <2>1, <2>3
    <3>2. IsFiniteSet(ask.found \cup S) /\ \A row \in S : Known(row)
      BY VisibleRows, FS_Subset, FS_Union DEF AskInv
    <3> QED
      BY <1>0, <2>3, <3>1, <3>2 DEF AskInv
  <2> QED
    BY <2>2, <2>3
<1>6. CASE LoadRows
  <2>1. PICK base \in SUBSET ask.found :
          LET hits == {row \in base : ~row.gone} IN
          ask' = IF hits = {} THEN [Asked("nothing") EXCEPT !.missed = TRUE]
                 ELSE [ask EXCEPT !.pc = "modules", !.found = {}, !.hits = hits,
                                  !.missed = \E row \in base : row.gone]
    BY <1>6 DEF LoadRows
  <2> DEFINE hits == {row \in base : ~row.gone}
  <2>2. CASE hits = {}
    <3>1. ask' = [pc |-> "nothing", found |-> {}, missed |-> TRUE, hits |-> {}, sources |-> {}]
      BY <2>1, <2>2 DEF Asked
    <3> QED
      BY <3>1, FS_EmptySet DEF AskInv
  <2>3. CASE hits # {}
    <3>1. PICK missed : missed = \E row \in base : row.gone
      OBVIOUS
    <3>2. ask' = [ask EXCEPT !.pc = "modules", !.found = {}, !.hits = hits, !.missed = missed]
      BY <2>1, <2>3, <3>1, Zenon
    <3> HIDE DEF hits
    <3>3. ask' = [pc |-> "modules", found |-> {}, missed |-> missed,
                  hits |-> hits, sources |-> ask.sources]
      BY <1>2, <3>2
    <3>4. \A row \in hits : Known(row)
      BY DEF hits, AskInv
    <3> QED
      BY <1>0, <3>3, <3>4, FS_EmptySet DEF AskInv
  <2> QED
    BY <2>2, <2>3
<1>7. CASE FetchModule
  <2>1. PICK row \in ask.hits :
          ask' = [ask EXCEPT !.hits = ask.hits \ {row},
                             !.sources = ask.sources \cup {Source(row)},
                             !.pc = IF ask.hits = {row} THEN "answered" ELSE "modules"]
    BY <1>7 DEF FetchModule
  <2>2. PICK pc \in {"answered", "modules"} :
          pc = IF ask.hits = {row} THEN "answered" ELSE "modules"
    OBVIOUS
  <2>3. ask' = [pc |-> pc, found |-> ask.found, missed |-> ask.missed,
                hits |-> ask.hits \ {row}, sources |-> ask.sources \cup {Source(row)}]
    BY <1>2, <2>1, <2>2
  <2>4. Known(row)
    BY DEF AskInv
  <2>5. Known(Source(row).hit) /\ Whole(Source(row))
    BY <2>4, SourceIsWhole
  <2>6. \A s \in ask.sources \cup {Source(row)} : Known(s.hit)' /\ Whole(s)'
    <3>1. PICK s : s = Source(row)
      OBVIOUS
    <3> QED
      BY <1>0, <2>5, <3>1 DEF AskInv
  <2> QED
    BY <1>0, <2>2, <2>3, <2>6 DEF AskInv
<1> QED
  BY <1>3, <1>4, <1>5, <1>6, <1>7 DEF Request

LEMMA NextAskInv == BaseInv /\ AskInv /\ [SearchNext]_allVars => AskInv'
<1> SUFFICES ASSUME BaseInv, AskInv, [SearchNext]_allVars PROVE AskInv'
  OBVIOUS
<1>1. CASE Commands
  <2>1. Next
    BY <1>1 DEF Commands, Next
  <2>2. IndexGrows
    BY <2>1, NextTextInv DEF BaseInv
  <2> QED
    BY <1>1, <2>2, CommandsKeepAsk
<1>2. CASE Request /\ UNCHANGED vars
  BY <1>2, RequestKeepsAsk
<1>3. CASE UNCHANGED allVars
  <2>1. UNCHANGED vars /\ UNCHANGED ask
    BY <1>3 DEF allVars, vars
  <2> QED
    BY <2>1, StandingRows DEF AskInv
<1> QED
  BY <1>1, <1>2, <1>3 DEF SearchNext

LEMMA SearchInvariance == SearchSpec => [](BaseInv /\ AskInv)
<1>1. SearchSpec => []BaseInv
  BY SearchIsSpec, BaseHolds, PTL
<1> QED
  BY <1>1, InitAskInv, NextAskInv, PTL DEF SearchSpec

\* What Claude reads for a hit is the whole module that one content of the page
\* has under it, whatever is committed between the statements of the search; a
\* hit goes alone only if it belongs to no module, or a newer content has
\* nothing left of it.
THEOREM ModulesAreWhole == SearchSpec => []SourcesAreWholeModules
<1>1. AskInv => SourcesAreWholeModules
  BY DEF AskInv, Whole, SourcesAreWholeModules
<1> QED
  BY <1>1, SearchInvariance, PTL

\* The label of a candidate is the title of its module in the content that was
\* read, whenever it has one there.
THEOREM LabelsAreTitles == SearchSpec => []LabelIsTheTitle
<1>1. AskInv => LabelIsTheTitle
  BY DEF AskInv, Whole, LabelIsTheTitle
<1> QED
  BY <1>1, SearchInvariance, PTL

\* A search that comes back with nothing has nothing to search in, or lost all
\* it found to an ingest between two of its statements.
THEOREM NothingIsLostSilently == SearchSpec => NothingOnlyWhenReplaced
<1>1. BaseInv /\ AskInv /\ [SearchNext]_allVars =>
        [/\ ask.pc = "vector" /\ ask'.pc = "nothing" => docs = {}
         /\ ask.pc = "load" /\ ask'.pc = "nothing" =>
              \E row \in ask.found : row.gone]_allVars
  <2> SUFFICES ASSUME BaseInv, AskInv, SearchNext,
                      ask.pc \in {"vector", "load"}, ask'.pc = "nothing"
               PROVE  /\ ask.pc = "vector" => docs = {}
                      /\ ask.pc = "load" => \E row \in ask.found : row.gone
    OBVIOUS
  <2>1. CASE Commands
    <3>1. Next
      BY <2>1 DEF Commands, Next
    <3>2. IndexGrows
      BY <3>1, NextTextInv DEF BaseInv
    <3>3. ask'.pc = ask.pc
      BY <2>1, <3>2, CommandsKeepAsk
    <3> QED
      BY <3>3
  <2>2. CASE VectorSearch
    <3>1. PICK S \in SUBSET Visible :
            /\ Cardinality(S) = Min({PerChannel, Cardinality(Visible)})
            /\ ask' = IF ask.found \cup S = {} THEN Asked("nothing")
                      ELSE [ask EXCEPT !.pc = "load", !.found = ask.found \cup S]
      BY <2>2 DEF VectorSearch
    <3>2. S = {}
      <4>1. CASE ask.found \cup S = {}
        BY <4>1
      <4>2. CASE ask.found \cup S # {}
        <5>1. ask' = [pc |-> "load", found |-> ask.found \cup S, missed |-> ask.missed,
                      hits |-> ask.hits, sources |-> ask.sources]
          BY <3>1, <4>2 DEF AskInv
        <5> QED
          BY <5>1
      <4> QED
        BY <4>1, <4>2
    <3>3. Visible = {}
      BY <3>1, <3>2, VisibleRows, SomeAreChosen, LimitsAssumption
    <3> QED
      BY <2>2, <3>3, VisibleRows DEF VectorSearch
  <2>3. CASE LoadRows
    <3>1. PICK base \in SUBSET ask.found :
            LET hits == {row \in base : ~row.gone} IN
            /\ Cardinality(base) = Min({TopK, Cardinality(ask.found)})
            /\ ask' = IF hits = {} THEN [Asked("nothing") EXCEPT !.missed = TRUE]
                      ELSE [ask EXCEPT !.pc = "modules", !.found = {}, !.hits = hits,
                                       !.missed = \E row \in base : row.gone]
      BY <2>3 DEF LoadRows
    <3>2. base # {}
      <4>1. IsFiniteSet(ask.found) /\ ask.found # {}
        BY <2>3 DEF LoadRows, AskInv
      <4>2. Cardinality(base) = Min({TopK, Cardinality(ask.found)})
        BY <3>1
      <4> QED
        BY <4>1, <4>2, SomeAreChosen, LimitsAssumption
    <3> DEFINE hits == {row \in base : ~row.gone}
    <3>3. hits = {}
      <4>1. ASSUME hits # {} PROVE FALSE
        <5>1. PICK missed : missed = \E row \in base : row.gone
          OBVIOUS
        <5>2. ask' = [ask EXCEPT !.pc = "modules", !.found = {}, !.hits = hits, !.missed = missed]
          BY <3>1, <4>1, <5>1, Zenon
        <5> HIDE DEF hits
        <5>3. ask' = [pc |-> "modules", found |-> {}, missed |-> missed,
                      hits |-> hits, sources |-> ask.sources]
          BY <5>2 DEF AskInv
        <5> QED
          BY <5>3
      <4> QED
        BY <4>1
    <3>4. PICK row : row \in base
      BY <3>2
    <3>5. row.gone
      BY <3>3, <3>4
    <3> QED
      BY <2>3, <3>4, <3>5 DEF LoadRows
  <2>4. CASE Ask \/ KeywordSearch \/ FetchModule
    BY <2>4 DEF Ask, KeywordSearch, FetchModule
  <2>5. CASE StatementFails
    BY <2>5 DEF StatementFails, Asked
  <2> QED
    BY <2>1, <2>2, <2>3, <2>4, <2>5 DEF SearchNext, Request
<1> QED
  BY <1>1, SearchInvariance, PTL DEF SearchSpec, NothingOnlyWhenReplaced

\* The texts that are searched: while commands run one at a time, questions
\* beside them, a publication that says 'ingested' has a text at least as new
\* as what discovery recorded (set_status, _run_ingest_html).
THEOREM SearchedTextIsCurrent == SearchSpec => []IngestedIsCurrent
BY SearchIsSpec, NothingLeftBehind, InTurn, PTL
=============================================================================

--------------------------- MODULE ListingProofs ---------------------------
(***************************************************************************)
(* What the operators of Listing return.                                   *)
(***************************************************************************)
EXTENDS Listing, TLAPS, FiniteSetTheorems, WellFoundedInduction

TotalOrder(T, R) ==
    /\ \A x, y \in T : <<x, y>> \in R \/ <<y, x>> \in R
    /\ \A x, y \in T : <<x, y>> \in R /\ <<y, x>> \in R => x = y
    /\ \A x, y, z \in T : <<x, y>> \in R /\ <<y, z>> \in R => <<x, z>> \in R

\* A set of numbers that is not empty has a least one.
LEMMA LeastIsIn ==
    ASSUME NEW S, S \subseteq Nat, S # {}
    PROVE  Least(S) \in S /\ \A y \in S : Least(S) <= y
<1>1. PICK x \in S : \A y \in S : <<y, x>> \notin OpToRel(<, Nat)
  BY WFMin, NatLessThanWellFounded, Zenon
<1>2. \A y \in S : ~(y < x)
  BY <1>1, Zenon DEF OpToRel
<1>3. \E z \in S : \A y \in S : z <= y
  BY <1>2, SMT
<1> QED BY <1>3, Zenon DEF Least

\* Listed lists every element of a finite set once, in the order given.
LEMMA ListedIsInOrder ==
    ASSUME NEW T, IsFiniteSet(T), NEW R, TotalOrder(T, R)
    PROVE  /\ Cardinality(T) \in Nat
           /\ Listed(T, R) \in [1 .. Cardinality(T) -> T]
           /\ \A x \in T : \E k \in 1 .. Cardinality(T) : Listed(T, R)[k] = x
           /\ \A i, j \in 1 .. Cardinality(T) : i < j =>
                /\ Listed(T, R)[i] # Listed(T, R)[j]
                /\ <<Listed(T, R)[i], Listed(T, R)[j]>> \in R
<1> DEFINE N == Cardinality(T)
           upto(x) == {y \in T : <<y, x>> \in R}
           place == [x \in T |-> Cardinality(upto(x))]
<1>1. N \in Nat
  BY FS_CardinalityType
<1>2. ASSUME NEW x \in T
      PROVE  IsFiniteSet(upto(x)) /\ place[x] \in 1 .. N
  <2>1. /\ IsFiniteSet(upto(x)) /\ Cardinality(upto(x)) <= N
    <3>1. upto(x) \in SUBSET T
      OBVIOUS
    <3> HIDE DEF upto
    <3> QED BY <3>1, FS_Subset
  <2>2. Cardinality(upto(x)) \in Nat
    BY <2>1, FS_CardinalityType
  <2>3. Cardinality(upto(x)) # 0
    <3>1. x \in upto(x)
      BY Zenon DEF TotalOrder
    <3> HIDE DEF upto
    <3> QED BY <2>1, <3>1, FS_EmptySet
  <2>4. place[x] = Cardinality(upto(x))
    OBVIOUS
  <2> HIDE DEF place, upto
  <2> QED BY <1>1, <2>1, <2>2, <2>3, <2>4
<1>3. ASSUME NEW x \in T, NEW y \in T, <<x, y>> \in R, x # y
      PROVE  place[x] < place[y]
  <2>1. upto(x) \subseteq upto(y)
    BY <1>3, Zenon DEF TotalOrder
  <2>2. y \in upto(y) /\ y \notin upto(x)
    BY <1>3, Zenon DEF TotalOrder
  <2>3. place[x] = Cardinality(upto(x)) /\ place[y] = Cardinality(upto(y))
    OBVIOUS
  <2>4. IsFiniteSet(upto(y)) /\ place[x] \in 1 .. N /\ place[y] \in 1 .. N
    BY <1>2
  <2> HIDE DEF place, upto
  <2>5. Cardinality(upto(x)) <= Cardinality(upto(y))
    BY <2>1, <2>4, FS_Subset
  <2>6. Cardinality(upto(x)) # Cardinality(upto(y))
    BY <2>1, <2>2, <2>4, FS_Subset
  <2> QED BY <1>1, <2>3, <2>4, <2>5, <2>6
<1>4. \A x, y \in T : place[x] = place[y] => x = y
  <2> SUFFICES ASSUME NEW x \in T, NEW y \in T, place[x] = place[y], x # y
               PROVE  FALSE
    OBVIOUS
  <2>1. <<x, y>> \in R \/ <<y, x>> \in R
    BY Zenon DEF TotalOrder
  <2>2. place[x] < place[y] \/ place[y] < place[x]
    BY <1>3, <2>1
  <2>3. place[x] \in 1 .. N
    BY <1>2
  <2> HIDE DEF place
  <2> QED BY <1>1, <2>2, <2>3
<1>5. place \in [T -> 1 .. N]
  BY <1>2
<1>6. place \in Surjection(T, 1 .. N)
  <2>1. place \in Injection(T, 1 .. N)
    <3> HIDE DEF place
    <3> QED BY <1>4, <1>5, Zenon DEF Injection, IsInjective
  <2>2. IsFiniteSet(1 .. N) /\ Cardinality(1 .. N) = N
    BY <1>1, FS_Interval, SMT
  <2> HIDE DEF place
  <2> QED BY <2>1, <2>2, FS_Injection
<1>7. ASSUME NEW k \in 1 .. N
      PROVE  Listed(T, R)[k] \in T /\ place[Listed(T, R)[k]] = k
  <2>1. \E x \in T : place[x] = k
    <3> HIDE DEF place
    <3> QED BY <1>6, Zenon DEF Surjection
  <2>2. Listed(T, R)[k] = CHOOSE x \in T : place[x] = k
    BY DEF Listed
  <2> HIDE DEF place
  <2> QED BY <2>1, <2>2
<1>8. Listed(T, R) \in [1 .. N -> T]
  BY <1>7 DEF Listed
<1>9. ASSUME NEW x \in T
      PROVE  \E k \in 1 .. N : Listed(T, R)[k] = x
  <2>1. place[x] \in 1 .. N
    BY <1>2
  <2>2. Listed(T, R)[place[x]] \in T /\ place[Listed(T, R)[place[x]]] = place[x]
    BY <1>7, <2>1
  <2>3. Listed(T, R)[place[x]] = x
    BY <1>4, <2>2
  <2> QED BY <2>1, <2>3
<1>10. ASSUME NEW i \in 1 .. N, NEW j \in 1 .. N, i < j
       PROVE  /\ Listed(T, R)[i] # Listed(T, R)[j]
              /\ <<Listed(T, R)[i], Listed(T, R)[j]>> \in R
  <2> DEFINE a == Listed(T, R)[i]
             b == Listed(T, R)[j]
  <2>1. a \in T /\ b \in T /\ place[a] = i /\ place[b] = j
    BY <1>7
  <2> HIDE DEF a, b, place
  <2>2. a # b /\ ~(place[b] < place[a])
    BY <1>10, <2>1
  <2>3. <<a, b>> \in R
    <3>1. <<a, b>> \in R \/ <<b, a>> \in R
      BY <2>1, Zenon DEF TotalOrder
    <3> QED BY <1>3, <2>1, <2>2, <3>1
  <2> QED BY <2>2, <2>3 DEF a, b
<1> HIDE DEF place
<1> QED BY <1>1, <1>8, <1>9, <1>10

LEMMA PlacesOf ==
    ASSUME NEW S, NEW s \in Seq(S)
    PROVE  /\ Len(s) \in Nat
           /\ IsFiniteSet(1 .. Len(s)) /\ Cardinality(1 .. Len(s)) = Len(s)
<1>1. Len(s) \in Nat
  OBVIOUS
<1> QED BY <1>1, FS_Interval

\* Keeping goes through the places from left to right and takes each once.
Walks(o, t, s, places) ==
    /\ o \in [1 .. Len(t) -> places]
    /\ \A n \in 1 .. Len(t) : t[n] = s[o[n]]
    /\ \A p \in places : \E n \in 1 .. Len(t) : o[n] = p
    /\ \A i, j \in 1 .. Len(t) : i < j => o[i] < o[j]

LEMMA KeepingIsAWalk ==
    ASSUME NEW S, NEW s \in Seq(S), NEW places, places \subseteq 1 .. Len(s)
    PROVE  /\ Keeping(s, places) \in Seq(S)
           /\ Len(Keeping(s, places)) <= Len(s)
           /\ \E o : Walks(o, Keeping(s, places), s, places)
<1> DEFINE R == {p \in places \X places : p[1] <= p[2]}
           t == Keeping(s, places)
           N == Cardinality(places)
<1>1. Len(s) \in Nat /\ IsFiniteSet(1 .. Len(s)) /\ Cardinality(1 .. Len(s)) = Len(s)
  BY PlacesOf
<1>2. IsFiniteSet(places) /\ N <= Len(s)
  BY <1>1, FS_Subset
<1>3. \A m, n \in places : <<m, n>> \in R <=> m <= n
  OBVIOUS
<1>4. \A m \in places : m \in 1 .. Len(s) /\ m \in Int
  BY <1>1
<1>5. t = [n \in 1 .. N |-> s[Listed(places, R)[n]]]
  BY DEF Keeping
<1> HIDE DEF R, N
<1>6. TotalOrder(places, R)
  BY <1>3, <1>4, SMT DEF TotalOrder
<1>7. /\ N \in Nat
      /\ Listed(places, R) \in [1 .. N -> places]
      /\ \A p \in places : \E n \in 1 .. N : Listed(places, R)[n] = p
      /\ \A i, j \in 1 .. N : i < j =>
           Listed(places, R)[i] # Listed(places, R)[j]
           /\ <<Listed(places, R)[i], Listed(places, R)[j]>> \in R
  BY <1>2, <1>6, ListedIsInOrder DEF N
<1>8. PICK o : o = Listed(places, R)
  OBVIOUS
<1> HIDE DEF t
<1>9. /\ o \in [1 .. N -> places]
      /\ \A p \in places : \E n \in 1 .. N : o[n] = p
      /\ \A i, j \in 1 .. N : i < j => o[i] # o[j] /\ <<o[i], o[j]>> \in R
      /\ t = [n \in 1 .. N |-> s[o[n]]]
  BY <1>5, <1>7, <1>8
<1>10. ASSUME NEW i \in 1 .. N, NEW j \in 1 .. N, i < j
       PROVE  o[i] < o[j]
  <2>1. o[i] \in places /\ o[j] \in places /\ o[i] # o[j] /\ <<o[i], o[j]>> \in R
    BY <1>9, <1>10
  <2>2. o[i] <= o[j]
    BY <1>3, <2>1, Zenon
  <2>3. o[i] \in Int /\ o[j] \in Int
    BY <1>4, <2>1, Zenon
  <2> QED BY <2>1, <2>2, <2>3
<1>11. ASSUME NEW n \in 1 .. N
       PROVE  t[n] = s[o[n]] /\ s[o[n]] \in S
  <2>1. o[n] \in places
    BY <1>9
  <2>2. o[n] \in 1 .. Len(s)
    BY <1>4, <2>1
  <2> QED BY <1>9, <2>2
<1>12. t \in Seq(S) /\ Len(t) = N
  BY <1>7, <1>9, <1>11
<1>13. Walks(o, t, s, places)
  <2>1. \A i, j \in 1 .. N : i < j => o[i] < o[j]
    BY <1>10
  <2>2. \A n \in 1 .. N : t[n] = s[o[n]]
    BY <1>11
  <2> QED BY <1>9, <1>12, <2>1, <2>2, Zenon DEF Walks
<1> QED BY <1>2, <1>12, <1>13 DEF t
=============================================================================

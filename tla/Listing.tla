------------------------------ MODULE Listing ------------------------------
(***************************************************************************)
(* What Python and SQL do to lists all over the program, said of places    *)
(* and orders: ORDER BY and sorted() list a set in an order, the loops     *)
(* that skip or drop keep what a list has at some of its places.           *)
(***************************************************************************)
EXTENDS Integers, Sequences, FiniteSets

Least(S) == CHOOSE x \in S : \A y \in S : x <= y

\* The elements of T, from first to last in the total order R.
Listed(T, R) ==
    LET place == [x \in T |-> Cardinality({y \in T : <<y, x>> \in R})]
    IN [k \in 1 .. Cardinality(T) |-> CHOOSE x \in T : place[x] = k]

\* What s has at these places, in its order.
Keeping(s, places) ==
    LET order == Listed(places, {p \in places \X places : p[1] <= p[2]})
    IN [n \in 1 .. Cardinality(places) |-> s[order[n]]]
=============================================================================

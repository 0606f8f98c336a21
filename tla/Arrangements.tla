---------------------------- MODULE Arrangements ----------------------------
(***************************************************************************)
(* Sequences sorted by a key, filtered and cut: what slice::sort_by,       *)
(* Iterator::filter and Vec::truncate do to a list of records or results.  *)
(***************************************************************************)
EXTENDS Integers, Sequences, FiniteSets

Least(S) == CHOOSE x \in S : \A y \in S : x =< y
Most(S) == CHOOSE x \in S : \A y \in S : y =< x
Elements(s) == {s[i] : i \in DOMAIN s}
Cut(s, n) == SubSeq(s, 1, Least({n, Len(s)}))

\* The elements of s at the indices I in the order of their keys.
Arranged(s, I, key) ==
    LET place(i) == Cardinality({j \in I : key[j] < key[i] \/ (key[j] = key[i] /\ j =< i)})
    IN  [n \in 1..Cardinality(I) |-> s[CHOOSE i \in I : place(i) = n]]

\* slice::sort_by is stable: equal keys keep their order.
Sorted(s, key) == Arranged(s, DOMAIN s, key)
Retained(s, I) == Arranged(s, I, [i \in I |-> i])
ByScore(results) == Sorted(results, [i \in DOMAIN results |-> results[i].score])
=============================================================================

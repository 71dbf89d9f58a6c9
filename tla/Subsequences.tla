---------------------------- MODULE Subsequences ----------------------------
(* The elements of a sequence at some of its places, in their order: what a   *)
(* loop that skips the others leaves.                                         *)
EXTENDS Integers, Sequences, FiniteSets

\* The k-th number of a set, from the least up.
Nth(I, k) == CHOOSE i \in I : Cardinality({j \in I : j < i}) = k - 1

Ascending(I) == [k \in 1..Cardinality(I) |-> Nth(I, k)]

Picked(s, I) == [k \in 1..Cardinality(I) |-> s[Nth(I, k)]]

=============================================================================

------------------------------ MODULE Positions ------------------------------
(****************************************************************************)
(* The elements of sequences and of sets of numbers by their position.      *)
(****************************************************************************)
EXTENDS Integers, FiniteSets, Sequences

\* The element of K, a set of numbers, that j elements do not exceed.
NthOf(K, j) == CHOOSE i \in K : Cardinality({k \in K : k <= i}) = j

\* What remains of s when only the positions of K are kept, in order.
Compact(s, K) == [j \in 1 .. Cardinality(K) |-> s[NthOf(K, j)]]

=============================================================================

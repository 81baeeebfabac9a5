----------------------------- MODULE Selection -----------------------------
(***************************************************************************)
(* Choosing from a sequence by position: a list comprehension or a filter, *)
(* given by what it returns rather than by a recursion over the sequence,  *)
(* so that proofs can use it.                                              *)
(***************************************************************************)
EXTENDS Naturals, FiniteSets

\* How many elements of S come up to i.
Rank(S, i) == Cardinality({j \in S : j <= i})

\* The elements of a set of numbers in ascending order.
Ascending(S) == [n \in 1 .. Cardinality(S) |-> CHOOSE i \in S : Rank(S, i) = n]

\* The elements of s at the positions in I, in their order in s.
Selected(s, I) ==
    LET at == Ascending(I)
    IN  [n \in 1 .. Cardinality(I) |-> s[at[n]]]
=============================================================================

------------------------------ MODULE Orderings ------------------------------
(***************************************************************************)
(* What the program has sorted() and list comprehensions for: the elements *)
(* of a set in an order, and the elements of a list that are in a set.     *)
(* They are defined by counting, not with SortSeq and SelectSeq, which the *)
(* provers do not know.                                                    *)
(***************************************************************************)
EXTENDS Integers, Sequences, FiniteSets

\* The elements of S, the first first, where R is a strict total order of S: the n-th
\* element is the one with n - 1 elements before it.
InOrder(S, R) ==
    [n \in 1..Cardinality(S) |->
       CHOOSE x \in S : Cardinality({y \in S : <<y, x>> \in R}) = n - 1]

Earlier(I) == {p \in I \X I : p[1] < p[2]}

\* The elements of the sequence s that are in T, as they follow each other in s.
Only(s, T) ==
    LET places == {i \in 1..Len(s) : s[i] \in T}
        place == InOrder(places, Earlier(places))
    IN  [n \in 1..Cardinality(places) |-> s[place[n]]]

=============================================================================

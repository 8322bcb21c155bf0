------------------------------- MODULE Orders -------------------------------
(***************************************************************************)
(* Sets of numbers as sequences.                                           *)
(***************************************************************************)
EXTENDS Naturals, FiniteSets

\* The members of a set of numbers in ascending order, as SetToSortSeq(S, <) has
\* them, in a form that the provers can expand.
InOrder(S) ==
  [n \in 1 .. Cardinality(S) |-> CHOOSE k \in S : Cardinality({j \in S : j < k}) = n - 1]
=============================================================================

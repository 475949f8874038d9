------------------------------- MODULE Sorted -------------------------------
(***************************************************************************)
(* Sets of numbers in order: the engines of a std::map, the peers a list   *)
(* takes by rising index, the packets of a ring by position.               *)
(***************************************************************************)
EXTENDS Integers, FiniteSets

\* A finite set of numbers in ascending order (as SetToSortSeq, but without
\* recursion, which proofs cannot unfold).
Ascending[S \in SUBSET Nat] ==
    [n \in 1 .. Cardinality(S) |-> CHOOSE x \in S : Cardinality({y \in S : y < x}) = n - 1]
=============================================================================

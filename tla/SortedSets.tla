------------------------------ MODULE SortedSets ------------------------------
(***************************************************************************)
(* Sets of numbers in ascending order, without a sort: a number's place is *)
(* how many are smaller.                                                   *)
(***************************************************************************)
EXTENDS Integers, FiniteSets

\* The number of S that n - 1 are smaller than.
Nth(S, n) == CHOOSE x \in S : Cardinality({y \in S : y < x}) = n - 1

Ascending(S) == [n \in 1..Cardinality(S) |-> Nth(S, n)]
=============================================================================

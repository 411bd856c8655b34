----------------------------- MODULE SortedSets -----------------------------
(***************************************************************************)
(* The order in which code goes through a sorted vector or a std::map of   *)
(* numbers.                                                                *)
(***************************************************************************)
EXTENDS Integers, FiniteSets

\* The numbers of a finite set, in ascending order.
Ascending(S) ==
  CHOOSE s \in [1 .. Cardinality(S) -> S] : \A i, j \in 1 .. Cardinality(S) : i < j => s[i] < s[j]
=============================================================================

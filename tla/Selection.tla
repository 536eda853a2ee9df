------------------------------ MODULE Selection ------------------------------
(***************************************************************************)
(* The elements of a set of numbers in ascending order (ORDER BY id), and  *)
(* the elements of a sequence that pass a filter.  SetToSortSeq and        *)
(* SelectSeq say the same; these two are defined without recursion, so     *)
(* that proofs can use their definitions.                                  *)
(***************************************************************************)
EXTENDS Integers, Sequences, FiniteSets

(* Each number stands where its rank says. *)
Ascending(S) ==
  [j \in 1 .. Cardinality(S) |-> CHOOSE k \in S : Cardinality({i \in S : i <= k}) = j]

(* The elements of s at the places in W. *)
Selected(s, W) == [j \in 1 .. Cardinality(W) |-> s[Ascending(W)[j]]]
=============================================================================

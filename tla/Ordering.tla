------------------------------ MODULE Ordering ------------------------------
(***************************************************************************)
(* Sets of numbers in ascending order: what sort.Slice makes of versions,  *)
(* ORDER BY of ids, and a loop over a slice of its positions.              *)
(***************************************************************************)
EXTENDS Integers, FiniteSets

Below(S, x) == {y \in S : y < x}

(* Each element stands behind those below it.                               *)
Ascending(S) == [k \in 1..Cardinality(S) |-> CHOOSE x \in S : Cardinality(Below(S, x)) = k - 1]
=============================================================================

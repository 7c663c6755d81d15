------------------------------ MODULE Sorting ------------------------------
(***************************************************************************)
(* Ruby's sort of numbers that are all different (external): their         *)
(* sequence in ascending order.                                            *)
(***************************************************************************)
EXTENDS Naturals, FiniteSets

Sorted(S) ==
    CHOOSE seq \in [1 .. Cardinality(S) -> S] :
        \A i, j \in 1 .. Cardinality(S) : i < j => seq[i] < seq[j]
=============================================================================

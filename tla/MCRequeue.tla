------------------------------ MODULE MCRequeue ------------------------------
(* Instances of Requeue for TLC.                                           *)
EXTENDS Requeue

CONSTANTS n1, n2, n3

TwoNames == {n1, n2}
ThreeNames == {n1, n2, n3}
Interchangeable == Permutations(Name)
=============================================================================

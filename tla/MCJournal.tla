------------------------------ MODULE MCJournal ------------------------------
(* Instances of Journal for TLC.                                           *)
EXTENDS Journal, TLC

Symmetry == Permutations(Orders) \cup Permutations(Variants)

=============================================================================

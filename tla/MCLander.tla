------------------------------ MODULE MCLander ------------------------------
(* Instances of Lander for TLC.                                            *)
EXTENDS Lander, TLC

Symmetry == Permutations(Routes) \cup Permutations(Pools)

=============================================================================

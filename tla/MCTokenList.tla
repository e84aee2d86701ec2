---------------------------- MODULE MCTokenList ----------------------------
(* Instances of TokenList for TLC.                                         *)
EXTENDS TokenList, TLC

CONSTANTS b1, v1, v2, v3

\* One buy goes out in two variants.
MCVariants == [o \in Buys \cup Sells |-> IF o = b1 THEN {v1, v2} ELSE {v3}]

Symmetry == Permutations({v1, v2})

=============================================================================

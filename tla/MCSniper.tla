------------------------------ MODULE MCSniper ------------------------------
(* Instances of Sniper for TLC.                                            *)
EXTENDS Sniper, TLC

Symmetry == Permutations(Mints)

\* With follows the router treats every mint alone, so one mint is traded or
\* recovered.  In scan the mints compete for the lock; there the fuses hold and
\* nothing is recovered by hand.
Scope ==
  /\ mode = "follow" => Cardinality(created' \cup imported') <= 1
  /\ mode = "scan" => UNCHANGED <<fuses, imported>>

ScopedSpec == SniperInit /\ [][SniperNext /\ Scope]_sniperVars

=============================================================================

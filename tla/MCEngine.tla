------------------------------ MODULE MCEngine ------------------------------
(* Instances of Engine for TLC.                                            *)
EXTENDS EngineCustody, TLC

Symmetry == Permutations(Mints)

\* The integrity fuse refuses creates exactly as a lost audit message does; that
\* it stays halves the state graph for the liveness properties.
FairSpecIntegrityHolds == Init /\ [][Next /\ UNCHANGED integrityOk]_vars /\ Fairness

=============================================================================

----------------------------- MODULE MCTargetFeed -----------------------------
(* Instances of TargetFeed for TLC.                                        *)
EXTENDS TargetFeed

CONSTANTS m1, m2, t1, t2

\* One transaction of both mints, one of the second alone.
MCTouches == [t \in Txs |-> IF t = t1 THEN {m1, m2} ELSE {m2}]

=============================================================================

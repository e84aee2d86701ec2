------------------------------- MODULE MCFeed -------------------------------
(* Instances of Feed for TLC.                                              *)
EXTENDS Feed

\* Nothing but crashes and broken connections; a disorderly stream and a failing
\* disk; a lagging RPC node.
AllEnvironments == {{}, {"tx_first", "disk_fails"}, {"rpc_lags"}}

TxFirst == {{"tx_first"}}

=============================================================================

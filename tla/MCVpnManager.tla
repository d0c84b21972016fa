----------------------------- MODULE MCVpnManager ------------------------------
(* TLC's instance of VpnManager.                                              *)
EXTENDS VpnManager, TLC

\* Neither the threads nor the servers are told apart.
Symmetry == Permutations(Threads) \cup Permutations(Nodes)
================================================================================

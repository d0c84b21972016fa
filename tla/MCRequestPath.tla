------------------------------ MODULE MCRequestPath ----------------------------
(* TLC's instance of RequestPath.                                             *)
EXTENDS RequestPath, TLC

\* Neither the deliveries of the bridge nor the processors are told apart.
Symmetry == Permutations(Handlers) \cup Permutations(Procs)
================================================================================

-------------------------- MODULE MCMetricsServer --------------------------
(***************************************************************************)
(* MetricsServer for TLC: two threads, two handlers that are alike, and    *)
(* references that are alike.                                              *)
(***************************************************************************)
EXTENDS MetricsServer, TLC

TheThreads == {Main, Loop}
Symmetric == Permutations(Handlers) \cup Permutations(Refs)
=============================================================================

---------------------------- MODULE MCProcShares ----------------------------
(***************************************************************************)
(* ProcShares for TLC.                                                     *)
(***************************************************************************)
EXTENDS ProcTable, TLC

Symmetric == Permutations(Pids)
=============================================================================

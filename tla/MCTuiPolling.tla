---------------------------- MODULE MCTuiPolling ----------------------------
(***************************************************************************)
(* TuiPolling for TLC.                                                     *)
(***************************************************************************)
EXTENDS TuiPolling
=============================================================================

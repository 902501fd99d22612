---------------------------- MODULE MCDashboard ----------------------------
(***************************************************************************)
(* The dashboard and its alert engine for TLC, on the snapshots of the     *)
(* alerts.  A history of three frames is shorter than a session of five    *)
(* and longer than the averages and the alert window of two.               *)
(***************************************************************************)
EXTENDS Dashboard, MCAlertEngine
=============================================================================

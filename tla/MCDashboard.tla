---------------------------- MODULE MCDashboard ----------------------------
(* The symbols for the run of Dashboard.                                   *)
EXTENDS Dashboard

CONSTANTS x, y
=============================================================================

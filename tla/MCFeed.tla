------------------------------- MODULE MCFeed -------------------------------
(* Values for the run of Feed: one second doubles to a cap of three.       *)
EXTENDS Feed

CONSTANT none
=============================================================================

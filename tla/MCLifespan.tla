----------------------------- MODULE MCLifespan -----------------------------
(* Values for the run of Lifespan: buckets of two instants.                *)
EXTENDS Lifespan

CONSTANT sym
=============================================================================

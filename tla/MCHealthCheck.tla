---------------------------- MODULE MCHealthCheck ----------------------------
(* Instances of HealthCheck for TLC.                                       *)
EXTENDS HealthCheck, TLC

Symmetry == Permutations(Worker)
=============================================================================

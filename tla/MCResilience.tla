---------------------------- MODULE MCResilience ----------------------------
(* Values for checking Resilience.tla on small instances. *)
EXTENDS Resilience, TLC

CONSTANTS m1, m2, c1, c2, c3

Symmetry == Permutations(Callers) \cup Permutations(Models)
=============================================================================

-------------------------- MODULE MCCircuitBreaker --------------------------
(***************************************************************************)
(* CircuitBreaker on small instances; the workers are interchangeable.     *)
(***************************************************************************)
EXTENDS CircuitBreaker, TLC

Symmetry == Permutations(Workers)
=============================================================================

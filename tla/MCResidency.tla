----------------------------- MODULE MCResidency ----------------------------
(***************************************************************************)
(* Residency on one device that has room for two of three models by count  *)
(* and where the large one leaves room for none of the others.             *)
(***************************************************************************)
EXTENDS Residency

CONSTANTS large, small

MCMemory == [m \in Models |-> IF m = large THEN 2 ELSE 1]
=============================================================================

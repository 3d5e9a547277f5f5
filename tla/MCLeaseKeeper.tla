--------------------------- MODULE MCLeaseKeeper ----------------------------
(* Small instances of LeaseKeeper.                                         *)
EXTENDS LeaseKeeper, TLC

\* Workers are interchangeable: every action quantifies over all of them.
Symmetry == Permutations(Workers)
=============================================================================

---------------------------- MODULE MCJobQueue ----------------------------
(* JobQueue on small instances.  Jobs and workers are interchangeable, so  *)
(* the safety runs use symmetry; the liveness run does not.                *)
EXTENDS JobQueue, TLC

Symmetry == Permutations(Jobs) \cup Permutations(Workers)
=============================================================================

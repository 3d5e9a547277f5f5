------------------------------ MODULE MCIntake ------------------------------
(* Small instances of Intake.                                              *)
EXTENDS Intake, TLC

\* Requests are interchangeable, and so are callers.
Symmetry == Permutations(Submitters) \cup Permutations(Sources)
=============================================================================

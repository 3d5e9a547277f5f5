---------------------------- MODULE MCJobEvents -----------------------------
(* Small instances of JobEvents.                                           *)
EXTENDS JobEvents, TLC

\* Writer threads and clients are interchangeable.
Symmetry == Permutations(Writers) \cup Permutations(Clients)
=============================================================================

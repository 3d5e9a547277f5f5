-------------------------- MODULE MCSyncExecution ---------------------------
(* Small instances of SyncExecution.                                       *)
EXTENDS SyncExecution, TLC

\* Requests are interchangeable: each chooses its own key and kind.
Symmetry == Permutations(Requests)
=============================================================================

----------------------------- MODULE MCBacklog ------------------------------
(* Backlog with two bands that ageing can bridge.                          *)
EXTENDS Backlog, TLC

MCBands == [batch |-> <<0, 1>>, normal |-> <<2, 3>>]
MCKinds == {[class |-> "batch", priority |-> 1, model |-> None],
            [class |-> "normal", priority |-> None, model |-> "m"]}
Symmetry == Permutations(Workers)
=============================================================================

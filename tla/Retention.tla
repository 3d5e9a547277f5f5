----------------------------- MODULE Retention ------------------------------
(***************************************************************************)
(* scrub_content of services/retention.py: which finished jobs one sweep   *)
(* takes the text from.  No variables.                                     *)
(*                                                                         *)
(* The statement reads the oldest ScanFactor * BatchSize finished jobs,    *)
(* scrubbed ones among them, and the loop skips those.                     *)
(***************************************************************************)
EXTENDS Integers, FiniteSets

CONSTANTS RetentionTime,   \* storage.content_retention_hours
          BatchSize,       \* the most jobs one sweep scrubs
          ScanFactor       \* 4 in the code: rows read per row scrubbed

ASSUME RetentionAssumption ==
    RetentionTime \in Nat /\ {BatchSize, ScanFactor} \subseteq Nat \ {0}

ScanLimit == ScanFactor * BatchSize

\* Finished by the cut-off.
Expired(ended, at) == {j \in DOMAIN ended : ended[j].completed + RetentionTime <= at}

\* T holds the n of S that finished first, ties decided either way.
Oldest(ended, S, T, n) ==
    /\ T \subseteq S
    /\ Cardinality(T) = IF Cardinality(S) < n THEN Cardinality(S) ELSE n
    /\ \A j \in T, k \in S \ T : ended[j].completed <= ended[k].completed

Unscrubbed(ended, S) == {j \in S : ~ended[j].scrubbed}

\* Mutant: a job already scrubbed uses up the batch.
BatchesAny(ended, at) ==
    LET S == Expired(ended, at)
    IN  {T \in SUBSET S : Oldest(ended, S, T, BatchSize)}

\* The sets of jobs a sweep at an instant may scrub.
Batches(ended, at) ==
    LET S     == Expired(ended, at)
        scans == {R \in SUBSET S : Oldest(ended, S, R, ScanLimit)}
    IN  UNION {{T \in SUBSET R : Oldest(ended, Unscrubbed(ended, R), T, BatchSize)}
                 : R \in scans}
=============================================================================

--------------------------- MODULE MCReliability ---------------------------
(***************************************************************************)
(* Reliability for two threads, a job and a caller, and BreakerMirror for  *)
(* two threads.  The minimum sample counts are one or two where the code   *)
(* has five, twenty or more.  The two share the table and none of its      *)
(* columns, so each is explored with the other at rest.                    *)
(***************************************************************************)
EXTENDS Reliability, BreakerMirror, TLC

Symmetry == Permutations(Threads)

Attempt(s, o, l, t) == [subject |-> s, outcome |-> o, latency |-> l, tokens |-> t]

MCAttemptKinds ==
    {Attempt(Base, "completed", 2, 3), Attempt(Base, "validation_failed", 1, 1),
     Attempt(Base, "timeout", Unknown, Unknown), Attempt(Base, "cancelled", 1, Unknown)}
    \cup {Attempt(s, "provider_error", 1, Unknown) : s \in Adapters}

MCFeedbackKinds ==
    {[accepted |-> TRUE, edited |-> TRUE, failed_check |-> FALSE, quality |-> 1],
     [accepted |-> TRUE, edited |-> FALSE, failed_check |-> TRUE, quality |-> Unknown]}

\* Nothing has happened yet, in the one and in the other.
StatsAtRest  == now = 0 /\ attempts = {} /\ feedback = {} /\ selected = {}
MirrorAtRest ==
    /\ \A w \in Rows : column[w] = NoRow
    /\ \A s \in Breakers : persisted[s] = NoVerdict
    /\ \A r \in Refreshers : refresh[r] = Resting

MCInit == Init /\ MirrorInit

MCNext ==
    \/ MirrorAtRest /\ Next /\ UNCHANGED mirrorVars
    \/ StatsAtRest /\ MirrorNext /\ UNCHANGED vars

MCSpec == MCInit /\ [][MCNext]_<<vars, mirrorVars>>
=============================================================================

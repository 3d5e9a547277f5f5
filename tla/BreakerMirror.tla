--------------------------- MODULE BreakerMirror ---------------------------
(***************************************************************************)
(* The breaker columns of reliability_stats: refresh_breakers() of the     *)
(* worker, record_breaker_verdicts() and what a recomputation leaves of    *)
(* them (services/worker.py, services/reliability.py).                     *)
(*                                                                         *)
(* The columns mirror breakers that live in memory.  A refresh compares    *)
(* each breaker with persisted_verdicts, writes the changed verdicts onto  *)
(* the rows in a transaction and then notes them, one by one, with no lock *)
(* around the three; the scheduler and every worker run it.  What the      *)
(* breakers decide is CircuitBreaker's; here a verdict is any value.       *)
(***************************************************************************)
EXTENDS Naturals

CONSTANTS Refreshers,            \* the scheduler and the workers
          Breakers, Recomputed,  \* subjects with a breaker, and with rows
          Profiles,              \* the task profiles the rows are kept for
          Verdicts               \* what a breaker may say

ASSUME MirrorAssumption == Recomputed \subseteq Breakers /\ "closed" \in Verdicts

NoRow     == "no row"
NoVerdict == "no verdict"
NoOne     == "no one"

ASSUME MirrorMarkers ==
    NoRow \notin Verdicts /\ NoVerdict \notin Verdicts /\ NoOne \notin Refreshers

Rows == Recomputed \X Profiles

VARIABLES
    column,     \* circuit_state and circuit_reason of each row
    persisted,  \* persisted_verdicts
    refresh,    \* how far each refresh_breakers() is, and what it found changed
    young,      \* ghost: the rows inserted after the last write on their subject
    writer,     \* ghost: who last wrote the rows of a subject
    noter       \* ghost: who last noted a verdict on it

mirrorVars == <<column, persisted, refresh, young, writer, noter>>

Resting == [at |-> "idle", changed |-> << >>]

\* The function f without s, and with s mapped to v.
Without(f, s) == [u \in DOMAIN f \ {s} |-> f[u]]
With(f, s, v) == [u \in DOMAIN f \cup {s} |-> IF u = s THEN v ELSE f[u]]

-----------------------------------------------------------------------------
(* refresh_breakers().                                                     *)

\* A breaker was evaluated, and its verdict is not the one noted last.
FindChanged(r, s, v) ==
    /\ refresh[r].at \in {"idle", "comparing"}
    /\ s \notin DOMAIN refresh[r].changed
    /\ persisted[s] # v
    /\ refresh' = [refresh EXCEPT ![r] =
                     [at |-> "comparing", changed |-> With(@.changed, s, v)]]
    /\ UNCHANGED <<column, persisted, young, writer, noter>>

\* record_breaker_verdicts(): onto the rows there are, of these subjects.
RecordBreakerVerdicts(r) ==
    LET changed == refresh[r].changed
    IN  /\ refresh[r].at = "comparing"
        /\ column' = [w \in Rows |->
                        IF w[1] \in DOMAIN changed /\ column[w] # NoRow
                        THEN changed[w[1]] ELSE column[w]]
        /\ refresh' = [refresh EXCEPT ![r].at = "written"]
        /\ young' = {w \in young : w[1] \notin DOMAIN changed}
        /\ writer' = [s \in Breakers |-> IF s \in DOMAIN changed THEN r ELSE writer[s]]
        /\ UNCHANGED <<persisted, noter>>

\* The write fails: logged, and nothing is noted.
PersistFails(r) ==
    /\ refresh[r].at = "comparing"
    /\ refresh' = [refresh EXCEPT ![r] = Resting]
    /\ UNCHANGED <<column, persisted, young, writer, noter>>

\* One step of the loop over what was written.
NoteVerdict(r, s) ==
    /\ refresh[r].at = "written" /\ s \in DOMAIN refresh[r].changed
    /\ persisted' = [persisted EXCEPT ![s] = refresh[r].changed[s]]
    /\ refresh' = [refresh EXCEPT ![r] =
                     IF DOMAIN @.changed = {s} THEN Resting
                     ELSE [at |-> "written", changed |-> Without(@.changed, s)]]
    /\ noter' = [noter EXCEPT ![s] = r]
    /\ UNCHANGED <<column, young, writer>>

-----------------------------------------------------------------------------
(* The other writer of the rows, and the process.                          *)

\* Mutant: a recomputation writes the row whole, defaults included.
RecomputeWhole(w) ==
    /\ column' = [column EXCEPT ![w] = "closed"]
    /\ young' = IF column[w] = NoRow THEN young \cup {w} ELSE young
    /\ UNCHANGED <<persisted, refresh, writer, noter>>

\* recompute_pair(): a new row has the columns' defaults; those of an old one
\* are left alone.
RecomputeRow(w) ==
    /\ column' = [column EXCEPT ![w] = IF @ = NoRow THEN "closed" ELSE @]
    /\ young' = IF column[w] = NoRow THEN young \cup {w} ELSE young
    /\ UNCHANGED <<persisted, refresh, writer, noter>>

\* The process ends at any point and a new one begins: the rows are kept.
Restarted ==
    /\ persisted' = [s \in Breakers |-> NoVerdict]
    /\ refresh' = [r \in Refreshers |-> Resting]
    /\ writer' = [s \in Breakers |-> NoOne]
    /\ noter' = [s \in Breakers |-> NoOne]
    /\ UNCHANGED <<column, young>>

MirrorInit ==
    /\ column = [w \in Rows |-> NoRow]
    /\ persisted = [s \in Breakers |-> NoVerdict]
    /\ refresh = [r \in Refreshers |-> Resting]
    /\ young = {}
    /\ writer = [s \in Breakers |-> NoOne]
    /\ noter = [s \in Breakers |-> NoOne]

MirrorNext ==
    \/ \E r \in Refreshers, s \in Breakers, v \in Verdicts : FindChanged(r, s, v)
    \/ \E r \in Refreshers : RecordBreakerVerdicts(r) \/ PersistFails(r)
    \/ \E r \in Refreshers, s \in Breakers : NoteVerdict(r, s)
    \/ \E w \in Rows : RecomputeRow(w)
    \/ Restarted

MirrorSpec == MirrorInit /\ [][MirrorNext]_mirrorVars

-----------------------------------------------------------------------------
(* What the columns promise.                                               *)

Unnoted(r, s) == refresh[r].at = "written" /\ s \in DOMAIN refresh[r].changed

\* The thread that last wrote the rows of a subject has noted what it wrote,
\* and no slower one has noted something else since.
Settled(s) ==
    /\ noter[s] # NoOne /\ noter[s] = writer[s]
    /\ ~Unnoted(writer[s], s)

\* worker.py:503: a row shows exactly the verdict last noted for its own
\* subject, or the default if no verdict was written since it was inserted:
\* no recomputation, failed write, restart or other subject's verdict changes
\* that.  The one exception is a subject on which two refreshes overlap: until
\* the later writer has noted its verdict, and for as long as the note of the
\* earlier one stands in its place, the rows may show another verdict.
AnnotationTrue ==
    \A w \in Rows : column[w] # NoRow /\ Settled(w[1]) =>
        column[w] = IF w \in young THEN "closed" ELSE persisted[w[1]]

-----------------------------------------------------------------------------
(* The inductive invariant (ReliabilityProofs).                            *)

MirrorTypeOK ==
    /\ DOMAIN column = Rows /\ young \subseteq Rows
    /\ DOMAIN persisted = Breakers
    /\ DOMAIN refresh = Refreshers
    /\ \A r \in Refreshers :
          /\ DOMAIN refresh[r] = {"at", "changed"}
          /\ refresh[r].at = "idle" => DOMAIN refresh[r].changed = {}
          /\ \A s \in DOMAIN refresh[r].changed : refresh[r].changed[s] \in Verdicts
    /\ writer \in [Breakers -> Refreshers \cup {NoOne}]
    /\ noter \in [Breakers -> Refreshers \cup {NoOne}]

\* What the last writer has not noted yet is what the older rows show, and
\* the younger ones show the default.
WrittenShown ==
    \A w \in Rows : column[w] # NoRow =>
        IF w \in young THEN column[w] = "closed"
        ELSE writer[w[1]] # NoOne /\ Unnoted(writer[w[1]], w[1]) =>
                column[w] = refresh[writer[w[1]]].changed[w[1]]

MirrorInv == MirrorTypeOK /\ WrittenShown /\ AnnotationTrue
=============================================================================

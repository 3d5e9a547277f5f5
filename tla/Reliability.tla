---------------------------- MODULE Reliability ----------------------------
(***************************************************************************)
(* The production statistics of one model and one task profile, on its own *)
(* and under an adapter: services/reliability.py, services/feedback.py and *)
(* the refreshes of the worker and of the synchronous path.  The breaker's *)
(* columns of the rows are BreakerMirror's.                                *)
(*                                                                         *)
(* An attempt is written by the transaction that ends it; the statistics   *)
(* are recomputed by a second one, at a clock read in between.  Feedback   *)
(* is written and refreshed in the same two steps.  Refreshes of several   *)
(* jobs and callers interleave, and one may fail, which is only logged.    *)
(* All refreshes name the bare base: neither caller of recompute_pair      *)
(* passes an adapter key, and no job row carries its adapter, so feedback  *)
(* counts for the base whatever the job ran on.                            *)
(***************************************************************************)
EXTENDS ReliabilityStats

CONSTANTS Threads,           \* workers and synchronous requests
          Jobs, Sources,     \* jobs of the profile, callers judging them
          Base, Adapters,    \* the subjects of the model
          AttemptKinds,      \* how an attempt may end, and on what subject
          FeedbackKinds,     \* what a caller may say
          Skew,              \* how far a completed_at may lie in the future
          MaxTime, MaxAttempts   \* bounds on the clock and on the attempts

Subjects == {Base} \cup Adapters

ASSUME ReliabilityAssumption ==
    /\ Base \notin Adapters
    /\ {Skew, MaxTime, MaxAttempts} \subseteq Nat
    /\ \A k \in AttemptKinds :
          k.subject \in Subjects /\ {k.latency, k.tokens} \subseteq Nat \cup {Unknown}

VARIABLES
    now,       \* the clock
    attempts,  \* job_attempts
    selected,  \* the jobs whose selected_model_id is the model
    feedback,  \* feedback
    stats,     \* reliability_stats: per subject its rows and their instant
    todo,      \* the refresh a thread or a caller has still to do
    missed,    \* a refresh failed, or was not due, and none was done since
    ledger     \* a ReliabilityLedger of the base's 7d window

vars == <<now, attempts, selected, feedback, stats, todo, missed, ledger>>

Quiet  == Unknown
NoRows == [at |-> Unknown]
HasRows(s) == stats[s].at # Unknown

-----------------------------------------------------------------------------
(* services/reliability.py.                                                *)

\* attempt_outcomes(): nothing is pooled across subjects.
AttemptOutcomes(S, s) == {a \in S : a.subject = s}

\* feedback_outcomes(): the verdicts on jobs with a selected model, under the
\* adapter key of the job, which is always the base's.
FeedbackOutcomes(F, s) ==
    {f \in F : s = Base /\ f.job \in selected}

\* The three windows of a subject as of an instant.
WindowRows(A, F, s, at) ==
    [w \in Windows |->
        ComputeStats(AttemptOutcomes(A, s), FeedbackOutcomes(F, s), w, at)]

\* known_pairs(): every subject with an attempt, a verdict or a row.
KnownPairs ==
    {s \in Subjects : \/ AttemptOutcomes(attempts, s) # {}
                      \/ FeedbackOutcomes(feedback, s) # {}
                      \/ HasRows(s)}

\* recompute_all(), the full path the incremental one is held to.
RecomputeAll(at) ==
    [s \in KnownPairs |-> WindowRows(attempts, feedback, s, at)]

\* recompute_pair() of the base: the statistics of the rows are written whole.
RecomputePair(at) ==
    /\ stats' = [stats EXCEPT ![Base] =
                   [rows |-> WindowRows(attempts, feedback, Base, at), at |-> at]]
    /\ missed' = FALSE

\* A failure is logged and left to the next refresh.
RefreshFails ==
    /\ missed' = TRUE
    /\ UNCHANGED stats

-----------------------------------------------------------------------------
(* Attempts.                                                               *)

\* selected_model_id comes to name the model: the job is admitted, falls back
\* to it or is completed on it, and its verdicts count for it from then on.
Select(j) ==
    /\ j \notin selected
    /\ selected' = selected \cup {j}
    /\ missed' = (missed \/ \E f \in feedback : f.job = j)
    /\ UNCHANGED <<now, attempts, feedback, stats, todo, ledger>>

\* The job falls back to another model, or is admitted on one after a
\* deferral: its verdicts count for that one, and neither is refreshed.
MoveAway(j) ==
    /\ j \in selected
    /\ selected' = selected \ {j}
    /\ missed' = (missed \/ \E f \in feedback : f.job = j)
    /\ UNCHANGED <<now, attempts, feedback, stats, todo, ledger>>

\* The sample of an attempt; id tells equal ones apart.
Sample(k, at) ==
    LET like == {a \in attempts : a.kind = k /\ a.at = at}
    IN  [kind |-> k, id |-> Cardinality(like), at |-> at, subject |-> k.subject,
         outcome |-> k.outcome, latency |-> k.latency, tokens |-> k.tokens]

\* Mutant: only an attempt that was answered is followed by a refresh.
PersistUnread(t, k, at) ==
    /\ todo[t] = Quiet /\ Cardinality(attempts) < MaxAttempts
    /\ attempts' = attempts \cup {Sample(k, at)}
    /\ ledger' = IF k.subject = Base THEN ledger \cup {Sample(k, at)} ELSE ledger
    /\ todo' = [todo EXCEPT ![t] = IF CountsAsSuccess(k) THEN now ELSE Quiet]
    /\ missed' = (missed \/ k.outcome = "cancelled")
    /\ UNCHANGED <<now, selected, feedback, stats>>

\* The transaction of an attempt commits, and the refresh reads the clock;
\* none follows a cancelled attempt.
Persist(t, k, at) ==
    LET a == Sample(k, at)
    IN  /\ todo[t] = Quiet /\ Cardinality(attempts) < MaxAttempts
        /\ attempts' = attempts \cup {a}
        /\ ledger' = IF a.subject = Base THEN ledger \cup {a} ELSE ledger
        /\ todo' = [todo EXCEPT ![t] = IF a.outcome = "cancelled" THEN Quiet ELSE now]
        /\ missed' = (missed \/ a.outcome = "cancelled")
        /\ UNCHANGED <<now, selected, feedback, stats>>

\* _refresh_reliability() after an attempt has been committed, and
\* feedback._refresh_statistics() at the instant of the submission.
Refresh(t) ==
    /\ todo[t] # Quiet
    /\ RecomputePair(todo[t])
    /\ todo' = [todo EXCEPT ![t] = Quiet]
    /\ UNCHANGED <<now, attempts, selected, feedback, ledger>>

RefreshLost(t) ==
    /\ todo[t] # Quiet
    /\ RefreshFails
    /\ todo' = [todo EXCEPT ![t] = Quiet]
    /\ UNCHANGED <<now, attempts, selected, feedback, ledger>>

-----------------------------------------------------------------------------
(* Feedback.                                                               *)

\* record_feedback(): one row per job and source, overwritten in place; a
\* job without a selected model is not refreshed.
RecordFeedback(c, j, k) ==
    /\ todo[c] = Quiet
    /\ feedback' = {f \in feedback : f.job # j \/ f.source # c}
                     \cup {[job |-> j, source |-> c, at |-> now,
                            accepted |-> k.accepted, edited |-> k.edited,
                            failed_check |-> k.failed_check, quality |-> k.quality]}
    /\ todo' = [todo EXCEPT ![c] = IF j \in selected THEN now ELSE Quiet]
    /\ UNCHANGED <<now, attempts, selected, stats, missed, ledger>>

-----------------------------------------------------------------------------
(* What is read back.                                                      *)

\* factors_for_task: from the stored rows; a subject without any is absent.
FactorsForTask == [s \in {u \in Subjects : HasRows(u)} |-> ReliabilityFactor(stats[s].rows)]

\* reliability_report: the regression verdict of a subject.
ReliabilityReport ==
    [s \in {u \in Subjects : HasRows(u)} |->
        DetectRegression(stats[s].rows["7d"], stats[s].rows["all"])]

-----------------------------------------------------------------------------
(* The clock and the ledger.                                               *)

Tick ==
    /\ now < MaxTime
    /\ now' = now + 1
    /\ UNCHANGED <<attempts, feedback, stats, selected, todo, missed, ledger>>

Trim ==
    /\ ledger # Trimmed(ledger, "7d", now)
    /\ ledger' = Trimmed(ledger, "7d", now)
    /\ UNCHANGED <<now, attempts, feedback, stats, selected, todo, missed>>

Init ==
    /\ now = 0
    /\ attempts = {} /\ feedback = {} /\ ledger = {}
    /\ stats = [s \in Subjects |-> NoRows]
    /\ selected = {}
    /\ todo = [t \in Threads \cup Sources |-> Quiet]
    /\ missed = FALSE

Next ==
    \/ \E j \in Jobs : Select(j) \/ MoveAway(j)
    \/ \E t \in Threads, k \in AttemptKinds, at \in now .. now + Skew :
          Persist(t, k, at)
    \/ \E t \in Threads \cup Sources : Refresh(t)
    \/ \E t \in Threads : RefreshLost(t)
    \/ \E c \in Sources, j \in Jobs, k \in FeedbackKinds : RecordFeedback(c, j, k)
    \/ Tick \/ Trim

Spec == Init /\ [][Next]_vars

-----------------------------------------------------------------------------
(* What the statistics promise.                                            *)

IsSample(a) ==
    /\ a.subject \in Subjects /\ a.at \in 0 .. MaxTime + Skew
    /\ a.latency \in Nat \cup {Unknown} /\ a.tokens \in Nat \cup {Unknown}

\* The types of the tables and of the threads' state.
TypeOK ==
    /\ now \in 0 .. MaxTime /\ missed \in BOOLEAN
    /\ \A a \in attempts : IsSample(a)
    /\ ledger \subseteq attempts
    /\ \A f \in feedback : f.job \in Jobs /\ f.source \in Sources /\ f.at \in 0 .. now
    /\ \A s \in Subjects :
          HasRows(s) => DOMAIN stats[s].rows = Windows /\ stats[s].at <= now
    /\ selected \subseteq Jobs
    /\ todo \in [Threads \cup Sources -> (0 .. now) \cup {Quiet}]

AllQuiet == ~missed /\ \A t \in Threads \cup Sources : todo[t] = Quiet

\* services/reliability.py:7: however the refreshes interleave, once they
\* have all been done, the rows of the base are those the full recomputation
\* gives at the instant they were written at - unless, since the last refresh
\* that was done, one failed, an attempt was cancelled, which has none, or a
\* job already judged came to the model or was moved to another.
IncrementalEqualsFull ==
    AllQuiet /\ HasRows(Base) =>
        stats[Base].rows = RecomputeAll(stats[Base].at)[Base]

\* ReliabilityLedger: the statistics of what folding and trimming has kept
\* are those of every sample, now and at every later instant.
LedgerAgrees ==
    \A t \in now .. MaxTime + Skew :
        ComputeStats(ledger, {}, "7d", t)
          = ComputeStats(AttemptOutcomes(attempts, Base), {}, "7d", t)

\* reliability_factor(): in [1/2, 1] without clamping; 1 where no window
\* holds enough counted attempts; else 1 only for attempts that all passed
\* and feedback that, if there is enough of it, all accepted.
FactorHonest ==
    HasRows(Base) =>
        LET rows == stats[Base].rows
            f    == FactorsForTask[Base]
        IN  /\ f.den <= 2 * f.num /\ f.num <= f.den
            /\ f.window = None <=> \A w \in {"7d", "30d"} : Counted(rows[w]) < MinFactor
            /\ f.window # None => (f.num = f.den <=>
                  /\ rows[f.window].passes = Counted(rows[f.window])
                  /\ rows[f.window].credit \in {Unknown, 2 * rows[f.window].feedback})

\* The verdict on a regression from the raw samples, split at the horizon.
RegressionOf(S, at) ==
    LET counted == {a \in S : a.at <= at /\ a.outcome # "cancelled"}
        recent  == {a \in counted : a.at > at - Short}
        before  == counted \ recent
        passed  == {a \in counted : a.outcome = "completed"}
    IN  IF Cardinality(recent) < MinRegression \/ Cardinality(before) < MinRegression
        THEN "insufficient_samples"
        ELSE IF Regressed(Cardinality(recent), Cardinality(recent \cap passed),
                          Cardinality(before), Cardinality(before \cap passed))
        THEN "regressed" ELSE "stable"

\* detect_regression() subtracts the counts of two stored rows and gets the
\* verdict on the attempts themselves: recent ones against those before.
RegressionExact ==
    AllQuiet /\ HasRows(Base) =>
        ReliabilityReport[Base]
          = RegressionOf(AttemptOutcomes(attempts, Base), stats[Base].at)

\* percentile(): at least 95 of 100 measured attempts took no longer than
\* the p95, and no smaller latency that occurred has that.
PercentileExact ==
    HasRows(Base) => \A w \in Windows : stats[Base].rows[w].p95 # Unknown =>
        LET S == {a \in AttemptOutcomes(attempts, Base) :
                    InWindow(a.at, w, stats[Base].at) /\ a.latency # Unknown}
            within(v) == 100 * Cardinality({a \in S : a.latency <= v})
                           >= 95 * Cardinality(S)
            p == stats[Base].rows[w].p95
        IN  AllQuiet => /\ within(p) /\ \E a \in S : a.latency = p
                        /\ \A a \in S : a.latency < p => ~within(a.latency)

\* The counts of the stored rows and of the trimmed ledger are those of the
\* samples themselves (compute_stats, ReliabilityLedger, detect_regression).
StatisticsExact == TypeOK /\ LedgerAgrees /\ RegressionExact

\* What is derived from a row keeps its meaning: the factor and the
\* percentile (reliability_factor, percentile).
ReadingsHonest == FactorHonest /\ PercentileExact

-----------------------------------------------------------------------------
(* The inductive invariants (ReliabilityProofs).                           *)

\* Every table has a row, or none yet, for every subject.
Tables ==
    /\ DOMAIN stats = Subjects
    /\ \A s \in Subjects : HasRows(s) => stats[s].at \in Nat
    /\ IsFiniteSet(attempts)

\* Behind LedgerAgrees: the ledger holds samples of the base only, and what it
\* has lost is behind the window for ever.
LedgerKeeps ==
    /\ ledger \subseteq AttemptOutcomes(attempts, Base)
    /\ \A a \in AttemptOutcomes(attempts, Base) \ ledger : a.at <= now - Short

ReliabilityInv ==
    TypeOK /\ Tables /\ IncrementalEqualsFull /\ LedgerKeeps

\* Behind FactorHonest: the counts of a stored row fit together, also while a
\* refresh is outstanding.
CountsFit ==
    /\ IsFiniteSet(feedback)
    /\ HasRows(Base) => \A w \in Windows :
          LET row == stats[Base].rows[w]
          IN  /\ Counted(row) \in Nat /\ row.passes \in 0 .. Counted(row)
              /\ row.feedback \in Nat
              /\ row.credit \in IF row.feedback < MinRate THEN {Unknown}
                                                          ELSE 0 .. 2 * row.feedback
=============================================================================

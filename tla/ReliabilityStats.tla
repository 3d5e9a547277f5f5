-------------------------- MODULE ReliabilityStats --------------------------
(***************************************************************************)
(* domain/reliability.py: what the attempts and the feedback on one        *)
(* subject say over a rolling window, the factor routing takes from it and *)
(* the verdict on a regression.  Nothing here has a state.                 *)
(*                                                                         *)
(* A sample is a record with its instant at and, for an attempt, its       *)
(* outcome, latency and tokens; Unknown stands for a value that was not    *)
(* measured.  Rates are pairs of whole numbers, the acceptance counts      *)
(* halves, and a probability is compared by cross-multiplication.          *)
(***************************************************************************)
EXTENDS Integers, FiniteSetsExt, Functions

CONSTANTS Short, Long,       \* the 7d and the 30d window
          MinFactor,         \* PRODUCTION_MINIMUM_SAMPLES
          MinRate,           \* MINIMUM_RATE_SAMPLES, MINIMUM_MEAN_SAMPLES
          MinPercentile,     \* MINIMUM_PERCENTILE_SAMPLES
          MinRegression,     \* REGRESSION_MINIMUM_SAMPLES
          DropPercent,       \* REGRESSION_MINIMUM_DROP
          ZSquared           \* the square of REGRESSION_Z_THRESHOLD

ASSUME StatsAssumption ==
    /\ Short \in Nat \ {0} /\ Long \in Nat /\ Short < Long
    /\ {MinFactor, MinRate, MinPercentile, MinRegression} \subseteq Nat \ {0}
    /\ DropPercent \in 1 .. 100 /\ ZSquared \in Nat \ {0}

Unknown == -1
None    == "none"
Windows == {"7d", "30d", "all"}

-----------------------------------------------------------------------------
(* Windows and samples.                                                    *)

\* Window.horizon(): Unknown where the window reaches back for ever.
Horizon(w, now) ==
    CASE w = "7d" -> now - Short [] w = "30d" -> now - Long [] w = "all" -> Unknown

\* in_window(): horizon < at <= now.
InWindow(at, w, now) == at <= now /\ (w # "all" => at > Horizon(w, now))

\* counts_as_success(): the provider answered.
CountsAsSuccess(a) == a.outcome \in {"completed", "validation_failed"}

\* acceptance_credit(), in halves.
AcceptanceCredit(f) ==
    IF f.failed_check \/ ~f.accepted THEN 0 ELSE IF f.edited THEN 1 ELSE 2

\* What a set of verdicts earns together: a half for each that earns anything,
\* another for each that earns all.
Credits(F) ==
    Cardinality({f \in F : AcceptanceCredit(f) >= 1})
      + Cardinality({f \in F : AcceptanceCredit(f) = 2})

\* sorted(): by latency, equal ones in any order.
Ordered(S) ==
    CHOOSE s \in Bijection(1 .. Cardinality(S), S) :
        \A i, j \in DOMAIN s : i < j => s[i].latency <= s[j].latency

\* percentile(): the value at the nearest rank of the num/den-th percentile,
\* of the samples that carry one.
Percentile(S, num, den) ==
    Ordered(S)[(num * Cardinality(S) + den - 1) \div den].latency

\* A value is reported only over enough samples: _bounded() and the
\* conditions of compute_stats().
Bounded(value, samples, minimum) == IF samples < minimum THEN Unknown ELSE value

-----------------------------------------------------------------------------
(* compute_stats().                                                        *)

\* The mean of a column that some of the samples carry, as <<sum, count>>.
Mean(S, column) ==
    LET carrying == {x \in S : x[column] # Unknown}
        count    == Cardinality(carrying)
    IN  IF count < MinRate THEN <<Unknown, count>>
        ELSE <<MapThenSumSet(LAMBDA x : x[column], carrying), count>>

\* Over the attempts and the feedback that count.
StatsOf(A, F) ==
    LET successes     == {a \in A : CountsAsSuccess(a)}
        timeouts      == {a \in A : a.outcome = "timeout"}
        cancellations == {a \in A : a.outcome = "cancelled"}
        measured      == {a \in A : a.latency # Unknown}
        count         == Cardinality(measured)
    IN  [attempts      |-> Cardinality(A),
         successes     |-> Cardinality(successes),
         passes        |-> Cardinality({a \in A : a.outcome = "completed"}),
         timeouts      |-> Cardinality(timeouts),
         cancellations |-> Cardinality(cancellations),
         errors        |-> Cardinality(A \ (successes \cup timeouts \cup cancellations)),
         p50 |-> IF count < MinPercentile THEN Unknown ELSE Percentile(measured, 50, 100),
         p95 |-> IF count < MinPercentile THEN Unknown ELSE Percentile(measured, 95, 100),
         tokens        |-> Mean(A, "tokens"),
         feedback      |-> Cardinality(F),
         credit        |-> Bounded(Credits(F), Cardinality(F), MinRate),
         quality       |-> Mean(F, "quality")]

InWindowOf(S, w, now) == {x \in S : InWindow(x.at, w, now)}

ComputeStats(attempts, feedback, w, now) ==
    StatsOf(InWindowOf(attempts, w, now), InWindowOf(feedback, w, now))

\* WindowStats.counted: everything but cancellations.
Counted(s) == s.attempts - s.cancellations

\* Mutant: what does not count now is forgotten, the future included.
TrimmedToWindow(S, w, now) == {a \in S : InWindow(a.at, w, now)}

\* ReliabilityLedger.trimmed(): what the window can never count again goes;
\* a sample of the future stays.
Trimmed(S, w, now) == {a \in S : w # "all" => a.at > Horizon(w, now)}

-----------------------------------------------------------------------------
(* reliability_factor().                                                   *)

\* floor + (1 - floor) x success x validation x feedback term, with floor
\* and feedback weight 1/2, over the common denominator.
FactorOf(s) ==
    LET C == Counted(s) P == s.passes F == s.feedback
    IN  IF F < MinRate THEN [num |-> C + P, den |-> 2 * C]
        ELSE [num |-> 4 * C * F + P * (2 * F + s.credit), den |-> 8 * C * F]

\* Mutant: an idle week is judged on the whole history.
FactorWindowAll(stats) ==
    IF Counted(stats["7d"]) >= MinFactor THEN "7d"
    ELSE IF Counted(stats["all"]) >= MinFactor THEN "all" ELSE None

\* The freshest window with enough counted attempts decides; never "all".
FactorWindow(stats) ==
    IF Counted(stats["7d"]) >= MinFactor THEN "7d"
    ELSE IF Counted(stats["30d"]) >= MinFactor THEN "30d" ELSE None

\* neutral_factor() is exactly 1.
ReliabilityFactor(stats) ==
    LET w == FactorWindow(stats)
    IN  IF w = None THEN [window |-> None, num |-> 1, den |-> 1]
        ELSE [window |-> w, num |-> FactorOf(stats[w]).num, den |-> FactorOf(stats[w]).den]

-----------------------------------------------------------------------------
(* detect_regression().                                                    *)

\* The drop is large, and many standard errors wide:
\* drop^2 >= z^2 pooled (1 - pooled) (1/n + 1/m).
Regressed(n, p, m, q) ==
    LET drop   == q * n - p * m        \* (q/m - p/n) * n * m
        pooled == p + q
        total  == n + m
    IN  /\ 100 * drop >= DropPercent * n * m
        /\ pooled # 0 /\ pooled # total
        /\ drop >= 0 /\ drop * drop * total >= ZSquared * pooled * (total - pooled) * n * m

\* The recent window against everything before it.
DetectRegression(recent, all_time) ==
    LET n == Counted(recent)
        m == Counted(all_time) - n
    IN  IF n < MinRegression \/ m < MinRegression THEN "insufficient_samples"
        ELSE IF Regressed(n, recent.passes, m, all_time.passes - recent.passes)
        THEN "regressed" ELSE "stable"
=============================================================================

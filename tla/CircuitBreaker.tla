--------------------------- MODULE CircuitBreaker ---------------------------
(***************************************************************************)
(* The breaker of one model: domain/circuit_breaker.py, the refreshes that *)
(* drive it (QueueRuntime.refresh_breakers) and the jobs that pass its     *)
(* gate (Worker._attempts and the synchronous _execute_attempts).          *)
(*                                                                         *)
(* A refresh reads the clock and the samples first and updates the verdict *)
(* under the lock later; any worker and the scheduler refresh, so a verdict*)
(* may be re-evaluated with an older clock and fewer samples than the last *)
(* time.  An attempt's completed_at is taken before its row is written.    *)
(* Instants are numbered from 1 and 0 stands for None; two attempts never  *)
(* complete at the same instant.  The failure rate, the sample count and   *)
(* the reason of a verdict are functions of what is kept here.             *)
(***************************************************************************)
EXTENDS Integers, FiniteSets

CONSTANTS Workers,         \* threads that run jobs on the model
          Scheduler,       \* the scheduler thread, which only refreshes
          Window, MinSamples, FailurePercent, Cooldown,  \* the thresholds
          MaxTime          \* bound on the clock

ASSUME BreakerAssumption ==
    /\ Window \in Nat \ {0} /\ Cooldown \in Nat \ {0}
    /\ MinSamples \in Nat \ {0} /\ FailurePercent \in 1 .. 100
    /\ MaxTime \in Nat \ {0}
    /\ Scheduler \notin Workers

VARIABLES
    now,      \* the clock
    samples,  \* the attempts recorded in job_attempts, cancelled ones left out
    verdict,  \* the model's BreakerVerdict
    pend,     \* what each refresher has read and not yet applied
    run       \* what each thread is doing with the model

vars == <<now, samples, verdict, pend, run>>

Never      == 0
Time       == 0 .. MaxTime
Refreshers == Workers \cup {Scheduler}
Sample     == [at : Time, succeeded : BOOLEAN]

-----------------------------------------------------------------------------
(* evaluate(), in the order of its statements.                             *)

\* Mutant: a success does not forget the failures before it.
RecentUnforgiven(S, t, v) == {s \in S : s.at > t - Window /\ s.at <= t}

\* The samples that count at t: inside the window, after the last closing.
Recent(S, t, v) ==
    {s \in S : s.at > t - Window /\ s.at > v.closed_at /\ s.at <= t}

Last(S) == CHOOSE s \in S : \A r \in S : r.at <= s.at

Unprobed(v) == [v EXCEPT !.probe_in_flight = FALSE, !.probe_started_at = Never]

\* open -> half_open when the cool-down has elapsed.
Elapsed(t, v) ==
    IF v.state = "open" /\ v.expires_at # Never /\ t >= v.expires_at
    THEN [Unprobed(v) EXCEPT !.state = "half_open"] ELSE v

\* Mutant: a probe that never reports is waited for.
OverdueKept(t, v) == v

\* A probe that has not reported within one cool-down is released.
Overdue(t, v) ==
    IF /\ v.state = "half_open" /\ v.probe_in_flight
       /\ v.probe_started_at # Never /\ t >= v.probe_started_at + Cooldown
    THEN Unprobed(v) ELSE v

Closed(at) ==
    [state |-> "closed", opened_at |-> Never, expires_at |-> Never,
     probe_in_flight |-> FALSE, probe_started_at |-> Never, closed_at |-> at]

Opened(v, at) ==
    [state |-> "open", opened_at |-> at, expires_at |-> at + Cooldown,
     probe_in_flight |-> FALSE, probe_started_at |-> v.probe_started_at,
     closed_at |-> v.closed_at]

\* The samples that can decide a half-open breaker.
After(S, t, v) == {s \in Recent(S, t, v) : s.at > v.opened_at}

\* Mutant: every recent sample decides, also one from before the opening.
DecidedByAny(S, t, v) ==
    IF v.state # "half_open" \/ v.opened_at = Never \/ Recent(S, t, v) = {}
    THEN v
    ELSE LET s == Last(Recent(S, t, v)) IN
         IF s.succeeded THEN Closed(s.at) ELSE Opened(Unprobed(v), s.at)

\* A half-open breaker is decided by the last sample after its opening.
Decided(S, t, v) ==
    IF v.state # "half_open" \/ v.opened_at = Never \/ After(S, t, v) = {}
    THEN v
    ELSE LET s == Last(After(S, t, v)) IN
         IF s.succeeded THEN Closed(s.at) ELSE Opened(Unprobed(v), s.at)

TooManyFailures(S) ==
    /\ Cardinality(S) >= MinSamples
    /\ 100 * Cardinality({s \in S : ~s.succeeded}) >= FailurePercent * Cardinality(S)

\* A closed breaker opens on the failure rate of the samples that count.
Tripped(S, t, v) ==
    IF v.state = "closed" /\ Recent(S, t, v) # {} /\ TooManyFailures(Recent(S, t, v))
    THEN Opened(v, Last(Recent(S, t, v)).at) ELSE v

evaluate(S, t, v) ==
    Tripped(S, t, Decided(S, t, Overdue(t, Elapsed(t, v))))

\* The reason of an open breaker formats a rate that does not exist when no
\* sample counts: evaluate raises and the verdict stays as it was.
Raises(S, t, v) == v.state = "open" /\ Recent(S, t, v) = {}

excludes(v) ==
    v.state = "open" \/ (v.state = "half_open" /\ v.probe_in_flight)

-----------------------------------------------------------------------------
Idle == [at |-> "idle", holds |-> FALSE, since |-> Never, answer |-> Never,
         succeeded |-> FALSE]

NothingRead == [now |-> Never, samples |-> {}]

Init ==
    /\ now = 1
    /\ samples = {}
    /\ verdict = Closed(Never)
    /\ pend = [r \in Refreshers |-> NothingRead]
    /\ run = [w \in Workers |-> Idle]

Tick ==
    /\ now < MaxTime /\ now' = now + 1
    /\ UNCHANGED <<samples, verdict, pend, run>>

\* refresh_breakers reads the clock (its caller's) and the samples; a worker
\* does so at the beginning of _route, the scheduler in its tick.
ReadSamples(r) ==
    /\ pend[r] = NothingRead
    /\ r \in Workers => run[r] = Idle
    /\ pend' = [pend EXCEPT ![r] =
                   [now |-> now, samples |-> {s \in samples : s.at > now - Window}]]
    /\ UNCHANGED <<now, samples, verdict, run>>

\* CircuitBreakers.update, under the lock.  Where evaluate raises, the worker's
\* job fails or the scheduler's tick is abandoned.
Update(r) ==
    LET read == pend[r]
        next == evaluate(read.samples, read.now, verdict)
    IN  /\ read # NothingRead
        /\ verdict' = IF Raises(read.samples, read.now, next) THEN verdict ELSE next
        /\ pend' = [pend EXCEPT ![r] = NothingRead]
        /\ UNCHANGED <<now, samples, run>>

\* A job is routed to the model, after the worker's refresh or, for a
\* synchronous request, without one: an excluded model is skipped.
Route(w) ==
    /\ run[w] = Idle /\ pend[w] = NothingRead
    /\ ~excludes(verdict)
    /\ run' = [run EXCEPT ![w] = [Idle EXCEPT !.at = "routed"]]
    /\ UNCHANGED <<now, samples, verdict, pend>>

Started == [Idle EXCEPT !.at = "running"]

\* The gate: allow_probe takes the probe of a half-open breaker ...
AllowProbe(w) ==
    /\ run[w].at = "routed"
    /\ verdict.state = "half_open" /\ ~verdict.probe_in_flight
    /\ verdict' = [verdict EXCEPT !.probe_in_flight = TRUE,
                                  !.probe_started_at = now]
    /\ run' = [run EXCEPT ![w] = [Started EXCEPT !.holds = TRUE, !.since = now]]
    /\ UNCHANGED <<now, samples, pend>>

\* ... probe_busy skips the candidate, and any other breaker lets the job run,
\* one that has opened since the job was routed included.
PassGate(w) ==
    /\ run[w].at = "routed"
    /\ ~(verdict.state = "half_open" /\ ~verdict.probe_in_flight)
    /\ run' = [run EXCEPT ![w] = IF verdict.state = "half_open" THEN Idle
                                 ELSE Started]
    /\ UNCHANGED <<now, samples, verdict, pend>>

Answered(thread, succeeded) ==
    [at |-> "answered", holds |-> thread.holds, since |-> thread.since,
     answer |-> now, succeeded |-> succeeded]

\* The provider call ends.
Answer(w, succeeded) ==
    /\ run[w].at = "running"
    /\ \A s \in samples : s.at < now
    /\ \A v \in Workers : run[v].answer < now
    /\ run' = [run EXCEPT ![w] = Answered(run[w], succeeded)]
    /\ UNCHANGED <<now, samples, verdict, pend>>

\* A retry on the model is still the same probe job.
Retried(thread) ==
    [Started EXCEPT !.holds = thread.holds, !.since = thread.since]

\* The attempt's row is committed; the job retries on the model or is done.
Record(w, retry) ==
    /\ run[w].at = "answered"
    /\ samples' = samples \cup {[at |-> run[w].answer, succeeded |-> run[w].succeeded]}
    /\ run' = [run EXCEPT ![w] = IF retry THEN Retried(run[w]) ELSE Idle]
    /\ UNCHANGED <<now, verdict, pend>>

\* Mutant: the probe's start is not reset.
release_probe_flag(v) ==
    IF v.probe_in_flight THEN [v EXCEPT !.probe_in_flight = FALSE] ELSE v

\* release_probe looks at the verdict only, not at who took the probe.
release_probe(v) == IF v.probe_in_flight THEN Unprobed(v) ELSE v

\* The job is cancelled before the call or in it: a probe is handed back.
Cancel(w) ==
    /\ run[w].at = "running"
    /\ verdict' = IF run[w].holds THEN release_probe(verdict) ELSE verdict
    /\ run' = [run EXCEPT ![w] = Idle]
    /\ UNCHANGED <<now, samples, pend>>

\* The worker stops without a row and without handing the probe back: its
\* lease is gone, it crashed, its attempts were exhausted.
Abandon(w) ==
    /\ run[w].at \in {"running", "answered"}
    /\ run' = [run EXCEPT ![w] = Idle]
    /\ UNCHANGED <<now, samples, verdict, pend>>

Next ==
    \/ Tick
    \/ \E r \in Refreshers : ReadSamples(r) \/ Update(r)
    \/ \E w \in Workers :
          \/ Route(w) \/ AllowProbe(w) \/ PassGate(w) \/ Cancel(w) \/ Abandon(w)
          \/ \E b \in BOOLEAN : Answer(w, b) \/ Record(w, b)

Spec == Init /\ [][Next]_vars

-----------------------------------------------------------------------------
(* Properties.                                                             *)

Verdict == [state : {"closed", "open", "half_open"}, opened_at : Time,
            expires_at : 0 .. MaxTime + Cooldown, closed_at : Time,
            probe_in_flight : BOOLEAN, probe_started_at : Time]

Thread == [at : {"idle", "routed", "running", "answered"},
           holds : BOOLEAN, since : Time, answer : Time, succeeded : BOOLEAN]

\* Every variable has its type.
TypeOK ==
    /\ now \in 1 .. MaxTime
    /\ samples \subseteq Sample
    /\ verdict \in Verdict
    /\ pend \in [Refreshers -> [now : Time, samples : SUBSET Sample]]
    /\ run \in [Workers -> Thread]

\* What the instants of a verdict say about its state.
Consistent(v) ==
    /\ v.state = "closed" <=> v.opened_at = Never
    /\ v.opened_at # Never => v.opened_at > v.closed_at
    /\ v.opened_at # Never => v.expires_at = v.opened_at + Cooldown
    /\ v.opened_at = Never => v.expires_at = Never
    /\ v.probe_in_flight <=> v.probe_started_at # Never
    /\ v.probe_in_flight => v.state = "half_open"

\* The instants of the verdict fit its state whatever the order in which
\* refreshes, probes and releases reach it: only an open or half-open breaker
\* has an opening, it lies after the last closing, and the cool-down is counted
\* from it; a probe is out exactly when it has a start, and only on a half-open
\* breaker.
VerdictConsistent == Consistent(verdict)

\* A model is never excluded for ever by a probe nobody finishes: whatever was
\* lost, a refresh one cool-down from now that sees no new attempt admits it.
NeverExcludedForEver == ~excludes(evaluate({}, now + Cooldown, verdict))

\* The last instant at which the breaker opened or closed.
Decision(v) == IF v.opened_at > v.closed_at THEN v.opened_at ELSE v.closed_at

\* A refresh that read an older clock and fewer samples never takes the breaker
\* back: openings and closings follow the order of the attempts they rest on.
NeverTakenBack == [][Decision(verdict') >= Decision(verdict)]_vars

\* The failures that opened a breaker do not open it again once an attempt has
\* closed it: a later opening has MinSamples samples of its own.
OpensOnNewEvidence ==
    [][verdict.state = "closed" /\ verdict'.state = "open" =>
        Cardinality({s \in samples : s.at > verdict.closed_at}) >= MinSamples]_vars

-----------------------------------------------------------------------------
(* The inductive invariant (CircuitBreakerProofs).                         *)

\* No instant of a verdict lies after t.
NotAfter(v, t) == v.opened_at <= t /\ v.closed_at <= t /\ v.probe_started_at <= t

\* Nothing that was recorded, read or decided lies in the future.
NothingAhead ==
    /\ \A s \in samples : s.at <= now
    /\ \A r \in Refreshers : \A s \in pend[r].samples : s.at <= now
    /\ \A w \in Workers : run[w].answer <= now
    /\ NotAfter(verdict, now)

\* The conjunction every step preserves: the types, a consistent verdict and
\* no instant that has not come yet.
IInv == TypeOK /\ VerdictConsistent /\ NothingAhead

\* Behind OpensOnNewEvidence: rows are never deleted under a refresh that has
\* read them, and there are finitely many.
ReadIsRecorded ==
    IsFiniteSet(samples) /\ \A r \in Refreshers : pend[r].samples \subseteq samples
=============================================================================

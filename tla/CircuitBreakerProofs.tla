------------------------ MODULE CircuitBreakerProofs ------------------------
(***************************************************************************)
(* For every number of workers and every choice of the thresholds: the     *)
(* verdict stays consistent, no stale refresh takes it back, an opening    *)
(* rests on samples of its own, and a model is never excluded for ever.    *)
(***************************************************************************)
EXTENDS CircuitBreaker, FiniteSetTheorems, WellFoundedInduction, TLAPS

\* A set of samples that is not empty has a last one.
LEMMA LastIn ==
    ASSUME NEW S \in SUBSET Sample, S # {}
    PROVE  Last(S) \in S
<1> USE BreakerAssumption
<1> DEFINE D == {n \in Nat : \E s \in S : n = MaxTime - s.at}
<1>1. \A s \in S : s.at \in 0 .. MaxTime
  BY DEF Sample, Time
<1>2. D \in SUBSET Nat /\ D # {}
  <2>1. PICK s \in S : TRUE
    OBVIOUS
  <2>2. MaxTime - s.at \in D
    BY <1>1, <2>1
  <2> QED  BY <2>2
<1>3. PICK n \in D : \A m \in D : n <= m
  <2> HIDE DEF D
  <2>1. PICK n \in D : \A m \in D : ~(<<m, n>> \in OpToRel(<, Nat))
    BY <1>2, WFMin, NatLessThanWellFounded
  <2>2. \A m \in D : ~(m < n)
    BY <1>2, <2>1 DEF OpToRel
  <2>3. \A m \in D : n <= m
    BY <1>2, <2>2
  <2> QED  BY <2>3
<1>4. PICK s \in S : n = MaxTime - s.at
  BY <1>3
<1>5. \A r \in S : r.at <= s.at
  <2> TAKE r \in S
  <2>1. MaxTime - r.at \in D
    BY <1>1
  <2>2. n <= MaxTime - r.at
    BY <1>3, <2>1
  <2> QED  BY <1>1, <1>4, <2>2
<1> QED  BY <1>5 DEF Last

\* A verdict the registry can hold at instant n.
Good(v, n) == v \in Verdict /\ Consistent(v) /\ NotAfter(v, n)

\* The samples that count lie inside what was read and after the last closing.
LEMMA RecentFacts ==
    ASSUME NEW S \in SUBSET Sample, NEW t \in Int, NEW v \in Verdict
    PROVE  /\ Recent(S, t, v) \in SUBSET Sample
           /\ \A s \in Recent(S, t, v) : s \in S /\ s.at > v.closed_at
BY DEF Recent

\* The fields of the three verdicts a statement of evaluate writes.
LEMMA UnprobedFacts ==
    ASSUME NEW v \in Verdict
    PROVE  LET u == Unprobed(v) IN
           /\ u \in Verdict /\ u.state = v.state /\ u.opened_at = v.opened_at
           /\ u.expires_at = v.expires_at /\ u.closed_at = v.closed_at
           /\ u.probe_in_flight = FALSE /\ u.probe_started_at = Never
<1> DEFINE mid == [v EXCEPT !.probe_in_flight = FALSE]
<1>1. /\ mid \in Verdict /\ mid.state = v.state /\ mid.opened_at = v.opened_at
      /\ mid.expires_at = v.expires_at /\ mid.closed_at = v.closed_at
      /\ mid.probe_in_flight = FALSE
  BY DEF Verdict
<1>2. Unprobed(v) = [mid EXCEPT !.probe_started_at = Never]
  BY Zenon DEF Unprobed
<1> HIDE DEF mid
<1> QED  BY <1>1, <1>2, BreakerAssumption DEF Verdict, Never, Time

\* Likewise for a verdict that half-opens.
LEMMA HalfOpenedFacts ==
    ASSUME NEW v \in Verdict
    PROVE  LET u == [v EXCEPT !.state = "half_open"] IN
           /\ u \in Verdict /\ u.state = "half_open" /\ u.opened_at = v.opened_at
           /\ u.expires_at = v.expires_at /\ u.closed_at = v.closed_at
           /\ u.probe_in_flight = v.probe_in_flight
           /\ u.probe_started_at = v.probe_started_at
BY DEF Verdict

\* Likewise for a verdict that opens.
LEMMA OpenedFacts ==
    ASSUME NEW v \in Verdict, NEW at \in Time
    PROVE  LET u == Opened(v, at) IN
           /\ u \in Verdict /\ u.state = "open" /\ u.opened_at = at
           /\ u.expires_at = at + Cooldown /\ u.closed_at = v.closed_at
           /\ u.probe_in_flight = FALSE
           /\ u.probe_started_at = v.probe_started_at
BY BreakerAssumption DEF Opened, Verdict, Time

\* Letting a cool-down or a probe elapse keeps the opening and the closing.
LEMMA TimeoutsGood ==
    ASSUME NEW v, NEW n \in 1 .. MaxTime, NEW t \in Int, Good(v, n)
    PROVE  LET u == Overdue(t, Elapsed(t, v)) IN
           /\ Good(u, n)
           /\ u.opened_at = v.opened_at /\ u.closed_at = v.closed_at
<1> USE BreakerAssumption
<1> DEFINE e == Elapsed(t, v)
<1>1. Good(e, n) /\ e.opened_at = v.opened_at /\ e.closed_at = v.closed_at
  <2>1. CASE e = v
    BY <2>1
  <2>2. CASE e = [Unprobed(v) EXCEPT !.state = "half_open"] /\ v.state = "open"
    <3>1. v \in Verdict
      BY DEF Good
    <3> DEFINE u == Unprobed(v)
    <3>2. /\ u \in Verdict /\ u.opened_at = v.opened_at
          /\ u.expires_at = v.expires_at /\ u.closed_at = v.closed_at
          /\ u.probe_in_flight = FALSE /\ u.probe_started_at = Never
      BY <3>1, UnprobedFacts
    <3> HIDE DEF u
    <3>3. /\ e \in Verdict /\ e.state = "half_open" /\ e.opened_at = u.opened_at
          /\ e.expires_at = u.expires_at /\ e.closed_at = u.closed_at
          /\ e.probe_in_flight = u.probe_in_flight
          /\ e.probe_started_at = u.probe_started_at
      BY <3>2, <2>2, HalfOpenedFacts DEF u
    <3> HIDE DEF e
    <3> QED  BY <2>2, <3>1, <3>2, <3>3 DEF Good, Consistent, NotAfter, Never, Time
  <2> QED  BY <2>1, <2>2 DEF Elapsed
<1> HIDE DEF e
<1> DEFINE u == Overdue(t, e)
<1>2. Good(u, n) /\ u.opened_at = e.opened_at /\ u.closed_at = e.closed_at
  <2>1. CASE u = e
    BY <1>1, <2>1
  <2>2. CASE u = Unprobed(e)
    <3>1. e \in Verdict
      BY <1>1 DEF Good
    <3>2. /\ u \in Verdict /\ u.state = e.state /\ u.opened_at = e.opened_at
          /\ u.expires_at = e.expires_at /\ u.closed_at = e.closed_at
          /\ u.probe_in_flight = FALSE /\ u.probe_started_at = Never
      BY <2>2, <3>1, UnprobedFacts
    <3> HIDE DEF u
    <3> QED  BY <1>1, <3>2 DEF Good, Consistent, NotAfter, Never, Time
  <2> QED  BY <2>1, <2>2 DEF Overdue
<1> QED  BY <1>1, <1>2 DEF e

\* Deciding a half-open breaker rests on an attempt after the opening.
LEMMA DecidedGood ==
    ASSUME NEW v, NEW n \in 1 .. MaxTime, NEW t \in Int, Good(v, n),
           NEW S \in SUBSET Sample, \A s \in S : s.at <= n
    PROVE  LET u == Decided(S, t, v) IN
           Good(u, n) /\ Decision(u) >= Decision(v)
<1> USE BreakerAssumption
<1> DEFINE A == After(S, t, v)  a == Last(A)
<1>1. CASE v.state # "half_open" \/ v.opened_at = Never \/ A = {}
  BY <1>1 DEF Decided, Decision, Good, Verdict, Time
<1>2. CASE ~(v.state # "half_open" \/ v.opened_at = Never \/ A = {})
  <2>1. A \in SUBSET Sample /\ A # {}
    BY <1>2, RecentFacts DEF After, Good
  <2>2. a \in A
    <3> HIDE DEF A
    <3> QED  BY <2>1, LastIn
  <2>3. a \in S /\ a.at > v.closed_at /\ a.at > v.opened_at
    BY <2>2, RecentFacts DEF After, Good
  <2>4. a.at \in 0 .. MaxTime /\ a.at <= n
    BY <2>3 DEF Sample, Time
  <2> HIDE DEF a
  <2>5. CASE a.succeeded
    <3>1. Decided(S, t, v) = Closed(a.at)
      BY <1>2, <2>5 DEF Decided, a
    <3>2. Good(Closed(a.at), n) /\ Decision(Closed(a.at)) >= Decision(v)
      BY <2>3, <2>4 DEF Closed, Good, Verdict, Consistent, NotAfter, Never, Time, Decision
    <3> QED  BY <3>1, <3>2
  <2>6. CASE ~a.succeeded
    <3>1. Decided(S, t, v) = Opened(Unprobed(v), a.at)
      BY <1>2, <2>6 DEF Decided, a
    <3> DEFINE u == Unprobed(v)  o == Opened(u, a.at)
    <3>2. /\ u \in Verdict /\ u.closed_at = v.closed_at
          /\ u.probe_started_at = Never
      BY UnprobedFacts DEF Good
    <3> HIDE DEF u
    <3>3. /\ o \in Verdict /\ o.state = "open" /\ o.opened_at = a.at
          /\ o.expires_at = a.at + Cooldown /\ o.closed_at = v.closed_at
          /\ o.probe_in_flight = FALSE /\ o.probe_started_at = Never
      BY <3>2, <2>4, OpenedFacts DEF Time
    <3> HIDE DEF o
    <3>4. Good(o, n)
      BY <3>3, <2>3, <2>4 DEF Good, Verdict, Consistent, NotAfter, Never, Time
    <3>5. Decision(o) >= Decision(v)
      BY <3>3, <2>3, <2>4 DEF Good, Verdict, Time, Decision
    <3> QED  BY <3>1, <3>4, <3>5 DEF o, u
  <2> QED  BY <2>5, <2>6
<1> QED  BY <1>1, <1>2

\* Tripping a closed breaker rests on an attempt after the last closing.
LEMMA TrippedGood ==
    ASSUME NEW v, NEW n \in 1 .. MaxTime, NEW t \in Int, Good(v, n),
           NEW S \in SUBSET Sample, \A s \in S : s.at <= n
    PROVE  LET u == Tripped(S, t, v) IN
           Good(u, n) /\ Decision(u) >= Decision(v)
<1> USE BreakerAssumption
<1> DEFINE R == Recent(S, t, v)  a == Last(R)
<1>1. CASE ~(v.state = "closed" /\ R # {} /\ TooManyFailures(R))
  BY <1>1 DEF Tripped, Decision, Good, Verdict, Time
<1>2. CASE v.state = "closed" /\ R # {} /\ TooManyFailures(R)
  <2>1. R \in SUBSET Sample /\ R # {}
    BY <1>2, RecentFacts DEF Good
  <2>2. a \in R
    <3> HIDE DEF R
    <3> QED  BY <2>1, LastIn
  <2>3. a \in S /\ a.at > v.closed_at
    BY <2>2, RecentFacts DEF Good
  <2>4. a.at \in 0 .. MaxTime /\ a.at <= n
    BY <2>3 DEF Sample, Time
  <2>5. Tripped(S, t, v) = Opened(v, a.at)
    BY <1>2 DEF Tripped
  <2> HIDE DEF a
  <2> DEFINE o == Opened(v, a.at)
  <2>6. v \in Verdict /\ v.probe_started_at = Never /\ v.opened_at = Never
    BY <1>2 DEF Good, Consistent
  <2>7. /\ o \in Verdict /\ o.state = "open" /\ o.opened_at = a.at
        /\ o.expires_at = a.at + Cooldown /\ o.closed_at = v.closed_at
        /\ o.probe_in_flight = FALSE /\ o.probe_started_at = Never
    BY <2>6, <2>4, OpenedFacts DEF Time
  <2> HIDE DEF o
  <2>8. Good(o, n)
    BY <2>3, <2>4, <2>6, <2>7 DEF Good, Verdict, Consistent, NotAfter, Never, Time
  <2>9. Decision(o) >= Decision(v)
    BY <2>3, <2>4, <2>6, <2>7 DEF Good, Verdict, Time, Decision, Never
  <2> QED  BY <2>5, <2>8, <2>9 DEF o
<1> QED  BY <1>1, <1>2

\* One evaluation, with any clock and any samples read before, keeps a verdict
\* good and never takes its decision back.
LEMMA EvaluateGood ==
    ASSUME NEW v, NEW n \in 1 .. MaxTime, NEW t \in Int, Good(v, n),
           NEW S \in SUBSET Sample, \A s \in S : s.at <= n
    PROVE  LET u == evaluate(S, t, v) IN
           Good(u, n) /\ Decision(u) >= Decision(v)
<1> DEFINE a == Overdue(t, Elapsed(t, v))  b == Decided(S, t, a)  c == Tripped(S, t, b)
<1>1. Good(a, n) /\ Decision(a) = Decision(v)
  BY TimeoutsGood DEF Decision
<1> HIDE DEF a
<1>2. Good(b, n) /\ Decision(b) >= Decision(a)
  BY <1>1, DecidedGood
<1> HIDE DEF b
<1>3. Good(c, n) /\ Decision(c) >= Decision(b)
  BY <1>2, TrippedGood
<1>4. /\ Decision(a) \in Int /\ Decision(b) \in Int /\ Decision(c) \in Int
  BY <1>1, <1>2, <1>3 DEF Good, Verdict, Decision, Time
<1>5. c = evaluate(S, t, v)
  BY DEF evaluate, a, b
<1> HIDE DEF c
<1> QED  BY <1>1, <1>2, <1>3, <1>4, <1>5

\* The initial states satisfy the invariant.
LEMMA InitInv == Init => IInv
BY BreakerAssumption DEF Init, IInv, TypeOK, VerdictConsistent, Consistent,
   NothingAhead, NotAfter, Closed, Never, Time, Verdict, Thread, Idle, NothingRead,
   Refreshers

\* Every step preserves the invariant and takes no decision back.
LEMMA NextInv ==
    ASSUME IInv, [Next]_vars
    PROVE  IInv' /\ Decision(verdict') >= Decision(verdict)
<1> USE BreakerAssumption
<1>0. Good(verdict, now) /\ now \in 1 .. MaxTime
  BY DEF IInv, TypeOK, VerdictConsistent, NothingAhead, Good
<1>a. Decision(verdict) \in Int
  BY <1>0 DEF Good, Verdict, Decision, Time
<1>b. ASSUME Good(verdict', now'), Decision(verdict') >= Decision(verdict),
             now' \in 1 .. MaxTime, samples' \in SUBSET Sample,
             pend' \in [Refreshers -> [now : Time, samples : SUBSET Sample]],
             run' \in [Workers -> Thread],
             \A s \in samples' : s.at <= now',
             \A r \in Refreshers : \A s \in pend'[r].samples : s.at <= now',
             \A w \in Workers : run'[w].answer <= now'
      PROVE  IInv' /\ Decision(verdict') >= Decision(verdict)
  BY <1>b DEF IInv, TypeOK, VerdictConsistent, NothingAhead, Good
<1>c. ASSUME verdict' = verdict PROVE Decision(verdict') >= Decision(verdict)
  BY <1>a, <1>c
<1> DEFINE Pend == [now : Time, samples : SUBSET Sample]
<1>t. /\ samples \in SUBSET Sample /\ pend \in [Refreshers -> Pend]
      /\ run \in [Workers -> Thread]
      /\ \A s \in samples : s.at <= now
      /\ \A r \in Refreshers : \A s \in pend[r].samples : s.at <= now
      /\ \A w \in Workers : run[w].answer <= now
  BY DEF IInv, TypeOK, NothingAhead
<1>i. Idle \in Thread /\ Idle.answer = 0
  BY DEF Idle, Thread, Never, Time
<1>s. Started \in Thread /\ Started.answer = 0
  BY <1>i DEF Started, Thread
<1>1. CASE UNCHANGED vars
  BY <1>0, <1>b, <1>c, <1>t, <1>1 DEF vars
<1>2. CASE Tick
  <2>1. now' \in 1 .. MaxTime /\ now <= now'
    BY <1>0, <1>2 DEF Tick
  <2>2. Good(verdict', now')
    BY <1>0, <1>2, <2>1 DEF Tick, Good, NotAfter, Verdict, Time
  <2>3. /\ \A s \in samples : s.at <= now'
        /\ \A r \in Refreshers : \A s \in pend[r].samples : s.at <= now'
    BY <1>0, <1>t, <2>1 DEF Sample, Time
  <2>4. \A w \in Workers : run[w].answer <= now'
    BY <1>0, <1>t, <2>1 DEF Thread, Time
  <2> QED  BY <1>b, <1>c, <1>t, <1>2, <2>1, <2>2, <2>3, <2>4 DEF Tick
<1>3. ASSUME NEW r \in Refreshers, ReadSamples(r) PROVE IInv' /\ Decision(verdict') >= Decision(verdict)
  <2> DEFINE new == [now |-> now, samples |-> {s \in samples : s.at > now - Window}]
  <2>1. new \in Pend /\ \A s \in new.samples : s.at <= now
    BY <1>0, <1>t DEF Time
  <2>2. pend' = [pend EXCEPT ![r] = new] /\ UNCHANGED <<now, samples, verdict, run>>
    BY <1>3 DEF ReadSamples
  <2> HIDE DEF new
  <2>3. /\ pend' \in [Refreshers -> Pend]
        /\ \A q \in Refreshers : \A s \in pend'[q].samples : s.at <= now
    BY <1>t, <2>1, <2>2
  <2> QED  BY <1>0, <1>b, <1>c, <1>t, <2>2, <2>3
<1>4. ASSUME NEW r \in Refreshers, Update(r) PROVE IInv' /\ Decision(verdict') >= Decision(verdict)
  <2> DEFINE next == evaluate(pend[r].samples, pend[r].now, verdict)
  <2>1. pend[r] \in Pend
    BY <1>t
  <2>2. /\ pend[r].samples \in SUBSET Sample /\ pend[r].now \in Int
        /\ \A s \in pend[r].samples : s.at <= now
    BY <1>t, <2>1 DEF Time
  <2>3. Good(next, now) /\ Decision(next) >= Decision(verdict)
    BY <1>0, <2>2, EvaluateGood
  <2>4. verdict' = next \/ verdict' = verdict
    BY <1>4 DEF Update
  <2>5. Good(verdict', now) /\ Decision(verdict') >= Decision(verdict)
    <3> HIDE DEF next
    <3> QED  BY <1>0, <1>c, <2>3, <2>4
  <2>6. pend' = [pend EXCEPT ![r] = NothingRead] /\ UNCHANGED <<now, samples, run>>
    BY <1>4 DEF Update
  <2>7. NothingRead \in Pend /\ NothingRead.samples = {}
    BY DEF NothingRead, Never, Time
  <2>8. /\ pend' \in [Refreshers -> Pend]
        /\ \A q \in Refreshers : \A s \in pend'[q].samples : s.at <= now
    BY <1>t, <2>6, <2>7
  <2> QED  BY <1>0, <1>b, <1>t, <2>5, <2>6, <2>8
<1>w. ASSUME NEW w \in Workers, NEW x \in Thread, x.answer <= now,
             run' = [run EXCEPT ![w] = x], UNCHANGED <<now, samples, pend>>,
             Good(verdict', now), Decision(verdict') >= Decision(verdict)
      PROVE  IInv' /\ Decision(verdict') >= Decision(verdict)
  <2>1. run' \in [Workers -> Thread] /\ \A v \in Workers : run'[v].answer <= now
    BY <1>t, <1>w
  <2> QED  BY <1>0, <1>b, <1>t, <1>w, <2>1
<1>5. ASSUME NEW w \in Workers, Route(w)
      PROVE  IInv' /\ Decision(verdict') >= Decision(verdict)
  <2> DEFINE x == [Idle EXCEPT !.at = "routed"]
  <2>1. x \in Thread /\ x.answer <= now
    BY <1>0, <1>i DEF Thread
  <2>2. run' = [run EXCEPT ![w] = x] /\ UNCHANGED <<now, samples, verdict, pend>>
    BY <1>5 DEF Route
  <2> HIDE DEF x
  <2> QED  BY <1>0, <1>c, <1>w, <2>1, <2>2
<1>6. ASSUME NEW w \in Workers, AllowProbe(w)
      PROVE  IInv' /\ Decision(verdict') >= Decision(verdict)
  <2> DEFINE y == [Started EXCEPT !.holds = TRUE]
             x == [y EXCEPT !.since = now]
             m == [verdict EXCEPT !.probe_in_flight = TRUE]
  <2>1. y \in Thread /\ y.answer = 0
    BY <1>s DEF Thread
  <2> HIDE DEF y
  <2>2. x \in Thread /\ x.answer <= now
    BY <1>0, <2>1 DEF Thread, Time
  <2>3. run' = [run EXCEPT ![w] = x] /\ UNCHANGED <<now, samples, pend>>
    BY <1>6, Zenon DEF AllowProbe, y, x
  <2>4. /\ m \in Verdict /\ m.state = verdict.state /\ m.opened_at = verdict.opened_at
        /\ m.expires_at = verdict.expires_at /\ m.closed_at = verdict.closed_at
        /\ m.probe_in_flight = TRUE
    BY <1>0 DEF Good, Verdict
  <2>5. verdict' = [m EXCEPT !.probe_started_at = now] /\ verdict.state = "half_open"
    BY <1>6, Zenon DEF AllowProbe, m
  <2> HIDE DEF m, x
  <2>6. /\ verdict' \in Verdict /\ verdict'.state = "half_open"
        /\ verdict'.opened_at = verdict.opened_at
        /\ verdict'.expires_at = verdict.expires_at
        /\ verdict'.closed_at = verdict.closed_at
        /\ verdict'.probe_in_flight = TRUE /\ verdict'.probe_started_at = now
    BY <1>0, <2>4, <2>5 DEF Verdict, Time
  <2>7. Good(verdict', now)
    BY <1>0, <2>5, <2>6 DEF Good, Consistent, NotAfter, Never
  <2>8. Decision(verdict') >= Decision(verdict)
    BY <1>a, <2>6 DEF Decision
  <2> QED  BY <1>w, <2>2, <2>3, <2>7, <2>8
<1>7. ASSUME NEW w \in Workers, PassGate(w)
      PROVE  IInv' /\ Decision(verdict') >= Decision(verdict)
  <2>1. Started \in Thread /\ Started.answer <= now /\ Idle.answer <= now
    BY <1>0, <1>i, <1>s
  <2>2. /\ run' = [run EXCEPT ![w] = Idle] \/ run' = [run EXCEPT ![w] = Started]
        /\ UNCHANGED <<now, samples, verdict, pend>>
    BY <1>7 DEF PassGate
  <2> QED  BY <1>0, <1>c, <1>i, <1>w, <2>1, <2>2
<1>8. ASSUME NEW w \in Workers, Cancel(w)
      PROVE  IInv' /\ Decision(verdict') >= Decision(verdict)
  <2>1. Good(verdict', now) /\ Decision(verdict') >= Decision(verdict)
    <3>1. CASE verdict' = verdict
      BY <1>0, <1>c, <3>1
    <3>2. CASE verdict' = Unprobed(verdict)
      <4>1. /\ verdict' \in Verdict /\ verdict'.state = verdict.state
            /\ verdict'.opened_at = verdict.opened_at
            /\ verdict'.expires_at = verdict.expires_at
            /\ verdict'.closed_at = verdict.closed_at
            /\ verdict'.probe_in_flight = FALSE /\ verdict'.probe_started_at = Never
        BY <1>0, <3>2, UnprobedFacts DEF Good
      <4>2. Good(verdict', now)
        BY <1>0, <4>1 DEF Good, Consistent, NotAfter, Never
      <4> QED  BY <1>a, <4>1, <4>2 DEF Decision
    <3> QED  BY <1>8, <3>1, <3>2 DEF Cancel, release_probe
  <2>2. run' = [run EXCEPT ![w] = Idle] /\ UNCHANGED <<now, samples, pend>>
    BY <1>8 DEF Cancel
  <2>3. Idle.answer <= now
    BY <1>0, <1>i
  <2> QED  BY <1>i, <1>w, <2>1, <2>2, <2>3
<1>9. ASSUME NEW w \in Workers, Abandon(w)
      PROVE  IInv' /\ Decision(verdict') >= Decision(verdict)
  <2>1. Idle.answer <= now
    BY <1>0, <1>i
  <2>2. run' = [run EXCEPT ![w] = Idle] /\ UNCHANGED <<now, samples, verdict, pend>>
    BY <1>9 DEF Abandon
  <2> QED  BY <1>0, <1>c, <1>i, <1>w, <2>1, <2>2
<1>10. ASSUME NEW w \in Workers, NEW b \in BOOLEAN, Answer(w, b)
       PROVE  IInv' /\ Decision(verdict') >= Decision(verdict)
  <2> DEFINE x == [at |-> "answered", holds |-> run[w].holds, since |-> run[w].since,
                   answer |-> now, succeeded |-> b]
  <2>1. x \in Thread /\ x.answer <= now
    BY <1>0, <1>t DEF Thread, Time
  <2>2. run' = [run EXCEPT ![w] = x] /\ UNCHANGED <<now, samples, verdict, pend>>
    BY <1>10 DEF Answer, Answered
  <2> HIDE DEF x
  <2> QED  BY <1>0, <1>c, <1>w, <2>1, <2>2
<1>11. ASSUME NEW w \in Workers, NEW b \in BOOLEAN, Record(w, b)
       PROVE  IInv' /\ Decision(verdict') >= Decision(verdict)
  <2> DEFINE x == [Started EXCEPT !.holds = run[w].holds]
             y == [x EXCEPT !.since = run[w].since]
             s == [at |-> run[w].answer, succeeded |-> run[w].succeeded]
  <2>1. run[w] \in Thread /\ run[w].answer <= now
    BY <1>t
  <2>2. s \in Sample /\ s.at <= now
    BY <2>1 DEF Thread, Sample
  <2>3. samples' = samples \cup {s} /\ UNCHANGED <<now, verdict, pend>>
    BY <1>11 DEF Record
  <2>4. x \in Thread /\ x.answer = 0
    BY <1>s, <2>1 DEF Thread
  <2> HIDE DEF x
  <2>5. y \in Thread /\ y.answer = 0
    BY <2>1, <2>4 DEF Thread
  <2>6. run' = [run EXCEPT ![w] = y] \/ run' = [run EXCEPT ![w] = Idle]
    BY <1>11, Zenon DEF Record, Retried, x, y
  <2> HIDE DEF s, y
  <2>7. run' \in [Workers -> Thread] /\ \A v \in Workers : run'[v].answer <= now
    BY <1>0, <1>i, <1>t, <2>5, <2>6
  <2>8. samples' \in SUBSET Sample /\ \A r \in samples' : r.at <= now
    BY <1>t, <2>2, <2>3
  <2> QED  BY <1>0, <1>b, <1>c, <1>t, <2>3, <2>7, <2>8
<1> QED
  BY <1>1, <1>2, <1>3, <1>4, <1>5, <1>6, <1>7, <1>8, <1>9, <1>10, <1>11 DEF Next

\* The invariant holds in every reachable state.
THEOREM Invariance == Spec => []IInv
<1>1. IInv /\ [Next]_vars => IInv'
  BY NextInv
<1> QED  BY InitInv, <1>1, PTL DEF Spec

\* Whatever order refreshes, probes and releases arrive in, the instants of the
\* verdict fit its state.
THEOREM Consistency == Spec => []VerdictConsistent
<1>1. IInv => VerdictConsistent
  BY DEF IInv
<1> QED  BY Invariance, <1>1, PTL

\* A refresh with an older clock or fewer samples never undoes a later opening
\* or closing of the breaker.
THEOREM Monotone == Spec => NeverTakenBack
<1>1. IInv /\ [Next]_vars => [Decision(verdict') >= Decision(verdict)]_vars
  BY NextInv
<1> QED  BY Invariance, <1>1, PTL DEF Spec, NeverTakenBack

\* Whatever probes and refreshes are lost, one more cool-down ends the
\* exclusion of a model.
THEOREM EveryExclusionEnds == Spec => []NeverExcludedForEver
<1> USE BreakerAssumption
<1>1. IInv => NeverExcludedForEver
  <2> SUFFICES ASSUME IInv PROVE NeverExcludedForEver
    OBVIOUS
  <2> DEFINE t == now + Cooldown
             e == Elapsed(t, verdict)
             o == Overdue(t, e)
  <2>1. /\ verdict \in Verdict /\ Consistent(verdict) /\ NotAfter(verdict, now)
        /\ now \in 1 .. MaxTime /\ t \in Int
    BY DEF IInv, TypeOK, VerdictConsistent, NothingAhead
  <2>2. \A v : Recent({}, t, v) = {} /\ After({}, t, v) = {}
    BY DEF Recent, After
  <2>3. evaluate({}, t, verdict) = o
    BY <2>2 DEF evaluate, Decided, Tripped
  <2>4. /\ e = IF verdict.state = "open"
               THEN [Unprobed(verdict) EXCEPT !.state = "half_open"] ELSE verdict
    BY <2>1 DEF Elapsed, Consistent, NotAfter, Verdict, Never, Time
  <2>5. CASE verdict.state = "open"
    <3> DEFINE u == Unprobed(verdict)
    <3>1. u \in Verdict /\ u.probe_in_flight = FALSE
      BY <2>1, UnprobedFacts
    <3> HIDE DEF u
    <3>2. e.state = "half_open" /\ e.probe_in_flight = FALSE
      BY <2>4, <2>5, <3>1, HalfOpenedFacts DEF u
    <3> HIDE DEF e
    <3>3. o = e
      BY <3>2 DEF Overdue
    <3> QED  BY <2>3, <3>2, <3>3 DEF NeverExcludedForEver, excludes
  <2>6. CASE verdict.state # "open"
    <3>1. e = verdict
      BY <2>4, <2>6
    <3>2. CASE verdict.probe_in_flight
      <4>1. o = Unprobed(verdict)
        BY <2>1, <3>1, <3>2 DEF Overdue, Consistent, NotAfter, Verdict, Never, Time
      <4>2. o.probe_in_flight = FALSE /\ o.state = verdict.state
        BY <2>1, <4>1, UnprobedFacts
      <4> QED  BY <2>3, <2>6, <4>2 DEF NeverExcludedForEver, excludes
    <3>3. CASE ~verdict.probe_in_flight
      <4>1. o = verdict
        BY <3>1, <3>3 DEF Overdue
      <4> QED  BY <2>3, <2>6, <3>3, <4>1 DEF NeverExcludedForEver, excludes
    <3> QED  BY <3>2, <3>3
  <2> QED  BY <2>5, <2>6
<1> QED  BY Invariance, <1>1, PTL

\* What a refresh works from is in the table, whatever is recorded meanwhile.
LEMMA RecordedStep ==
    ASSUME IInv, ReadIsRecorded, [Next]_vars
    PROVE  ReadIsRecorded'
<1>0. pend \in [Refreshers -> [now : Time, samples : SUBSET Sample]]
  BY DEF IInv, TypeOK
<1>1. CASE UNCHANGED <<samples, pend>>
  BY <1>1 DEF ReadIsRecorded
<1>2. ASSUME NEW r \in Refreshers, ReadSamples(r) PROVE ReadIsRecorded'
  <2> DEFINE read == [now |-> now, samples |-> {s \in samples : s.at > now - Window}]
  <2>1. samples' = samples /\ pend' = [pend EXCEPT ![r] = read]
    BY <1>2 DEF ReadSamples
  <2>2. read.samples \subseteq samples
    OBVIOUS
  <2> HIDE DEF read
  <2> QED  BY <1>0, <2>1, <2>2 DEF ReadIsRecorded
<1>3. ASSUME NEW r \in Refreshers, Update(r) PROVE ReadIsRecorded'
  <2>1. samples' = samples /\ pend' = [pend EXCEPT ![r] = NothingRead]
    BY <1>3 DEF Update
  <2>2. NothingRead.samples = {}
    BY DEF NothingRead
  <2> QED  BY <1>0, <2>1, <2>2 DEF ReadIsRecorded
<1>4. ASSUME NEW w \in Workers, NEW b \in BOOLEAN, Record(w, b) PROVE ReadIsRecorded'
  <2> DEFINE s == [at |-> run[w].answer, succeeded |-> run[w].succeeded]
  <2>1. samples' = samples \cup {s} /\ pend' = pend
    BY <1>4 DEF Record
  <2> HIDE DEF s
  <2>2. IsFiniteSet(samples')
    BY <2>1, FS_AddElement DEF ReadIsRecorded
  <2> QED  BY <2>1, <2>2 DEF ReadIsRecorded
<1>5. CASE UNCHANGED vars \/ Tick
  BY <1>1, <1>5 DEF vars, Tick
<1>6. ASSUME NEW w \in Workers,
             \/ Route(w) \/ AllowProbe(w) \/ PassGate(w) \/ Cancel(w) \/ Abandon(w)
             \/ \E b \in BOOLEAN : Answer(w, b)
      PROVE  ReadIsRecorded'
  <2>1. UNCHANGED <<samples, pend>>
    BY <1>6 DEF Route, AllowProbe, PassGate, Cancel, Abandon, Answer
  <2> QED  BY <1>1, <2>1
<1> QED  BY <1>2, <1>3, <1>4, <1>5, <1>6 DEF Next

\* A closed breaker is opened by Tripped alone, on samples after the closing.
LEMMA OpeningStep ==
    ASSUME IInv, ReadIsRecorded, Next, verdict.state = "closed", verdict'.state = "open"
    PROVE  Cardinality({s \in samples : s.at > verdict.closed_at}) >= MinSamples
<1> USE BreakerAssumption
<1>1. \E r \in Refreshers : Update(r)
  <2>1. ASSUME NEW w \in Workers, Cancel(w) PROVE verdict'.state = verdict.state
    <3>1. verdict \in Verdict
      BY DEF IInv, TypeOK
    <3>2. verdict' = verdict \/ verdict' = Unprobed(verdict)
      BY <2>1 DEF Cancel, release_probe
    <3> QED  BY <3>1, <3>2, UnprobedFacts
  <2>2. ASSUME NEW w \in Workers, AllowProbe(w) PROVE FALSE
    BY <2>2 DEF AllowProbe
  <2>3. verdict' # verdict
    OBVIOUS
  <2> QED  BY <2>1, <2>2, <2>3 DEF Next, Tick, ReadSamples, Route, PassGate, Abandon, Answer,
              Record
<1>2. PICK r \in Refreshers : Update(r)
  BY <1>1
<1> DEFINE S == pend[r].samples
           t == pend[r].now
           R == Recent(S, t, verdict)
<1>3. verdict' = evaluate(S, t, verdict)
  BY <1>2 DEF Update
<1>4. evaluate(S, t, verdict) = Tripped(S, t, verdict)
  BY DEF evaluate, Elapsed, Overdue, Decided
<1>5. Cardinality(R) >= MinSamples
  BY <1>3, <1>4 DEF Tripped, TooManyFailures
<1> DEFINE N == {s \in samples : s.at > verdict.closed_at}
<1>6. R \subseteq N
  BY DEF Recent, ReadIsRecorded
<1>7. IsFiniteSet(N)
  <2>1. N \subseteq samples
    OBVIOUS
  <2> HIDE DEF N
  <2> QED  BY <2>1, FS_Subset DEF ReadIsRecorded
<1> HIDE DEF R, N
<1>8. /\ Cardinality(R) <= Cardinality(N)
      /\ Cardinality(R) \in Nat /\ Cardinality(N) \in Nat
  BY <1>6, <1>7, FS_Subset, FS_CardinalityType
<1>9. Cardinality(N) >= MinSamples
  BY <1>5, <1>8
<1> QED  BY <1>9 DEF N

\* The failures that opened a breaker do not open it again once an attempt has
\* closed it (evaluate: only samples after closed_at count), whatever the order
\* in which several refreshers read and apply.
THEOREM NewEvidence == Spec => OpensOnNewEvidence
<1>1. Init => ReadIsRecorded
  BY FS_EmptySet DEF Init, ReadIsRecorded, NothingRead
<1>2. IInv /\ ReadIsRecorded /\ [Next]_vars => ReadIsRecorded'
  BY RecordedStep
<1>3. IInv /\ ReadIsRecorded /\ [Next]_vars =>
        [verdict.state = "closed" /\ verdict'.state = "open" =>
            Cardinality({s \in samples : s.at > verdict.closed_at}) >= MinSamples]_vars
  BY OpeningStep
<1> QED  BY Invariance, <1>1, <1>2, <1>3, PTL DEF Spec, OpensOnNewEvidence
=============================================================================

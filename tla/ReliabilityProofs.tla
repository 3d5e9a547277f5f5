------------------------- MODULE ReliabilityProofs -------------------------
(***************************************************************************)
(* Proofs about Reliability, for any threads, jobs, callers and adapters,  *)
(* any windows and any kinds of attempt.  Most of the argument is about    *)
(* which samples a row was computed from; of the statistics themselves     *)
(* only the counts a regression and the factor are judged by and the       *)
(* reported percentile are opened.  The last section is about BreakerMirror.*)
(***************************************************************************)
EXTENDS Reliability, BreakerMirror, FiniteSetTheorems, WellFoundedInduction, TLAPS

-----------------------------------------------------------------------------
(* The operators of the model.                                             *)

\* Base is a subject, and the markers are told apart from what they mark.
LEMMA Markers ==
  /\ Base \in Subjects
  /\ Unknown \notin Nat /\ Unknown \in Int /\ Quiet = Unknown
  BY DEF Subjects, Unknown, Quiet

\* The bounds are natural numbers.
LEMMA Bounds ==
  Skew \in Nat /\ MaxTime \in Nat /\ MaxAttempts \in Nat /\ Short \in Nat \ {0}
  BY ReliabilityAssumption, StatsAssumption

\* The rows of the full recomputation are those of the incremental one.
LEMMA FullRows ==
  ASSUME HasRows(Base), NEW at
  PROVE  RecomputeAll(at)[Base] = WindowRows(attempts, feedback, Base, at)
  <1>1. Base \in KnownPairs
    BY Markers DEF KnownPairs
  <1> QED BY <1>1 DEF RecomputeAll

-----------------------------------------------------------------------------
(* The inductive invariant.                                                *)

\* What IncrementalEqualsFull says, without the full path.
Current ==
    AllQuiet /\ HasRows(Base) =>
        stats[Base].rows = WindowRows(attempts, feedback, Base, stats[Base].at)

\* The two forms say the same.
LEMMA CurrentRows ==
  IncrementalEqualsFull <=> Current
  BY FullRows DEF IncrementalEqualsFull, Current

\* Before anything has run.
LEMMA InitInv ==
  ASSUME Init
  PROVE  ReliabilityInv
  <1>1. \A s \in Subjects : ~HasRows(s)
    BY DEF Init, HasRows, NoRows
  <1>2. Tables
    BY <1>1, FS_EmptySet DEF Init, Tables
  <1>3. TypeOK
    <2>1. now \in 0 .. MaxTime
      BY Bounds DEF Init
    <2>3. missed \in BOOLEAN
      BY DEF Init
    <2>2. todo \in [Threads \cup Sources -> (0 .. now) \cup {Quiet}]
      BY DEF Init
    <2> QED BY <1>1, <2>1, <2>2, <2>3, Markers DEF Init, TypeOK
  <1>4. IncrementalEqualsFull
    BY <1>1, Markers DEF IncrementalEqualsFull
  <1>6. LedgerKeeps
    BY DEF Init, LedgerKeeps, AttemptOutcomes
  <1> QED BY <1>2, <1>3, <1>4, <1>6 DEF ReliabilityInv

\* A job comes to the model or is moved to another: a verdict on it counts
\* from now on, or no longer, and missed says so.
LEMMA SelectionInv ==
  ASSUME ReliabilityInv, NEW j \in Jobs, Select(j) \/ MoveAway(j)
  PROVE  ReliabilityInv'
  <1>1. /\ UNCHANGED <<now, attempts, feedback, stats, todo, ledger>>
        /\ selected' \in {selected \cup {j}, selected \ {j}} /\ missed' \in BOOLEAN
        /\ missed' = (missed \/ \E f \in feedback : f.job = j)
    BY DEF Select, MoveAway
  <1>2. TypeOK'
    BY <1>1 DEF ReliabilityInv, TypeOK, HasRows, IsSample
  <1>3. Tables'
    BY <1>1 DEF ReliabilityInv, Tables, HasRows
  <1>4. Current'
    <2> SUFFICES ASSUME AllQuiet', HasRows(Base)'
                 PROVE  (stats[Base].rows = WindowRows(attempts, feedback, Base, stats[Base].at))'
      BY DEF Current
    <2>1. AllQuiet /\ HasRows(Base) /\ \A f \in feedback : f.job # j
      BY <1>1 DEF AllQuiet, HasRows
    <2>2. FeedbackOutcomes(feedback, Base)' = FeedbackOutcomes(feedback, Base)
      BY <1>1, <2>1 DEF FeedbackOutcomes
    <2>3. WindowRows(attempts, feedback, Base, stats[Base].at)'
            = WindowRows(attempts, feedback, Base, stats[Base].at)
      BY <1>1, <2>2 DEF WindowRows, AttemptOutcomes
    <2> QED BY <1>1, <2>1, <2>3, CurrentRows DEF Current, ReliabilityInv
  <1>6. LedgerKeeps'
    BY <1>1 DEF ReliabilityInv, LedgerKeeps, AttemptOutcomes
  <1>7. IncrementalEqualsFull'
    BY <1>4, CurrentRows, PTL
  <1> QED BY <1>2, <1>3, <1>6, <1>7 DEF ReliabilityInv

\* The sample of an attempt is one, with the instant and the subject given.
LEMMA SampleIs ==
  ASSUME NEW k \in AttemptKinds, NEW at, now \in 0 .. MaxTime, at \in now .. now + Skew
  PROVE  /\ IsSample(Sample(k, at)) /\ Sample(k, at).at = at
         /\ Sample(k, at).subject = k.subject /\ Sample(k, at).outcome = k.outcome
  <1>1. k.subject \in Subjects /\ k.latency \in Nat \cup {Unknown} /\ k.tokens \in Nat \cup {Unknown}
    BY ReliabilityAssumption
  <1>2. at \in 0 .. MaxTime + Skew
    BY Bounds
  <1> QED BY <1>1, <1>2 DEF Sample, IsSample

\* An attempt is written: its refresh is to come, or missed says it is not.
LEMMA PersistInv ==
  ASSUME ReliabilityInv, NEW t \in Threads, NEW k \in AttemptKinds,
         NEW at \in now .. now + Skew, Persist(t, k, at)
  PROVE  ReliabilityInv'
  <1> DEFINE a == Sample(k, at)
  <1>0. TypeOK /\ Tables /\ LedgerKeeps
    BY DEF ReliabilityInv
  <1>1. /\ UNCHANGED <<now, selected, feedback, stats>>
        /\ attempts' = attempts \cup {a}
        /\ ledger' = IF a.subject = Base THEN ledger \cup {a} ELSE ledger
        /\ todo' = [todo EXCEPT ![t] = IF a.outcome = "cancelled" THEN Quiet ELSE now]
        /\ missed' = (missed \/ a.outcome = "cancelled")
    BY DEF Persist
  <1>2. IsSample(a) /\ a.at = at /\ now \in Nat /\ at \in Nat /\ now <= at
    BY <1>0, SampleIs, Bounds DEF TypeOK
  <1> HIDE DEF a
  <1>3. TypeOK'
    <2>1. \A b \in attempts' : IsSample(b)'
      BY <1>0, <1>1, <1>2 DEF TypeOK, IsSample
    <2>2. ledger' \subseteq attempts'
      BY <1>0, <1>1 DEF TypeOK
    <2>3. missed' \in BOOLEAN
      BY <1>1
    <2>4. todo' \in [Threads \cup Sources -> (0 .. now') \cup {Quiet}]
      BY <1>0, <1>1, <1>2 DEF TypeOK
    <2> QED BY <1>0, <1>1, <2>1, <2>2, <2>3, <2>4 DEF TypeOK, HasRows
  <1>4. Tables'
    <2>1. IsFiniteSet(attempts')
      BY <1>0, <1>1, FS_AddElement DEF Tables, HasRows
    <2> QED BY <1>0, <1>1, <2>1 DEF Tables, HasRows
  <1>5. ~AllQuiet'
    <2>1. CASE a.outcome = "cancelled"
      BY <1>1, <2>1 DEF AllQuiet
    <2>2. CASE a.outcome # "cancelled"
      <3>1. todo'[t] = now
        BY <1>0, <1>1, <2>2 DEF TypeOK
      <3>2. now # Quiet
        BY <1>2, Markers
      <3> QED BY <3>1, <3>2 DEF AllQuiet, Quiet, Unknown
    <2> QED BY <2>1, <2>2
  <1>6. Current'
    BY <1>5 DEF Current
  <1>8. LedgerKeeps'
    BY <1>0, <1>1 DEF LedgerKeeps, AttemptOutcomes
  <1>9. IncrementalEqualsFull'
    BY <1>6, CurrentRows, PTL
  <1> QED BY <1>3, <1>4, <1>8, <1>9 DEF ReliabilityInv

\* A refresh writes the rows of the samples there are now.
LEMMA RefreshInv ==
  ASSUME ReliabilityInv, NEW t \in Threads \cup Sources, Refresh(t)
  PROVE  ReliabilityInv'
  <1> DEFINE at == todo[t]
             W  == WindowRows(attempts, feedback, Base, at)
  <1>0. TypeOK /\ Tables /\ LedgerKeeps
    BY DEF ReliabilityInv
  <1>1. /\ UNCHANGED <<now, attempts, selected, feedback, ledger>>
        /\ stats' = [stats EXCEPT ![Base] = [rows |-> W, at |-> at]]
        /\ missed' = FALSE /\ todo' = [todo EXCEPT ![t] = Quiet]
    BY DEF Refresh, RecomputePair
  <1>2. at \in 0 .. now /\ at # Unknown /\ now \in Nat
    BY <1>0, Markers, Bounds DEF TypeOK, Refresh
  <1>3. DOMAIN W = Windows
    BY DEF WindowRows
  <1> HIDE DEF at, W
  <1>6. stats'[Base].rows = W /\ stats'[Base].at = at
    BY <1>0, <1>1, Markers DEF Tables, HasRows
  <1>7. \A s \in Subjects : s # Base => stats'[s] = stats[s]
    BY <1>0, <1>1 DEF Tables, HasRows
  <1>9. TypeOK'
    <2>1. ASSUME NEW s \in Subjects
          PROVE  HasRows(s)' => DOMAIN stats'[s].rows = Windows /\ stats'[s].at <= now'
      <3>1. CASE s = Base
        BY <3>1, <1>0, <1>1, <1>2, <1>3, <1>6 DEF TypeOK, HasRows
      <3>2. CASE s # Base
        BY <3>2, <1>0, <1>1, <1>7 DEF TypeOK, HasRows
      <3> QED BY <3>1, <3>2
    <2>2. todo' \in [Threads \cup Sources -> (0 .. now') \cup {Quiet}]
      BY <1>0, <1>1 DEF TypeOK
    <2>3. missed' \in BOOLEAN
      BY <1>1
    <2>4. \A b \in attempts' : IsSample(b)'
      BY <1>0, <1>1 DEF TypeOK, IsSample
    <2>5. /\ now' \in 0 .. MaxTime /\ ledger' \subseteq attempts' /\ selected' \subseteq Jobs
          /\ \A f \in feedback' : f.job \in Jobs /\ f.source \in Sources /\ f.at \in 0 .. now'
      BY <1>0, <1>1 DEF TypeOK
    <2> QED BY <2>1, <2>2, <2>3, <2>4, <2>5 DEF TypeOK
  <1>10. Tables'
    <2>1. \A s \in Subjects : HasRows(s)' => stats'[s].at \in Nat
      BY <1>0, <1>2, <1>6, <1>7 DEF Tables, HasRows
    <2>2. DOMAIN stats' = Subjects
      BY <1>0, <1>1 DEF Tables
    <2> QED BY <1>0, <1>1, <2>1, <2>2 DEF Tables
  <1>11. Current'
    <2>1. WindowRows(attempts, feedback, Base, stats[Base].at)' = W
      BY <1>1, <1>6 DEF W, WindowRows, AttemptOutcomes, FeedbackOutcomes
    <2> QED BY <1>6, <2>1 DEF Current
  <1>13. LedgerKeeps'
    BY <1>0, <1>1 DEF LedgerKeeps, AttemptOutcomes
  <1>14. IncrementalEqualsFull'
    BY <1>11, CurrentRows, PTL
  <1> QED BY <1>9, <1>10, <1>13, <1>14 DEF ReliabilityInv

\* A refresh fails: the rows stay as they are, and missed says so.
LEMMA RefreshLostInv ==
  ASSUME ReliabilityInv, NEW t \in Threads, RefreshLost(t)
  PROVE  ReliabilityInv'
  <1>0. TypeOK /\ Tables /\ LedgerKeeps
    BY DEF ReliabilityInv
  <1>1. /\ UNCHANGED <<now, attempts, selected, feedback, stats, ledger>>
        /\ missed' = TRUE /\ todo' = [todo EXCEPT ![t] = Quiet]
    BY DEF RefreshLost, RefreshFails
  <1>2. TypeOK'
    <2>1. todo' \in [Threads \cup Sources -> (0 .. now') \cup {Quiet}] /\ missed' \in BOOLEAN
      BY <1>0, <1>1 DEF TypeOK
    <2> QED BY <1>0, <1>1, <2>1 DEF TypeOK, HasRows, IsSample
  <1>3. Tables'
    BY <1>0, <1>1 DEF Tables, HasRows
  <1>4. Current'
    BY <1>1 DEF Current, AllQuiet
  <1>6. LedgerKeeps'
    BY <1>0, <1>1 DEF LedgerKeeps, AttemptOutcomes
  <1>7. IncrementalEqualsFull'
    BY <1>4, CurrentRows, PTL
  <1> QED BY <1>2, <1>3, <1>6, <1>7 DEF ReliabilityInv

\* A verdict on a job with a selected model leaves a refresh to do; one on a
\* job without counts nowhere.
LEMMA RecordFeedbackInv ==
  ASSUME ReliabilityInv, NEW c \in Sources, NEW j \in Jobs, NEW k \in FeedbackKinds,
         RecordFeedback(c, j, k)
  PROVE  ReliabilityInv'
  <1> DEFINE new == [job |-> j, source |-> c, at |-> now,
                     accepted |-> k.accepted, edited |-> k.edited,
                     failed_check |-> k.failed_check, quality |-> k.quality]
  <1>0. TypeOK /\ Tables /\ LedgerKeeps /\ Current
    BY CurrentRows DEF ReliabilityInv
  <1>1. /\ UNCHANGED <<now, attempts, selected, stats, missed, ledger>>
        /\ feedback' = {f \in feedback : f.job # j \/ f.source # c} \cup {new}
        /\ todo[c] = Quiet
        /\ todo' = [todo EXCEPT ![c] = IF j \in selected THEN now ELSE Quiet]
    BY DEF RecordFeedback
  <1>2. new.job = j /\ new.source = c /\ new.at = now /\ now \in Nat
    BY <1>0 DEF TypeOK
  <1> HIDE DEF new
  <1>3. TypeOK'
    <2>1. todo' \in [Threads \cup Sources -> (0 .. now') \cup {Quiet}]
      BY <1>0, <1>1, <1>2 DEF TypeOK
    <2>2. \A f \in feedback' : f.job \in Jobs /\ f.source \in Sources /\ f.at \in 0 .. now'
      BY <1>0, <1>1, <1>2 DEF TypeOK
    <2> QED BY <1>0, <1>1, <2>1, <2>2 DEF TypeOK, HasRows, IsSample
  <1>4. Tables'
    BY <1>0, <1>1 DEF Tables, HasRows
  <1>5. Current'
    <2>1. CASE j \in selected
      <3>1. todo'[c] = now
        BY <1>0, <1>1, <2>1 DEF TypeOK
      <3>2. now # Quiet
        BY <1>2, Markers
      <3> QED BY <3>1, <3>2 DEF Current, AllQuiet, Quiet, Unknown
    <2>2. CASE j \notin selected
      <3>1. FeedbackOutcomes(feedback, Base)' = FeedbackOutcomes(feedback, Base)
        BY <1>1, <1>2, <2>2 DEF FeedbackOutcomes
      <3>2. WindowRows(attempts, feedback, Base, stats[Base].at)'
              = WindowRows(attempts, feedback, Base, stats[Base].at)
        BY <1>1, <3>1 DEF WindowRows, AttemptOutcomes
      <3>3. AllQuiet' => AllQuiet
        BY <1>0, <1>1, <2>2 DEF TypeOK, AllQuiet
      <3> QED BY <1>0, <1>1, <3>2, <3>3 DEF Current, HasRows
    <2> QED BY <2>1, <2>2
  <1>7. LedgerKeeps'
    BY <1>0, <1>1 DEF LedgerKeeps, AttemptOutcomes
  <1>8. IncrementalEqualsFull'
    BY <1>5, CurrentRows, PTL
  <1> QED BY <1>3, <1>4, <1>7, <1>8 DEF ReliabilityInv

\* The rows and the samples stay as they are, and so do the refreshes to come.
LEMMA CurrentKept ==
  ASSUME Current, UNCHANGED <<attempts, selected, feedback, stats, todo, missed>>
  PROVE  Current'
  <1>1. WindowRows(attempts, feedback, Base, stats[Base].at)'
          = WindowRows(attempts, feedback, Base, stats[Base].at)
    BY DEF WindowRows, AttemptOutcomes, FeedbackOutcomes
  <1> QED BY <1>1 DEF Current, AllQuiet, HasRows

\* Time passes, and what was behind the window stays behind it.
LEMMA TickInv ==
  ASSUME ReliabilityInv, Tick
  PROVE  ReliabilityInv'
  <1>0. TypeOK /\ Tables /\ LedgerKeeps /\ Current
    BY CurrentRows DEF ReliabilityInv
  <1>1. /\ UNCHANGED <<attempts, feedback, stats, selected, todo, missed, ledger>>
        /\ now' = now + 1 /\ now < MaxTime
    BY DEF Tick
  <1>2. now \in Nat /\ now' \in 0 .. MaxTime /\ now <= now'
    BY <1>0, <1>1, Bounds DEF TypeOK
  <1>3. TypeOK'
    <2>1. todo' \in [Threads \cup Sources -> (0 .. now') \cup {Quiet}]
      BY <1>0, <1>1, <1>2 DEF TypeOK
    <2>2. \A s \in Subjects : HasRows(s) => stats[s].at \in Int
      BY <1>0 DEF Tables, HasRows
    <2>3. \A s \in Subjects : HasRows(s) => stats[s].at <= now'
      BY <1>0, <1>1, <1>2, <2>2 DEF TypeOK
    <2>4. \A f \in feedback' : f.job \in Jobs /\ f.source \in Sources /\ f.at \in 0 .. now'
      BY <1>0, <1>1, <1>2 DEF TypeOK
    <2> QED BY <1>0, <1>1, <1>2, <2>1, <2>3, <2>4 DEF TypeOK, HasRows, IsSample
  <1>4. Tables'
    BY <1>0, <1>1 DEF Tables, HasRows
  <1>5. Current'
    BY <1>0, <1>1, CurrentKept
  <1>7. LedgerKeeps'
    BY <1>0, <1>1, <1>2, Bounds DEF LedgerKeeps, AttemptOutcomes, TypeOK, IsSample
  <1>8. IncrementalEqualsFull'
    BY <1>5, CurrentRows, PTL
  <1> QED BY <1>3, <1>4, <1>7, <1>8 DEF ReliabilityInv

\* Only samples behind the window are trimmed.
LEMMA TrimInv ==
  ASSUME ReliabilityInv, Trim
  PROVE  ReliabilityInv'
  <1>0. TypeOK /\ Tables /\ LedgerKeeps /\ Current
    BY CurrentRows DEF ReliabilityInv
  <1>1. /\ UNCHANGED <<now, attempts, feedback, stats, selected, todo, missed>>
        /\ ledger' = {a \in ledger : a.at > now - Short}
    BY DEF Trim, Trimmed, Horizon
  <1>2. now \in Nat /\ \A a \in attempts : a.at \in Nat
    BY <1>0 DEF TypeOK, IsSample
  <1>3. TypeOK'
    BY <1>0, <1>1 DEF TypeOK, HasRows, IsSample
  <1>4. Tables'
    BY <1>0, <1>1 DEF Tables, HasRows
  <1>5. Current'
    BY <1>0, <1>1, CurrentKept
  <1>7. LedgerKeeps'
    BY <1>0, <1>1, <1>2, Bounds DEF LedgerKeeps, AttemptOutcomes
  <1>8. IncrementalEqualsFull'
    BY <1>5, CurrentRows, PTL
  <1> QED BY <1>3, <1>4, <1>7, <1>8 DEF ReliabilityInv

\* The invariant holds in every reachable state.
THEOREM Invariance == Spec => []ReliabilityInv
  <1>1. Init => ReliabilityInv
    BY InitInv
  <1>2. ReliabilityInv /\ [Next]_vars => ReliabilityInv'
    <2> SUFFICES ASSUME ReliabilityInv, [Next]_vars PROVE ReliabilityInv'
      OBVIOUS
    <2>1. ASSUME NEW j \in Jobs, Select(j) \/ MoveAway(j) PROVE ReliabilityInv'
      BY <2>1, SelectionInv
    <2>2. ASSUME NEW t \in Threads, NEW k \in AttemptKinds, NEW at \in now .. now + Skew,
                 Persist(t, k, at)
          PROVE  ReliabilityInv'
      BY <2>2, PersistInv
    <2>3. ASSUME NEW t \in Threads \cup Sources, Refresh(t) PROVE ReliabilityInv'
      BY <2>3, RefreshInv
    <2>4. ASSUME NEW t \in Threads, RefreshLost(t) PROVE ReliabilityInv'
      BY <2>4, RefreshLostInv
    <2>5. ASSUME NEW c \in Sources, NEW j \in Jobs, NEW k \in FeedbackKinds,
                 RecordFeedback(c, j, k)
          PROVE  ReliabilityInv'
      BY <2>5, RecordFeedbackInv
    <2>7. CASE Tick
      BY <2>7, TickInv
    <2>8. CASE Trim
      BY <2>8, TrimInv
    <2>9. CASE UNCHANGED vars
      <3>1. UNCHANGED <<now, attempts, selected, feedback, stats, todo, missed, ledger>>
        BY <2>9 DEF vars
      <3>2. TypeOK' /\ Tables' /\ LedgerKeeps'
        BY <3>1 DEF ReliabilityInv, TypeOK, Tables, LedgerKeeps, HasRows, IsSample, AttemptOutcomes
      <3>4. Current'
        BY <3>1, CurrentRows, CurrentKept DEF ReliabilityInv
      <3>5. IncrementalEqualsFull'
        BY <3>4, CurrentRows, PTL
      <3> QED BY <3>2, <3>5 DEF ReliabilityInv
    <2> QED BY <2>1, <2>2, <2>3, <2>4, <2>5, <2>7, <2>8, <2>9 DEF Next
  <1> QED BY <1>1, <1>2, PTL DEF Spec

\* services/reliability.py:7: however the refreshes interleave, once they have
\* all been done the rows of the base are those of a full recomputation.
THEOREM Incremental == Spec => []IncrementalEqualsFull
  <1>1. ReliabilityInv => IncrementalEqualsFull
    BY DEF ReliabilityInv
  <1> QED BY <1>1, Invariance, PTL

-----------------------------------------------------------------------------
(* The ledger and the regression verdict.                                  *)

\* ReliabilityLedger: at no instant from now on does a sample that was
\* trimmed count, so the statistics are those of all samples.
LEMMA LedgerExact ==
  ASSUME ReliabilityInv
  PROVE  LedgerAgrees
  <1> SUFFICES ASSUME NEW t \in now .. MaxTime + Skew
               PROVE  ComputeStats(ledger, {}, "7d", t)
                        = ComputeStats(AttemptOutcomes(attempts, Base), {}, "7d", t)
    BY DEF LedgerAgrees
  <1>1. now \in Nat /\ t \in Nat /\ now <= t /\ \A a \in attempts : a.at \in Nat
    BY Bounds DEF ReliabilityInv, TypeOK, IsSample
  <1>2. \A a \in AttemptOutcomes(attempts, Base) \ ledger : ~InWindow(a.at, "7d", t)
    BY <1>1, Bounds DEF ReliabilityInv, LedgerKeeps, InWindow, Horizon, AttemptOutcomes
  <1>3. InWindowOf(ledger, "7d", t) = InWindowOf(AttemptOutcomes(attempts, Base), "7d", t)
    BY <1>2 DEF ReliabilityInv, LedgerKeeps, InWindowOf
  <1> QED BY <1>3 DEF ComputeStats

\* Counting what a finite set leaves out of another.
LEMMA CountWithout ==
  ASSUME NEW S, IsFiniteSet(S), NEW T, T \subseteq S
  PROVE  /\ IsFiniteSet(S \ T) /\ IsFiniteSet(T)
         /\ Cardinality(S \ T) = Cardinality(S) - Cardinality(T)
         /\ Cardinality(S) \in Nat /\ Cardinality(T) \in Nat
  <1>1. IsFiniteSet(T) /\ S \cap T = T
    BY FS_Subset
  <1> QED BY <1>1, FS_Difference, FS_CardinalityType

\* WindowStats.counted: the attempts of a window that were not cancelled.
LEMMA CountedOf ==
  ASSUME NEW A, IsFiniteSet(A), NEW F
  PROVE  /\ Counted(StatsOf(A, F)) = Cardinality({a \in A : a.outcome # "cancelled"})
         /\ StatsOf(A, F).passes = Cardinality({a \in A : a.outcome = "completed"})
  <1> DEFINE C == {a \in A : a.outcome = "cancelled"}
  <1>1. /\ StatsOf(A, F).attempts = Cardinality(A)
        /\ StatsOf(A, F).cancellations = Cardinality(C)
        /\ StatsOf(A, F).passes = Cardinality({a \in A : a.outcome = "completed"})
    BY DEF StatsOf
  <1>2. A \ C = {a \in A : a.outcome # "cancelled"}
    OBVIOUS
  <1>3. C \subseteq A
    OBVIOUS
  <1> HIDE DEF C
  <1>4. Cardinality(A \ C) = Cardinality(A) - Cardinality(C)
    BY <1>3, CountWithout
  <1> QED BY <1>1, <1>2, <1>4 DEF Counted

\* detect_regression() gets from the counts of two rows the verdict on the
\* attempts those rows were computed from.
LEMMA RegressionFollows ==
  ASSUME NEW S, IsFiniteSet(S), \A a \in S : a.at \in Int, NEW F, NEW G, NEW at \in Int
  PROVE  DetectRegression(StatsOf(InWindowOf(S, "7d", at), F), StatsOf(InWindowOf(S, "all", at), G))
           = RegressionOf(S, at)
  <1> DEFINE W7      == InWindowOf(S, "7d", at)
             WA      == InWindowOf(S, "all", at)
             counted == {a \in S : a.at <= at /\ a.outcome # "cancelled"}
             recent  == {a \in counted : a.at > at - Short}
             before  == counted \ recent
             passed  == {a \in counted : a.outcome = "completed"}
             n       == Cardinality(recent)
             p       == Cardinality(recent \cap passed)
             r7      == StatsOf(W7, F)
             ra      == StatsOf(WA, G)
  <1>1. /\ {a \in W7 : a.outcome # "cancelled"} = recent
        /\ {a \in WA : a.outcome # "cancelled"} = counted
    BY DEF InWindowOf, InWindow, Horizon
  <1>2. /\ {a \in W7 : a.outcome = "completed"} = recent \cap passed
        /\ {a \in WA : a.outcome = "completed"} = passed
    BY DEF InWindowOf, InWindow, Horizon
  <1>3. W7 \subseteq S /\ WA \subseteq S /\ counted \subseteq S
    BY DEF InWindowOf
  <1>4. recent \subseteq counted /\ passed \subseteq counted /\ recent \cap passed \subseteq passed
        /\ passed \ (recent \cap passed) = before \cap passed
    OBVIOUS
  <1>5. RegressionOf(S, at) =
          IF n < MinRegression \/ Cardinality(before) < MinRegression
          THEN "insufficient_samples"
          ELSE IF Regressed(n, p, Cardinality(before), Cardinality(before \cap passed))
          THEN "regressed" ELSE "stable"
    BY DEF RegressionOf
  <1> HIDE DEF W7, WA, counted, recent, passed
  <1>6. IsFiniteSet(W7) /\ IsFiniteSet(WA) /\ IsFiniteSet(counted)
    BY <1>3, FS_Subset
  <1>7. IsFiniteSet(passed)
    BY <1>4, <1>6, FS_Subset
  <1>8. Counted(r7) = n /\ r7.passes = p
    BY <1>1, <1>2, <1>6, CountedOf
  <1>9. Counted(ra) = Cardinality(counted) /\ ra.passes = Cardinality(passed)
    BY <1>1, <1>2, <1>6, CountedOf
  <1>10. Cardinality(before) = Cardinality(counted) - n
    BY <1>4, <1>6, CountWithout
  <1>11. Cardinality(before \cap passed) = Cardinality(passed) - p
    BY <1>4, <1>7, CountWithout
  <1> HIDE DEF r7, ra, n, p, before
  <1>12. DetectRegression(r7, ra) = RegressionOf(S, at)
    BY <1>5, <1>8, <1>9, <1>10, <1>11 DEF DetectRegression
  <1> QED BY <1>12 DEF r7, ra, W7, WA

\* The report's verdict on a regression is that of the attempts themselves.
LEMMA ReportExact ==
  ASSUME ReliabilityInv
  PROVE  RegressionExact
  <1> SUFFICES ASSUME AllQuiet, HasRows(Base)
               PROVE  ReliabilityReport[Base]
                        = RegressionOf(AttemptOutcomes(attempts, Base), stats[Base].at)
    BY DEF RegressionExact
  <1> DEFINE at == stats[Base].at
             S  == AttemptOutcomes(attempts, Base)
             F  == FeedbackOutcomes(feedback, Base)
  <1>1. stats[Base].rows = WindowRows(attempts, feedback, Base, at)
    BY CurrentRows DEF ReliabilityInv, Current
  <1>2. /\ stats[Base].rows["7d"] = StatsOf(InWindowOf(S, "7d", at), InWindowOf(F, "7d", at))
        /\ stats[Base].rows["all"] = StatsOf(InWindowOf(S, "all", at), InWindowOf(F, "all", at))
    BY <1>1 DEF WindowRows, Windows, ComputeStats
  <1>3. IsFiniteSet(S)
    <2>1. S \subseteq attempts
      BY DEF AttemptOutcomes
    <2> QED BY <2>1, FS_Subset DEF ReliabilityInv, Tables
  <1>4. \A a \in S : a.at \in Int
    BY DEF ReliabilityInv, TypeOK, IsSample, AttemptOutcomes
  <1>5. at \in Int
    BY Markers DEF ReliabilityInv, Tables
  <1>6. ReliabilityReport[Base]
          = DetectRegression(stats[Base].rows["7d"], stats[Base].rows["all"])
    BY Markers DEF ReliabilityReport
  <1> HIDE DEF at, S, F
  <1>7. DetectRegression(stats[Base].rows["7d"], stats[Base].rows["all"]) = RegressionOf(S, at)
    BY <1>2, <1>3, <1>4, <1>5, RegressionFollows
  <1> QED BY <1>6, <1>7 DEF at, S

\* compute_stats, ReliabilityLedger, detect_regression: types, the trimmed
\* ledger and the regression verdict from stored counts are exact.
THEOREM Exact == Spec => []StatisticsExact
  <1>1. ReliabilityInv => StatisticsExact
    BY LedgerExact, ReportExact DEF ReliabilityInv, StatisticsExact
  <1> QED BY <1>1, Invariance, PTL
-----------------------------------------------------------------------------
(* percentile().                                                           *)

\* s lists the samples of S by latency.
Sorts(s, S) ==
    /\ s \in Bijection(1 .. Cardinality(S), S)
    /\ \A i, j \in DOMAIN s : i < j => s[i].latency <= s[j].latency

Sortable(S) == \E s : Sorts(s, S)

\* Some natural numbers have a least one.
LEMMA LeastOf ==
  ASSUME NEW N, N \subseteq Nat, N # {}
  PROVE  \E n \in N : \A m \in N : n <= m
  <1>1. PICK n \in N : \A m \in N : ~(<<m, n>> \in OpToRel(<, Nat))
    BY NatLessThanWellFounded, WFMin, Zenon
  <1>2. \A m \in N : ~(m < n)
    BY <1>1 DEF OpToRel
  <1>3. \A m \in N : n <= m
    BY <1>2
  <1> QED BY <1>3

\* Put the quickest in front of the others, sorted.
LEMMA SortStep ==
  ASSUME NEW S, IsFiniteSet(S), S # {}, \A a \in S : a.latency \in Nat,
         \A x \in S : Sortable(S \ {x})
  PROVE  Sortable(S)
  <1> DEFINE N == {a.latency : a \in S}
             n == Cardinality(S)
  <1>1. N \subseteq Nat /\ N # {}
    OBVIOUS
  <1>2. PICK v \in N : \A m \in N : v <= m
    <2> HIDE DEF N
    <2> QED BY <1>1, LeastOf
  <1>3. PICK x \in S : \A a \in S : x.latency <= a.latency
    BY <1>2
  <1> DEFINE T == S \ {x}
  <1>4. IsFiniteSet(T) /\ n \in Nat /\ n >= 1 /\ Cardinality(T) = n - 1
    BY FS_RemoveElement, FS_CardinalityType, FS_EmptySet
  <1>5. PICK f : Sorts(f, T)
    BY DEF Sortable
  <1> HIDE DEF n, N
  <1>6. /\ f \in [1 .. n - 1 -> T]
        /\ \A i, j \in 1 .. n - 1 : f[i] = f[j] => i = j
        /\ \A t \in T : \E i \in 1 .. n - 1 : f[i] = t
        /\ \A i, j \in 1 .. n - 1 : i < j => f[i].latency <= f[j].latency
    BY <1>4, <1>5 DEF Sorts, Bijection, Injection, Surjection, IsInjective
  <1> DEFINE g == [i \in 1 .. n |-> IF i = 1 THEN x ELSE f[i - 1]]
  <1>7. \A i \in 1 .. n : i # 1 => i - 1 \in 1 .. n - 1
    BY <1>4
  <1>8. /\ g \in [1 .. n -> S] /\ g[1] = x
        /\ \A i \in 1 .. n : i # 1 => g[i] = f[i - 1] /\ g[i] \in T
    BY <1>4, <1>6, <1>7
  <1> HIDE DEF g
  <1>9. \A i, j \in 1 .. n : g[i] = g[j] => i = j
    <2> SUFFICES ASSUME NEW i \in 1 .. n, NEW j \in 1 .. n, g[i] = g[j]
                 PROVE  i = j
      OBVIOUS
    <2>1. CASE i = 1 \/ j = 1
      BY <2>1, <1>8
    <2>2. CASE i # 1 /\ j # 1
      <3>1. f[i - 1] = f[j - 1]
        BY <2>2, <1>8
      <3>2. i - 1 = j - 1
        BY <2>2, <1>6, <1>7, <3>1
      <3> QED BY <3>2
    <2> QED BY <2>1, <2>2
  <1>10. \A t \in S : \E i \in 1 .. n : g[i] = t
    <2> SUFFICES ASSUME NEW t \in S PROVE \E i \in 1 .. n : g[i] = t
      OBVIOUS
    <2>1. CASE t = x
      BY <2>1, <1>4, <1>8
    <2>2. CASE t # x
      <3>1. PICK i \in 1 .. n - 1 : f[i] = t
        BY <2>2, <1>6
      <3>2. i + 1 \in 1 .. n /\ i + 1 # 1 /\ (i + 1) - 1 = i
        BY <1>4
      <3>3. g[i + 1] = t
        BY <1>8, <3>1, <3>2
      <3> QED BY <3>2, <3>3
    <2> QED BY <2>1, <2>2
  <1>11. \A i, j \in 1 .. n : i < j => g[i].latency <= g[j].latency
    <2> SUFFICES ASSUME NEW i \in 1 .. n, NEW j \in 1 .. n, i < j
                 PROVE  g[i].latency <= g[j].latency
      OBVIOUS
    <2>1. CASE i = 1
      BY <2>1, <1>3, <1>8
    <2>2. CASE i # 1
      <3>1. j # 1 /\ i - 1 < j - 1
        BY <2>2
      <3> QED BY <2>2, <3>1, <1>6, <1>7, <1>8
    <2> QED BY <2>1, <2>2
  <1>12. DOMAIN g = 1 .. n
    BY <1>8
  <1>13. Sorts(g, S)
    BY <1>8, <1>9, <1>10, <1>11, <1>12 DEF Sorts, Bijection, Injection, Surjection, IsInjective, n
  <1> QED BY <1>13 DEF Sortable

\* Measured samples can be sorted: of the subsets that cannot, a smallest one
\* could.
LEMMA Sorting ==
  ASSUME NEW S, IsFiniteSet(S), \A a \in S : a.latency \in Nat
  PROVE  Sorts(Ordered(S), S)
  <1> DEFINE N == {n \in Nat : \E T \in SUBSET S : Cardinality(T) = n /\ ~Sortable(T)}
  <1>1. Sortable(S)
    <2> SUFFICES ASSUME ~Sortable(S) PROVE FALSE
      OBVIOUS
    <2>1. N \subseteq Nat /\ Cardinality(S) \in N
      BY FS_CardinalityType
    <2>2. PICK n \in N : \A m \in N : n <= m
      <3> HIDE DEF N
      <3> QED BY <2>1, LeastOf
    <2>3. PICK T \in SUBSET S : Cardinality(T) = n /\ ~Sortable(T)
      BY <2>2
    <2>4. IsFiniteSet(T) /\ n \in Nat
      BY <2>1, <2>2, FS_Subset
    <2>5. T # {}
      <3> SUFFICES ASSUME T = {} PROVE FALSE
        OBVIOUS
      <3> DEFINE f == [i \in 1 .. 0 |-> 0]
      <3>1. 1 .. 0 = {} /\ Cardinality({}) = 0
        BY FS_EmptySet
      <3>2. f \in Bijection(1 .. Cardinality({}), {}) /\ DOMAIN f = {}
        BY <3>1 DEF Bijection, Injection, Surjection, IsInjective
      <3> HIDE DEF f
      <3>3. Sorts(f, T)
        BY <3>2 DEF Sorts
      <3> QED BY <2>3, <3>3 DEF Sortable
    <2>6. ASSUME NEW x \in T PROVE Sortable(T \ {x})
      <3>1. Cardinality(T \ {x}) = n - 1 /\ Cardinality(T \ {x}) \in Nat /\ T \ {x} \in SUBSET S
        BY <2>3, <2>4, <2>6, FS_RemoveElement, FS_CardinalityType
      <3>2. n - 1 \notin N
        <4> HIDE DEF N
        <4> QED BY <2>1, <2>2, <2>4
      <3> QED BY <3>1, <3>2
    <2> QED BY <2>3, <2>4, <2>5, <2>6, SortStep
  <1> QED BY <1>1 DEF Sortable, Sorts, Ordered

First(s, k) == {s[i] : i \in 1 .. k}

\* The first k of a list without repetitions are k samples.
LEMMA FirstCount ==
  ASSUME NEW S, NEW n \in Nat, NEW s \in Injection(1 .. n, S), NEW k \in 0 .. n
  PROVE  IsFiniteSet(First(s, k)) /\ Cardinality(First(s, k)) = k
  <1> DEFINE F == {s[i] : i \in 1 .. k}
             f == [i \in 1 .. k |-> s[i]]
  <1>1. s \in [1 .. n -> S] /\ \A i, j \in 1 .. n : s[i] = s[j] => i = j
    BY DEF Injection, IsInjective
  <1>2. 1 .. k \subseteq 1 .. n /\ k \in Nat
    OBVIOUS
  <1>3. f \in [1 .. k -> F]
    OBVIOUS
  <1>4. \A i, j \in 1 .. k : f[i] = f[j] => i = j
    BY <1>1, <1>2
  <1>5. \A t \in F : \E i \in 1 .. k : f[i] = t
    OBVIOUS
  <1>6. DOMAIN f = 1 .. k
    OBVIOUS
  <1> HIDE DEF f, F
  <1>7. f \in Bijection(1 .. k, F)
    BY <1>3, <1>4, <1>5, <1>6 DEF Bijection, Injection, Surjection, IsInjective
  <1>8. IsFiniteSet(1 .. k) /\ Cardinality(1 .. k) = k
    BY <1>2, FS_Interval
  <1>9. IsFiniteSet(F) /\ Cardinality(F) = k
    BY <1>7, <1>8, FS_Bijection DEF ExistsBijection
  <1> QED BY <1>9 DEF F, First

\* The value at the nearest rank: so many samples are within it, and within no
\* smaller one.
LEMMA NearestRank ==
  ASSUME NEW S, IsFiniteSet(S), S # {}, \A a \in S : a.latency \in Nat
  PROVE  LET p == Percentile(S, 95, 100)
             within(v) == 100 * Cardinality({a \in S : a.latency <= v}) >= 95 * Cardinality(S)
         IN  /\ within(p) /\ \E a \in S : a.latency = p
             /\ \A a \in S : a.latency < p => ~within(a.latency)
  <1> DEFINE s == Ordered(S)
             n == Cardinality(S)
             r == (95 * n + 100 - 1) \div 100
             p == s[r].latency
             W(v) == {a \in S : a.latency <= v}
  <1>1. n \in Nat /\ n >= 1
    BY FS_CardinalityType, FS_EmptySet
  <1>2. Sorts(s, S)
    BY Sorting
  <1>3. Percentile(S, 95, 100) = p
    BY DEF Percentile
  <1> HIDE DEF s, n
  <1>4. /\ s \in Injection(1 .. n, S) /\ s \in [1 .. n -> S]
        /\ \A t \in S : \E i \in 1 .. n : s[i] = t
        /\ \A i, j \in 1 .. n : i < j => s[i].latency <= s[j].latency
    BY <1>2 DEF Sorts, Bijection, Injection, Surjection, n
  <1>5. r \in 1 .. n /\ 100 * r >= 95 * n /\ 100 * (r - 1) < 95 * n
    BY <1>1
  <1> HIDE DEF r
  <1>6. s[r] \in S /\ p \in Nat
    BY <1>4, <1>5
  <1>7. ASSUME NEW v PROVE IsFiniteSet(W(v)) /\ Cardinality(W(v)) \in Nat
    <2>1. W(v) \subseteq S
      OBVIOUS
    <2> HIDE DEF W
    <2> QED BY <2>1, FS_Subset, FS_CardinalityType
  <1>8. 100 * Cardinality(W(p)) >= 95 * n
    <2>1. r \in 0 .. n
      BY <1>1, <1>5
    <2>2. IsFiniteSet(First(s, r)) /\ Cardinality(First(s, r)) = r
      BY <1>1, <1>4, <2>1, FirstCount
    <2>3. First(s, r) \subseteq W(p)
      <3> SUFFICES ASSUME NEW i \in 1 .. r PROVE s[i] \in S /\ s[i].latency <= s[r].latency
        BY DEF First
      <3>1. i \in 1 .. n /\ (i < r \/ i = r)
        BY <1>1, <1>5
      <3>2. s[i] \in S /\ s[i].latency \in Nat
        BY <1>4, <3>1
      <3> QED BY <1>4, <1>5, <1>6, <3>1, <3>2
    <2>4. r <= Cardinality(W(p))
      <3>1. IsFiniteSet(W(p))
        BY <1>7
      <3> HIDE DEF W, p
      <3> QED BY <2>2, <2>3, <3>1, FS_Subset
    <2>5. Cardinality(W(p)) \in Nat
      BY <1>7
    <2> HIDE DEF W, p
    <2> QED BY <1>1, <1>5, <2>4, <2>5
  <1>9. ASSUME NEW a \in S, a.latency < p
        PROVE  ~(100 * Cardinality(W(a.latency)) >= 95 * n)
    <2>1. r - 1 \in 0 .. n
      BY <1>1, <1>5
    <2>2. IsFiniteSet(First(s, r - 1)) /\ Cardinality(First(s, r - 1)) = r - 1
      BY <1>1, <1>4, <2>1, FirstCount
    <2>3. W(a.latency) \subseteq First(s, r - 1)
      <3> SUFFICES ASSUME NEW b \in S, b.latency <= a.latency
                   PROVE  \E i \in 1 .. r - 1 : b = s[i]
        BY DEF First
      <3>1. PICK i \in 1 .. n : s[i] = b
        BY <1>4
      <3>2. b.latency < p
        BY <1>6, <1>9
      <3>3. ~(r < i) /\ i # r
        <4>1. b.latency \in Nat
          OBVIOUS
        <4>2. ASSUME r < i PROVE FALSE
          <5>1. p <= b.latency
            BY <1>4, <1>5, <3>1, <4>2
          <5> HIDE DEF p
          <5> QED BY <1>6, <3>2, <4>1, <5>1
        <4>3. ASSUME i = r PROVE FALSE
          BY <1>6, <3>1, <3>2, <4>1, <4>3
        <4> QED BY <4>2, <4>3
      <3>4. i \in 1 .. r - 1
        BY <1>1, <1>5, <3>3
      <3> QED BY <3>1, <3>4
    <2>4. Cardinality(W(a.latency)) <= r - 1
      <3> HIDE DEF W
      <3> QED BY <2>2, <2>3, FS_Subset
    <2>5. Cardinality(W(a.latency)) \in Nat
      BY <1>7
    <2> HIDE DEF W
    <2> QED BY <1>1, <1>5, <2>4, <2>5
  <1> QED BY <1>3, <1>6, <1>8, <1>9 DEF n

\* The p95 of the stored rows, once no refresh is outstanding.
LEMMA P95Exact ==
  ASSUME ReliabilityInv
  PROVE  PercentileExact
  <1> SUFFICES ASSUME HasRows(Base), NEW w \in Windows, stats[Base].rows[w].p95 # Unknown, AllQuiet
               PROVE  LET S == {a \in AttemptOutcomes(attempts, Base) :
                                  InWindow(a.at, w, stats[Base].at) /\ a.latency # Unknown}
                          within(v) == 100 * Cardinality({a \in S : a.latency <= v})
                                         >= 95 * Cardinality(S)
                          p == stats[Base].rows[w].p95
                      IN  /\ within(p) /\ \E a \in S : a.latency = p
                          /\ \A a \in S : a.latency < p => ~within(a.latency)
    BY DEF PercentileExact
  <1> DEFINE at == stats[Base].at
             A  == InWindowOf(AttemptOutcomes(attempts, Base), w, at)
             F  == InWindowOf(FeedbackOutcomes(feedback, Base), w, at)
             S  == {a \in A : a.latency # Unknown}
             p  == stats[Base].rows[w].p95
  <1>1. stats[Base].rows[w] = StatsOf(A, F)
    BY CurrentRows DEF ReliabilityInv, Current, WindowRows, ComputeStats
  <1>2. S = {a \in AttemptOutcomes(attempts, Base) :
               InWindow(a.at, w, stats[Base].at) /\ a.latency # Unknown}
    BY DEF InWindowOf
  <1>3. StatsOf(A, F).p95
          = IF Cardinality(S) < MinPercentile THEN Unknown ELSE Percentile(S, 95, 100)
    BY DEF StatsOf
  <1>4. S \subseteq attempts
    BY DEF InWindowOf, AttemptOutcomes
  <1>5. \A a \in S : a.latency \in Nat
    <2> SUFFICES ASSUME NEW a \in S PROVE a.latency \in Nat
      OBVIOUS
    <2>1. IsSample(a) /\ a.latency # Unknown
      BY <1>4 DEF ReliabilityInv, TypeOK
    <2> QED BY <2>1 DEF IsSample
  <1> HIDE DEF A, F, S, at
  <1>6. IsFiniteSet(S)
    BY <1>4, FS_Subset DEF ReliabilityInv, Tables
  <1>7. p = Percentile(S, 95, 100) /\ S # {}
    <2>1. ~(Cardinality(S) < MinPercentile) /\ p = Percentile(S, 95, 100)
      BY <1>1, <1>3
    <2>2. MinPercentile \in Nat \ {0}
      BY StatsAssumption
    <2> QED BY <2>1, <2>2, FS_EmptySet
  <1> HIDE DEF p
  <1>8. /\ 100 * Cardinality({a \in S : a.latency <= p}) >= 95 * Cardinality(S)
        /\ \E a \in S : a.latency = p
        /\ \A a \in S : a.latency < p =>
              ~(100 * Cardinality({b \in S : b.latency <= a.latency}) >= 95 * Cardinality(S))
    BY <1>5, <1>6, <1>7, NearestRank
  <1> QED BY <1>2, <1>8, Zenon DEF p

-----------------------------------------------------------------------------
(* reliability_factor().                                                   *)

\* The counts compute_stats() gives fit together.
LEMMA CountsOf ==
  ASSUME NEW A, NEW F, IsFiniteSet(A), IsFiniteSet(F)
  PROVE  LET row == StatsOf(A, F)
         IN  /\ Counted(row) \in Nat /\ row.passes \in 0 .. Counted(row)
             /\ row.feedback \in Nat
             /\ row.credit \in IF row.feedback < MinRate THEN {Unknown}
                                                         ELSE 0 .. 2 * row.feedback
  <1> DEFINE row == StatsOf(A, F)
             C == {a \in A : a.outcome # "cancelled"}
             P == {a \in A : a.outcome = "completed"}
             some == {f \in F : AcceptanceCredit(f) >= 1}
             full == {f \in F : AcceptanceCredit(f) = 2}
  <1>1. Counted(row) = Cardinality(C) /\ row.passes = Cardinality(P)
    BY CountedOf
  <1>2. /\ row.feedback = Cardinality(F)
        /\ row.credit = IF Cardinality(F) < MinRate THEN Unknown
                        ELSE Cardinality(some) + Cardinality(full)
    BY DEF StatsOf, Bounded, Credits
  <1>3. C \subseteq A /\ P \subseteq C /\ some \subseteq F /\ full \subseteq F
    OBVIOUS
  <1> HIDE DEF row, C, P, some, full
  <1>4. /\ IsFiniteSet(C) /\ IsFiniteSet(P) /\ IsFiniteSet(some) /\ IsFiniteSet(full)
        /\ Cardinality(P) <= Cardinality(C)
        /\ Cardinality(some) <= Cardinality(F) /\ Cardinality(full) <= Cardinality(F)
    BY <1>3, FS_Subset
  <1>5. /\ Cardinality(C) \in Nat /\ Cardinality(P) \in Nat /\ Cardinality(F) \in Nat
        /\ Cardinality(some) \in Nat /\ Cardinality(full) \in Nat
    BY <1>4, FS_CardinalityType
  <1>6. /\ Counted(row) \in Nat /\ row.passes \in 0 .. Counted(row)
        /\ row.feedback \in Nat
    BY <1>1, <1>2, <1>4, <1>5
  <1>7. row.credit \in IF row.feedback < MinRate THEN {Unknown} ELSE 0 .. 2 * row.feedback
    BY <1>2, <1>4, <1>5
  <1> QED BY <1>6, <1>7 DEF row

\* A row's counts are those of some samples, and stay until the next refresh.
LEMMA CountsFitStep ==
  ASSUME ReliabilityInv, CountsFit, [Next]_vars
  PROVE  CountsFit'
  <1>1. CASE \E t \in Threads \cup Sources : Refresh(t)
    <2>1. PICK t \in Threads \cup Sources : Refresh(t)
      BY <1>1
    <2> DEFINE at == todo[t]
    <2>2. /\ stats' = [stats EXCEPT ![Base] =
                        [rows |-> WindowRows(attempts, feedback, Base, at), at |-> at]]
          /\ feedback' = feedback
      BY <2>1 DEF Refresh, RecomputePair
    <2>3. stats'[Base].rows = WindowRows(attempts, feedback, Base, at)
      BY <2>2, Markers DEF ReliabilityInv, Tables
    <2> SUFFICES ASSUME NEW w \in Windows
                 PROVE  LET row == stats'[Base].rows[w]
                        IN  /\ Counted(row) \in Nat /\ row.passes \in 0 .. Counted(row)
                            /\ row.feedback \in Nat
                            /\ row.credit \in IF row.feedback < MinRate THEN {Unknown}
                                                                        ELSE 0 .. 2 * row.feedback
      BY <2>2 DEF CountsFit, HasRows, Counted
    <2> DEFINE A == InWindowOf(AttemptOutcomes(attempts, Base), w, at)
               F == InWindowOf(FeedbackOutcomes(feedback, Base), w, at)
    <2>4. stats'[Base].rows[w] = StatsOf(A, F)
      BY <2>3 DEF WindowRows, ComputeStats
    <2>5. A \subseteq attempts /\ F \subseteq feedback
      BY DEF InWindowOf, AttemptOutcomes, FeedbackOutcomes
    <2> HIDE DEF A, F
    <2>6. IsFiniteSet(A) /\ IsFiniteSet(F)
      BY <2>5, FS_Subset DEF CountsFit, ReliabilityInv, Tables
    <2> QED BY <2>4, <2>6, CountsOf
  <1>2. CASE \E c \in Sources, j \in Jobs, k \in FeedbackKinds : RecordFeedback(c, j, k)
    <2>1. PICK c \in Sources, j \in Jobs, k \in FeedbackKinds : RecordFeedback(c, j, k)
      BY <1>2
    <2> DEFINE kept == {f \in feedback : f.job # j \/ f.source # c}
               new  == [job |-> j, source |-> c, at |-> now,
                        accepted |-> k.accepted, edited |-> k.edited,
                        failed_check |-> k.failed_check, quality |-> k.quality]
    <2>2. feedback' = kept \cup {new} /\ stats' = stats /\ kept \subseteq feedback
      BY <2>1 DEF RecordFeedback
    <2> HIDE DEF kept, new
    <2>3. IsFiniteSet(feedback')
      <3>1. IsFiniteSet(kept)
        BY <2>2, FS_Subset DEF CountsFit
      <3> QED BY <2>2, <3>1, FS_AddElement
    <2> QED BY <2>2, <2>3 DEF CountsFit, HasRows, Counted
  <1>3. CASE UNCHANGED <<feedback, stats>>
    BY <1>3 DEF CountsFit, HasRows, Counted
  <1>4. ASSUME NEW j \in Jobs, Select(j) \/ MoveAway(j) PROVE UNCHANGED <<feedback, stats>>
    BY <1>4 DEF Select, MoveAway
  <1>5. ASSUME NEW t \in Threads, NEW k \in AttemptKinds, NEW at \in now .. now + Skew,
               Persist(t, k, at)
        PROVE  UNCHANGED <<feedback, stats>>
    BY <1>5 DEF Persist
  <1>6. ASSUME NEW t \in Threads, RefreshLost(t) PROVE UNCHANGED <<feedback, stats>>
    BY <1>6 DEF RefreshLost, RefreshFails
  <1>8. Tick \/ Trim \/ UNCHANGED vars => UNCHANGED <<feedback, stats>>
    BY DEF Tick, Trim, vars
  <1> QED BY <1>1, <1>2, <1>3, <1>4, <1>5, <1>6, <1>8 DEF Next

\* The fraction of a window with counted attempts is between a half and one,
\* and one only where nothing failed and, with enough feedback, all accepted.
LEMMA FactorRange ==
  ASSUME NEW row, Counted(row) \in Nat \ {0}, row.passes \in 0 .. Counted(row),
         row.feedback \in Nat,
         row.credit \in IF row.feedback < MinRate THEN {Unknown} ELSE 0 .. 2 * row.feedback
  PROVE  LET f == FactorOf(row)
         IN  /\ f.den <= 2 * f.num /\ f.num <= f.den
             /\ f.num = f.den <=> /\ row.passes = Counted(row)
                                  /\ row.credit \in {Unknown, 2 * row.feedback}
  <1> DEFINE C == Counted(row)
             P == row.passes
             F == row.feedback
             c == row.credit
             f == FactorOf(row)
  <1>0. C \in Nat /\ C >= 1 /\ P \in Nat /\ P <= C /\ F \in Nat /\ MinRate \in Nat /\ MinRate >= 1
    BY StatsAssumption
  <1>1. CASE F < MinRate
    <2>1. f = [num |-> C + P, den |-> 2 * C] /\ c = Unknown
      BY <1>1 DEF FactorOf
    <2>2. f.num = C + P /\ f.den = 2 * C
      BY <2>1
    <2> HIDE DEF C, P, F, f, c
    <2>3. /\ f.den <= 2 * f.num /\ f.num <= f.den
          /\ f.num = f.den <=> P = C
      BY <1>0, <2>2
    <2> QED BY <2>1, <2>3 DEF C, P, F, f, c
  <1>2. CASE ~(F < MinRate)
    <2>1. f = [num |-> 4 * C * F + P * (2 * F + c), den |-> 8 * C * F] /\ c \in 0 .. 2 * F
      BY <1>2 DEF FactorOf
    <2>2. f.num = 4 * C * F + P * (2 * F + c) /\ f.den = 8 * C * F
      BY <2>1
    <2> HIDE DEF C, P, F, f, c
    <2>3. c \in Nat /\ c <= 2 * F /\ F >= 1 /\ c # Unknown
      BY <1>0, <1>2, <2>1, Markers
    <2> DEFINE q == 2 * F + c
    <2>4. q \in Nat /\ q >= 1 /\ q <= 4 * F
      BY <1>0, <2>3
    <2>5. 4 * C * F \in Nat /\ 8 * C * F = 4 * C * F + 4 * C * F /\ C * (4 * F) = 4 * C * F
      BY <1>0
    <2> HIDE DEF q
    <2>6. P * q \in Nat /\ C * q \in Nat /\ P * q <= C * q /\ C * q <= C * (4 * F)
      BY <1>0, <2>4
    <2>7. P < C => P * q < C * q
      BY <1>0, <2>4
    <2>8. q < 4 * F => C * q < C * (4 * F)
      BY <1>0, <2>4
    <2>9. P * q = C * (4 * F) <=> P = C /\ q = 4 * F
      <3>1. P = C /\ q = 4 * F => P * q = C * (4 * F)
        OBVIOUS
      <3>2. C * (4 * F) \in Nat
        BY <1>0
      <3>3. P * q = C * (4 * F) => ~(P < C) /\ ~(q < 4 * F)
        BY <2>6, <2>7, <2>8, <3>2
      <3> QED BY <1>0, <2>4, <3>1, <3>3
    <2>10. q = 4 * F <=> c = 2 * F
      BY <1>0, <2>3 DEF q
    <2>11. f.num = 4 * C * F + P * q /\ f.den = 4 * C * F + 4 * C * F
      BY <2>2, <2>5 DEF q
    <2>12. /\ f.den <= 2 * f.num /\ f.num <= f.den
           /\ f.num = f.den <=> P * q = C * (4 * F)
      <3> DEFINE X == 4 * C * F
                 Y == P * q
      <3>1. X \in Nat /\ Y \in Nat /\ Y <= X /\ C * (4 * F) = X
        BY <2>5, <2>6
      <3>2. f.num = X + Y /\ f.den = X + X
        BY <2>11
      <3> HIDE DEF X, Y
      <3>3. /\ f.den <= 2 * f.num /\ f.num <= f.den /\ (f.num = f.den <=> Y = X)
        BY <3>1, <3>2
      <3> QED BY <3>1, <3>3 DEF Y
    <2> QED BY <2>3, <2>9, <2>10, <2>12 DEF C, P, F, f, c
  <1> QED BY <1>1, <1>2

\* The factor read from the stored rows, whether or not a refresh is
\* outstanding.
LEMMA FactorIs ==
  ASSUME ReliabilityInv, CountsFit
  PROVE  FactorHonest
  <1> SUFFICES ASSUME HasRows(Base)
               PROVE  LET rows == stats[Base].rows
                          f    == FactorsForTask[Base]
                      IN  /\ f.den <= 2 * f.num /\ f.num <= f.den
                          /\ f.window = None <=>
                                \A w \in {"7d", "30d"} : Counted(rows[w]) < MinFactor
                          /\ f.window # None => (f.num = f.den <=>
                                /\ rows[f.window].passes = Counted(rows[f.window])
                                /\ rows[f.window].credit \in {Unknown, 2 * rows[f.window].feedback})
    BY DEF FactorHonest
  <1> DEFINE rows == stats[Base].rows
             f    == FactorsForTask[Base]
             w    == FactorWindow(rows)
  <1>1. f = ReliabilityFactor(rows)
    BY Markers DEF FactorsForTask
  <1>2. MinFactor \in Nat \ {0} /\ \A v \in Windows : Counted(rows[v]) \in Nat
    BY StatsAssumption DEF CountsFit
  <1>3. /\ w \in {"7d", "30d", None}
        /\ w = None <=> \A v \in {"7d", "30d"} : Counted(rows[v]) < MinFactor
        /\ w # None => Counted(rows[w]) >= MinFactor
    BY <1>2 DEF FactorWindow, None, Windows
  <1> HIDE DEF rows, w
  <1>4. CASE w = None
    <2>1. f = [window |-> None, num |-> 1, den |-> 1]
      BY <1>1, <1>4 DEF ReliabilityFactor, w
    <2>2. f.window = None /\ f.num = 1 /\ f.den = 1
      BY <2>1
    <2> HIDE DEF f
    <2> QED BY <1>3, <1>4, <2>2 DEF f, rows
  <1>5. CASE w # None
    <2> DEFINE row == rows[w]
    <2>1. f = [window |-> w, num |-> FactorOf(row).num, den |-> FactorOf(row).den]
      BY <1>1, <1>5 DEF ReliabilityFactor, w
    <2>2. f.window = w /\ f.num = FactorOf(row).num /\ f.den = FactorOf(row).den
      BY <2>1
    <2>3. /\ Counted(row) \in Nat \ {0} /\ row.passes \in 0 .. Counted(row) /\ row.feedback \in Nat
          /\ row.credit \in IF row.feedback < MinRate THEN {Unknown} ELSE 0 .. 2 * row.feedback
      <3>1. w \in Windows /\ Counted(row) # 0
        BY <1>2, <1>3, <1>5 DEF Windows
      <3> QED BY <1>2, <3>1 DEF CountsFit, rows
    <2> HIDE DEF f, row
    <2>4. /\ f.den <= 2 * f.num /\ f.num <= f.den
          /\ f.num = f.den <=> row.passes = Counted(row) /\ row.credit \in {Unknown, 2 * row.feedback}
      BY <2>2, <2>3, FactorRange
    <2> QED BY <1>3, <1>5, <2>2, <2>4 DEF f, rows, row
  <1> QED BY <1>4, <1>5

\* What routing and the report take from the stored rows means what it says:
\* the factor at every moment, the p95 once no refresh is outstanding.
THEOREM Readings == Spec => []ReadingsHonest
  <1>1. Init => CountsFit
    BY FS_EmptySet, Markers DEF Init, CountsFit, HasRows, NoRows
  <1>2. ReliabilityInv /\ CountsFit /\ [Next]_vars => CountsFit'
    BY CountsFitStep
  <1>3. ReliabilityInv /\ CountsFit => ReadingsHonest
    BY FactorIs, P95Exact DEF ReadingsHonest
  <1> QED BY <1>1, <1>2, <1>3, Invariance, PTL DEF Spec


-----------------------------------------------------------------------------
(* The breaker's columns.                                                  *)

\* The markers are told apart from what they mark, and a refresh at rest has
\* found nothing.
LEMMA MirrorBasics ==
  /\ NoRow # "closed" /\ NoOne \notin Refreshers
  /\ DOMAIN Resting = {"at", "changed"} /\ Resting.at = "idle"
  /\ DOMAIN Resting.changed = {}
  BY MirrorMarkers, MirrorAssumption DEF Resting

\* A row is a pair, and its subject has a breaker.
LEMMA RowSubject ==
  ASSUME NEW w \in Rows
  PROVE  w[1] \in Breakers
  BY MirrorAssumption DEF Rows

\* Before anything has run.
LEMMA MirrorStart ==
  ASSUME MirrorInit
  PROVE  MirrorInv
  <1>1. MirrorTypeOK
    BY MirrorBasics DEF MirrorInit, MirrorTypeOK
  <1>2. WrittenShown /\ AnnotationTrue
    BY DEF MirrorInit, WrittenShown, AnnotationTrue
  <1> QED BY <1>1, <1>2 DEF MirrorInv

\* A refresh that has written nothing yet concerns no row.
LEMMA FindChangedInv ==
  ASSUME MirrorInv, NEW r \in Refreshers, NEW s \in Breakers, NEW v \in Verdicts,
         FindChanged(r, s, v)
  PROVE  MirrorInv'
  <1>1. /\ UNCHANGED <<column, persisted, young, writer, noter>>
        /\ refresh[r].at \in {"idle", "comparing"}
        /\ refresh' = [refresh EXCEPT ![r] =
                         [at |-> "comparing", changed |-> With(refresh[r].changed, s, v)]]
    BY DEF FindChanged
  <1>2. MirrorTypeOK
    BY DEF MirrorInv
  <1>3. refresh'[r].at = "comparing" /\ DOMAIN refresh'[r] = {"at", "changed"}
    BY <1>1, <1>2 DEF MirrorTypeOK
  <1>4. refresh'[r].changed = With(refresh[r].changed, s, v)
    BY <1>1, <1>2 DEF MirrorTypeOK
  <1>5. \A u \in DOMAIN refresh'[r].changed : refresh'[r].changed[u] \in Verdicts
    BY <1>2, <1>4 DEF MirrorTypeOK, With
  <1>6. \A q \in Refreshers : q # r => refresh'[q] = refresh[q]
    BY <1>1, <1>2 DEF MirrorTypeOK
  <1>7. MirrorTypeOK'
    BY <1>1, <1>2, <1>3, <1>5, <1>6 DEF MirrorTypeOK
  <1>8. \A q \in Refreshers : \A u :
           /\ Unnoted(q, u)' <=> Unnoted(q, u)
           /\ Unnoted(q, u) => refresh'[q] = refresh[q]
    BY <1>1, <1>3, <1>6 DEF Unnoted
  <1>9. \A w \in Rows : writer[w[1]] \in Refreshers \cup {NoOne}
    BY <1>2, RowSubject DEF MirrorTypeOK
  <1>10. WrittenShown'
    BY <1>1, <1>8, <1>9 DEF MirrorInv, WrittenShown
  <1>11. AnnotationTrue'
    BY <1>1, <1>8, <1>9, MirrorBasics DEF MirrorInv, AnnotationTrue, Settled
  <1> QED BY <1>7, <1>10, <1>11 DEF MirrorInv

\* The rows of the subjects written show what the writer has still to note.
LEMMA RecordInv ==
  ASSUME MirrorInv, NEW r \in Refreshers, RecordBreakerVerdicts(r)
  PROVE  MirrorInv'
  <1> DEFINE changed == refresh[r].changed
  <1>1. /\ refresh[r].at = "comparing"
        /\ column' = [w \in Rows |-> IF w[1] \in DOMAIN changed /\ column[w] # NoRow
                                     THEN changed[w[1]] ELSE column[w]]
        /\ refresh' = [refresh EXCEPT ![r].at = "written"]
        /\ young' = {w \in young : w[1] \notin DOMAIN changed}
        /\ writer' = [s \in Breakers |-> IF s \in DOMAIN changed THEN r ELSE writer[s]]
        /\ UNCHANGED <<persisted, noter>>
    BY DEF RecordBreakerVerdicts
  <1>2. MirrorTypeOK
    BY DEF MirrorInv
  <1>3. /\ refresh'[r].at = "written" /\ refresh'[r].changed = changed
        /\ DOMAIN refresh'[r] = {"at", "changed"} /\ DOMAIN refresh' = Refreshers
        /\ \A q \in Refreshers : q # r => refresh'[q] = refresh[q]
    BY <1>1, <1>2 DEF MirrorTypeOK
  <1>4. /\ \A s \in DOMAIN changed : changed[s] \in Verdicts
        /\ \A s \in DOMAIN changed : changed[s] # NoRow
    BY <1>2, MirrorMarkers DEF MirrorTypeOK
  <1> HIDE DEF changed
  <1>5. MirrorTypeOK'
    <2>1. writer' \in [Breakers -> Refreshers \cup {NoOne}]
      BY <1>1, <1>2 DEF MirrorTypeOK
    <2>2. DOMAIN column' = Rows /\ young' \subseteq Rows
      BY <1>1, <1>2 DEF MirrorTypeOK
    <2>3. \A q \in Refreshers :
             /\ DOMAIN refresh'[q] = {"at", "changed"}
             /\ refresh'[q].at = "idle" => DOMAIN refresh'[q].changed = {}
             /\ \A s \in DOMAIN refresh'[q].changed : refresh'[q].changed[s] \in Verdicts
      <3> TAKE q \in Refreshers
      <3>1. CASE q = r
        BY <3>1, <1>3, <1>4
      <3>2. CASE q # r
        BY <3>2, <1>2, <1>3 DEF MirrorTypeOK
      <3> QED BY <3>1, <3>2
    <2> QED BY <1>1, <1>2, <1>3, <2>1, <2>2, <2>3 DEF MirrorTypeOK
  <1>6. \A s : s \in DOMAIN changed => Unnoted(r, s)'
    BY <1>3 DEF Unnoted
  <1>7. \A q \in Refreshers, s \in Breakers : s \notin DOMAIN changed =>
           /\ Unnoted(q, s)' <=> Unnoted(q, s)
           /\ Unnoted(q, s) => refresh'[q] = refresh[q]
    BY <1>1, <1>3 DEF Unnoted, changed
  <1>8. ASSUME NEW w \in Rows, column'[w] # NoRow
        PROVE  /\ IF w \in young' THEN column'[w] = "closed"
                  ELSE writer'[w[1]] # NoOne /\ Unnoted(writer[w[1]], w[1])' =>
                          column'[w] = refresh'[writer'[w[1]]].changed[w[1]]
               /\ Settled(w[1])' =>
                    column'[w] = IF w \in young' THEN "closed" ELSE persisted'[w[1]]
    <2>0. w[1] \in Breakers
      BY RowSubject
    <2>1. CASE w[1] \in DOMAIN changed
      <3>1. w \notin young' /\ writer'[w[1]] = r /\ column'[w] = changed[w[1]]
        BY <1>1, <1>8, <2>0, <2>1
      <3>2. ~Settled(w[1])'
        BY <3>1, <1>6, <2>1 DEF Settled
      <3> QED BY <3>1, <3>2, <1>3
    <2>2. CASE w[1] \notin DOMAIN changed
      <3>1. /\ writer'[w[1]] = writer[w[1]] /\ column'[w] = column[w]
            /\ w \in young' <=> w \in young
        BY <1>1, <2>0, <2>2
      <3>2. writer[w[1]] \in Refreshers \cup {NoOne}
        BY <1>2, <2>0 DEF MirrorTypeOK
      <3>3. Settled(w[1])' => Settled(w[1])
        BY <3>1, <3>2, <1>1, <1>7, <2>0, <2>2, MirrorBasics DEF Settled
      <3>4. CASE w \in young
        BY <3>1, <3>4, <1>8 DEF MirrorInv, WrittenShown
      <3>5. CASE w \notin young
        <4>1. Settled(w[1])' => column'[w] = persisted'[w[1]]
          BY <3>1, <3>3, <3>5, <1>1, <1>8 DEF MirrorInv, AnnotationTrue
        <4>2. ASSUME writer'[w[1]] # NoOne, Unnoted(writer[w[1]], w[1])'
              PROVE  column'[w] = refresh'[writer'[w[1]]].changed[w[1]]
          <5>1. Unnoted(writer[w[1]], w[1]) /\ refresh'[writer[w[1]]] = refresh[writer[w[1]]]
            <6>1. writer[w[1]] \in Refreshers
              BY <4>2, <3>1, <3>2
            <6> QED BY <6>1, <4>2, <3>1, <1>7, <2>0, <2>2 DEF Unnoted
          <5> QED BY <5>1, <4>2, <3>1, <3>5, <1>8 DEF MirrorInv, WrittenShown
        <4> QED BY <4>1, <4>2, <3>1, <3>5
      <3> QED BY <3>4, <3>5
    <2> QED BY <2>1, <2>2
  <1>9. WrittenShown' /\ AnnotationTrue'
    BY <1>8 DEF WrittenShown, AnnotationTrue
  <1> QED BY <1>5, <1>9 DEF MirrorInv

\* Nothing was written, and nothing is noted.
LEMMA PersistFailsInv ==
  ASSUME MirrorInv, NEW r \in Refreshers, PersistFails(r)
  PROVE  MirrorInv'
  <1>1. /\ UNCHANGED <<column, persisted, young, writer, noter>>
        /\ refresh[r].at = "comparing" /\ refresh' = [refresh EXCEPT ![r] = Resting]
    BY DEF PersistFails
  <1>2. MirrorTypeOK
    BY DEF MirrorInv
  <1>3. /\ refresh'[r] = Resting
        /\ \A q \in Refreshers : q # r => refresh'[q] = refresh[q]
    BY <1>1, <1>2 DEF MirrorTypeOK
  <1>4. MirrorTypeOK'
    BY <1>1, <1>2, <1>3, MirrorBasics DEF MirrorTypeOK
  <1>5. \A q \in Refreshers : \A u :
           /\ Unnoted(q, u)' <=> Unnoted(q, u)
           /\ Unnoted(q, u) => refresh'[q] = refresh[q]
    BY <1>1, <1>3, MirrorBasics DEF Unnoted
  <1>6. \A w \in Rows : writer[w[1]] \in Refreshers \cup {NoOne}
    BY <1>2, RowSubject DEF MirrorTypeOK
  <1>7. WrittenShown'
    BY <1>1, <1>5, <1>6 DEF MirrorInv, WrittenShown
  <1>8. AnnotationTrue'
    BY <1>1, <1>5, <1>6, MirrorBasics DEF MirrorInv, AnnotationTrue, Settled
  <1> QED BY <1>4, <1>7, <1>8 DEF MirrorInv

\* The last writer notes what its rows show; a slower thread is not it.
LEMMA NoteInv ==
  ASSUME MirrorInv, NEW r \in Refreshers, NEW s \in Breakers, NoteVerdict(r, s)
  PROVE  MirrorInv'
  <1> DEFINE changed == refresh[r].changed
             left    == IF DOMAIN changed = {s} THEN Resting
                        ELSE [at |-> "written", changed |-> Without(changed, s)]
  <1>1. /\ UNCHANGED <<column, young, writer>>
        /\ refresh[r].at = "written" /\ s \in DOMAIN changed
        /\ persisted' = [persisted EXCEPT ![s] = changed[s]]
        /\ refresh' = [refresh EXCEPT ![r] = left]
        /\ noter' = [noter EXCEPT ![s] = r]
    BY DEF NoteVerdict
  <1>2. MirrorTypeOK
    BY DEF MirrorInv
  <1>3. /\ refresh'[r] = left /\ DOMAIN refresh' = Refreshers
        /\ \A q \in Refreshers : q # r => refresh'[q] = refresh[q]
    BY <1>1, <1>2 DEF MirrorTypeOK
  <1>4. /\ DOMAIN left = {"at", "changed"} /\ (left.at = "idle" => DOMAIN left.changed = {})
        /\ DOMAIN left.changed = DOMAIN changed \ {s}
        /\ \A u \in DOMAIN left.changed : left.at = "written" /\ left.changed[u] = changed[u]
    <2>1. CASE DOMAIN changed = {s}
      BY <2>1, MirrorBasics
    <2>2. CASE DOMAIN changed # {s}
      BY <2>2 DEF Without
    <2> QED BY <2>1, <2>2
  <1>5. /\ persisted'[s] = changed[s] /\ noter'[s] = r
        /\ \A u \in Breakers : u # s => persisted'[u] = persisted[u] /\ noter'[u] = noter[u]
    BY <1>1, <1>2 DEF MirrorTypeOK
  <1>6. \A u \in DOMAIN changed : changed[u] \in Verdicts
    BY <1>2 DEF MirrorTypeOK
  <1> HIDE DEF changed, left
  <1>7. MirrorTypeOK'
    <2>1. noter' \in [Breakers -> Refreshers \cup {NoOne}] /\ DOMAIN persisted' = Breakers
      BY <1>1, <1>2 DEF MirrorTypeOK
    <2>2. \A q \in Refreshers :
             /\ DOMAIN refresh'[q] = {"at", "changed"}
             /\ refresh'[q].at = "idle" => DOMAIN refresh'[q].changed = {}
             /\ \A u \in DOMAIN refresh'[q].changed : refresh'[q].changed[u] \in Verdicts
      <3> TAKE q \in Refreshers
      <3>1. CASE q = r
        BY <3>1, <1>3, <1>4, <1>6
      <3>2. CASE q # r
        BY <3>2, <1>2, <1>3 DEF MirrorTypeOK
      <3> QED BY <3>1, <3>2
    <2> QED BY <1>1, <1>2, <1>3, <2>1, <2>2 DEF MirrorTypeOK
  <1>8. ~Unnoted(r, s)' /\ Unnoted(r, s)
    BY <1>1, <1>3, <1>4 DEF Unnoted, changed
  <1>9. \A q \in Refreshers : \A u : q # r \/ u # s =>
           /\ Unnoted(q, u)' <=> Unnoted(q, u)
           /\ Unnoted(q, u) => refresh'[q].changed[u] = refresh[q].changed[u]
    <2> TAKE q \in Refreshers
    <2> TAKE u
    <2>1. CASE q # r
      BY <2>1, <1>3 DEF Unnoted
    <2>2. CASE q = r /\ u # s
      BY <2>2, <1>1, <1>3, <1>4 DEF Unnoted, changed
    <2> QED BY <2>1, <2>2
  <1>10. ASSUME NEW w \in Rows, column'[w] # NoRow
         PROVE  /\ IF w \in young' THEN column'[w] = "closed"
                   ELSE writer'[w[1]] # NoOne /\ Unnoted(writer[w[1]], w[1])' =>
                           column'[w] = refresh'[writer'[w[1]]].changed[w[1]]
                /\ Settled(w[1])' =>
                     column'[w] = IF w \in young' THEN "closed" ELSE persisted'[w[1]]
    <2>0. /\ w[1] \in Breakers /\ writer[w[1]] \in Refreshers \cup {NoOne}
          /\ column'[w] = column[w] /\ column[w] # NoRow /\ writer' = writer /\ young' = young
      BY <1>1, <1>2, <1>10, RowSubject DEF MirrorTypeOK
    <2>1. CASE w \in young
      BY <2>0, <2>1 DEF MirrorInv, WrittenShown
    <2>2. CASE w \notin young
      <3>1. ASSUME writer[w[1]] # NoOne, Unnoted(writer[w[1]], w[1])'
            PROVE  column[w] = refresh'[writer[w[1]]].changed[w[1]]
        <4>1. writer[w[1]] \in Refreshers
          BY <2>0, <3>1
        <4>2. writer[w[1]] # r \/ w[1] # s
          BY <1>8, <3>1, <2>0 DEF Unnoted
        <4>3. /\ Unnoted(writer[w[1]], w[1])
              /\ refresh'[writer[w[1]]].changed[w[1]] = refresh[writer[w[1]]].changed[w[1]]
          BY <1>9, <2>0, <3>1, <4>1, <4>2 DEF Unnoted
        <4> QED BY <4>3, <2>0, <2>2, <3>1 DEF MirrorInv, WrittenShown
      <3>2. ASSUME Settled(w[1])'
            PROVE  column[w] = persisted'[w[1]]
        <4>1. noter'[w[1]] # NoOne /\ noter'[w[1]] = writer[w[1]] /\ ~Unnoted(writer[w[1]], w[1])'
          BY <2>0, <3>2 DEF Settled, Unnoted
        <4>2. CASE w[1] = s
          <5>1. writer[w[1]] = r
            BY <4>1, <4>2, <1>5
          <5>2. r # NoOne /\ Unnoted(writer[w[1]], w[1])
            BY <5>1, <4>2, <1>8, MirrorBasics
          <5>3. column[w] = changed[s]
            BY <5>1, <5>2, <4>2, <2>0, <2>2 DEF MirrorInv, WrittenShown, changed
          <5> QED BY <5>3, <4>2, <1>5
        <4>3. CASE w[1] # s
          <5>1. writer[w[1]] \in Refreshers
            BY <4>1, <2>0
          <5>2. ~Unnoted(writer[w[1]], w[1])
            BY <5>1, <4>1, <4>3, <1>9, <2>0 DEF Unnoted
          <5>3. Settled(w[1])
            BY <5>2, <4>1, <4>3, <1>5, <2>0 DEF Settled
          <5> QED BY <5>3, <4>3, <1>5, <2>0, <2>2 DEF MirrorInv, AnnotationTrue
        <4> QED BY <4>2, <4>3
      <3> QED BY <3>1, <3>2, <2>0, <2>2 DEF Unnoted
    <2> QED BY <2>1, <2>2
  <1>11. WrittenShown' /\ AnnotationTrue'
    BY <1>10 DEF WrittenShown, AnnotationTrue
  <1> QED BY <1>7, <1>11 DEF MirrorInv

\* A new row is young and shows the default; an old one is left alone.
LEMMA RecomputeRowInv ==
  ASSUME MirrorInv, NEW x \in Rows, RecomputeRow(x)
  PROVE  MirrorInv'
  <1>1. /\ UNCHANGED <<persisted, refresh, writer, noter>>
        /\ column' = [column EXCEPT ![x] = IF @ = NoRow THEN "closed" ELSE @]
        /\ young' = IF column[x] = NoRow THEN young \cup {x} ELSE young
    BY DEF RecomputeRow
  <1>2. MirrorTypeOK
    BY DEF MirrorInv
  <1>3. MirrorTypeOK'
    BY <1>1, <1>2 DEF MirrorTypeOK
  <1>4. \A s : Settled(s)' <=> Settled(s)
    BY <1>1 DEF Settled, Unnoted
  <1>5. \A r, s : Unnoted(r, s)' <=> Unnoted(r, s)
    BY <1>1 DEF Unnoted
  <1>6. \A w \in Rows : \/ column'[w] = column[w] /\ column[w] # NoRow /\ (w \in young' <=> w \in young)
                        \/ column'[w] = NoRow
                        \/ column'[w] = "closed" /\ w \in young'
    BY <1>1, <1>2 DEF MirrorTypeOK
  <1>7. WrittenShown'
    BY <1>1, <1>5, <1>6 DEF MirrorInv, WrittenShown, Unnoted
  <1>8. AnnotationTrue'
    BY <1>1, <1>4, <1>6 DEF MirrorInv, AnnotationTrue
  <1> QED BY <1>3, <1>7, <1>8 DEF MirrorInv

\* A new process has noted nothing, and nobody of it has written.
LEMMA RestartedInv ==
  ASSUME MirrorInv, Restarted
  PROVE  MirrorInv'
  <1>1. /\ UNCHANGED <<column, young>>
        /\ persisted' = [s \in Breakers |-> NoVerdict]
        /\ refresh' = [r \in Refreshers |-> Resting]
        /\ writer' = [s \in Breakers |-> NoOne] /\ noter' = [s \in Breakers |-> NoOne]
    BY DEF Restarted
  <1>2. MirrorTypeOK'
    BY <1>1, MirrorBasics DEF MirrorInv, MirrorTypeOK
  <1>3. \A w \in Rows : writer'[w[1]] = NoOne /\ noter'[w[1]] = NoOne
    BY <1>1, RowSubject
  <1>4. WrittenShown'
    BY <1>1, <1>3 DEF MirrorInv, WrittenShown
  <1>5. AnnotationTrue'
    BY <1>3 DEF AnnotationTrue, Settled
  <1> QED BY <1>2, <1>4, <1>5 DEF MirrorInv

\* worker.py:503, record_breaker_verdicts: once the thread that last wrote the
\* rows of a subject has noted what it wrote, and no slower one has noted
\* something else, every row shows the verdict noted, or the default if it was
\* inserted since - whatever is recomputed, fails to be written or restarts.
THEOREM Annotation == MirrorSpec => []AnnotationTrue
  <1>1. MirrorInit => MirrorInv
    BY MirrorStart
  <1>2. MirrorInv /\ [MirrorNext]_mirrorVars => MirrorInv'
    <2> SUFFICES ASSUME MirrorInv, [MirrorNext]_mirrorVars PROVE MirrorInv'
      OBVIOUS
    <2>1. CASE UNCHANGED mirrorVars
      BY <2>1 DEF mirrorVars, MirrorInv, MirrorTypeOK, WrittenShown, AnnotationTrue,
                  Settled, Unnoted
    <2>2. CASE MirrorNext
      BY <2>2, FindChangedInv, RecordInv, PersistFailsInv, NoteInv, RecomputeRowInv,
         RestartedInv DEF MirrorNext
    <2> QED BY <2>1, <2>2
  <1>3. MirrorInv => AnnotationTrue
    BY DEF MirrorInv
  <1> QED BY <1>1, <1>2, <1>3, PTL DEF MirrorSpec
=============================================================================

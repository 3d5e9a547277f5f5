---------------------------- MODULE IntakeProofs ----------------------------
(***************************************************************************)
(* Proofs about Intake, for every number of concurrent requests and every  *)
(* bound.  DepthBounded is inductive once requests past the depth count    *)
(* are added to the jobs they will become: passing the count needs fewer   *)
(* than max_depth active rows, and inserting moves one unit of the sum     *)
(* from one summand to the other.  The share of one caller is bounded by   *)
(* the same argument.  KeyedOnce rests on ages: a key is released only     *)
(* when its time is over, and no request is older than Duration.           *)
(***************************************************************************)
EXTENDS Intake, FiniteSetTheorems, TLAPS

\* The invariant: types, and the sum.
IInv == TypeOK /\ DepthBounded

\* The sets that are counted are finite.
LEMMA Finite ==
  ASSUME TypeOK
  PROVE  /\ IsFiniteSet(Queued) /\ IsFiniteSet(Active) /\ IsFiniteSet(Admitted)
         /\ Cardinality(Queued) <= Cardinality(Active)
         /\ Cardinality(Admitted) <= Cardinality(Submitters)
         /\ Cardinality(Queued) \in Nat /\ Cardinality(Active) \in Nat
         /\ Cardinality(Admitted) \in Nat /\ Cardinality(Submitters) \in Nat
  <1>1. IsFiniteSet(JobIds)
    BY FS_Interval, IntakeAssumption DEF JobIds
  <1>2. Active \in SUBSET JobIds /\ Queued \in SUBSET Active
    BY DEF Active, Queued
  <1>3. IsFiniteSet(Active)
    BY <1>1, <1>2, FS_Subset
  <1>4. IsFiniteSet(Queued) /\ Cardinality(Queued) <= Cardinality(Active)
    BY <1>2, <1>3, FS_Subset
  <1>5. IsFiniteSet(Submitters)
    BY IntakeAssumption
  <1>6. Admitted \in SUBSET Submitters
    BY DEF Admitted
  <1>7. /\ IsFiniteSet(Admitted)
        /\ Cardinality(Admitted) <= Cardinality(Submitters)
    BY <1>5, <1>6, FS_Subset
  <1> QED BY <1>3, <1>4, <1>5, <1>7, FS_CardinalityType

\* A step of one request puts it among those past the count or takes it out.
LEMMA AdmittedAfter ==
  ASSUME TypeOK, NEW s \in Submitters, NEW r,
         sub' = [sub EXCEPT ![s] = r]
  PROVE  /\ r.queued /\ r.pc \in {"count_source", "insert"}
                => Admitted' = Admitted \cup {s}
         /\ ~(r.queued /\ r.pc \in {"count_source", "insert"})
                => Admitted' = Admitted \ {s}
  BY DEF TypeOK, Admitted

\* Rows whose status is kept are counted as before.
LEMMA QueuedKept ==
  ASSUME TypeOK, \A i \in JobIds : jobs'[i].status = jobs[i].status
  PROVE  Queued' = Queued
  BY DEF Queued

\* A request that goes on keeps its other fields and its type.
LEMMA GotoFacts ==
  ASSUME TypeOK, NEW s \in Submitters, NEW pc \in PC \cup {"answer"}, Goto(s, pc)
  PROVE  /\ sub' \in [Submitters -> Request]
         /\ pc \in {"count_source", "insert"} /\ sub[s].queued
                => Admitted' = Admitted \cup {s}
         /\ ~(pc \in {"count_source", "insert"} /\ sub[s].queued)
                => Admitted' = Admitted \ {s}
  <1> DEFINE r == IF pc = "answer" THEN Idle ELSE At(sub[s], pc)
  <1>1. sub[s] \in Request
    BY DEF TypeOK
  <1>2. Idle \in Request
    BY IntakeAssumption DEF Idle, Request, PC
  <1>3. pc # "answer" => At(sub[s], pc) \in Request
    BY <1>1 DEF Request, At
  <1>4. r \in Request
    BY <1>2, <1>3
  <1>5. sub' = [sub EXCEPT ![s] = r]
    BY DEF Goto
  <1>6. sub' \in [Submitters -> Request]
    BY <1>4, <1>5 DEF TypeOK
  <1>7. pc = "answer" => r.queued = FALSE
    BY DEF Idle
  <1>8. pc # "answer" => r.queued = sub[s].queued /\ r.pc = pc
    BY DEF At
  <1>9. /\ r.queued /\ r.pc \in {"count_source", "insert"}
                => Admitted' = Admitted \cup {s}
        /\ ~(r.queued /\ r.pc \in {"count_source", "insert"})
                => Admitted' = Admitted \ {s}
    <2> HIDE DEF r
    <2> QED BY <1>5, AdmittedAfter
  <1> HIDE DEF r
  <1> QED BY <1>6, <1>7, <1>8, <1>9

\* A lookup changes keys and expiries only.
LEMMA LookUpFacts ==
  ASSUME TypeOK, NEW s \in Submitters, NEW miss \in PC, LookUp(s, miss)
  PROVE  /\ jobs' \in [JobIds -> Job] /\ now' = now
         /\ \A i \in JobIds : jobs'[i].status = jobs[i].status
         /\ Goto(s, miss) \/ Goto(s, "answer")
  <1>1. \A i \in JobIds : /\ jobs[i] \in Job /\ Released(jobs[i]) \in Job
                          /\ Released(jobs[i]).status = jobs[i].status
    BY IntakeAssumption DEF TypeOK, Released, Job
  <1>2. jobs \in [JobIds -> Job]
    BY DEF TypeOK
  <1> QED BY <1>1, <1>2 DEF LookUp

\* Taking an element out of a finite set does not make it larger.
LEMMA RemovalFewer ==
  ASSUME NEW S, IsFiniteSet(S), NEW x
  PROVE  Cardinality(S \ {x}) <= Cardinality(S) /\ Cardinality(S \ {x}) \in Nat
  <1>1. S \ {x} \in SUBSET S
    OBVIOUS
  <1> QED BY <1>1, FS_Subset, FS_CardinalityType

\* A step that adds nothing to either summand preserves the bound.
LEMMA NothingAdded ==
  ASSUME IInv, NEW s, Queued' = Queued,
         Admitted' = Admitted \ {s} \/ Admitted' = Admitted
  PROVE  DepthBounded'
  <1>1. /\ Cardinality(Admitted \ {s}) <= Cardinality(Admitted)
        /\ Cardinality(Admitted \ {s}) \in Nat
    BY Finite, RemovalFewer DEF IInv
  <1> QED BY <1>1, Finite, IntakeAssumption DEF IInv, DepthBounded

\* A request arrives: it is past no count yet.
LEMMA ArriveInv ==
  ASSUME IInv, NEW s \in Submitters, NEW source \in Sources,
         NEW key \in Keys \cup {None}, NEW queued \in BOOLEAN,
         Arrive(s, source, key, queued)
  PROVE  IInv'
  <1> DEFINE r == [pc |-> IF key = None THEN Counting(queued) ELSE "lookup",
                   source |-> source, key |-> key, now |-> now,
                   queued |-> queued]
  <1>1. sub' = [sub EXCEPT ![s] = r] /\ UNCHANGED <<jobs, now>>
    BY DEF Arrive
  <1>2. r \in Request /\ ~(r.queued /\ r.pc \in {"count_source", "insert"})
    BY DEF IInv, TypeOK, Request, PC, Counting
  <1>3. TypeOK'
    BY <1>1, <1>2 DEF IInv, TypeOK
  <1>4. Admitted' = Admitted \ {s}
    <2> HIDE DEF r
    <2> QED BY <1>1, <1>2, AdmittedAfter DEF IInv
  <1>5. Queued' = Queued
    BY <1>1 DEF Queued
  <1>6. DepthBounded'
    BY <1>4, <1>5, NothingAdded
  <1> QED BY <1>3, <1>6 DEF IInv

\* A lookup, at either place, adds nothing to the sum.
LEMMA LookUpInv ==
  ASSUME IInv, NEW s \in Submitters, NEW miss \in PC, LookUp(s, miss),
         ~(sub[s].queued /\ miss \in {"count_source", "insert"})
  PROVE  IInv'
  <1>1. /\ jobs' \in [JobIds -> Job] /\ now' = now
        /\ \A i \in JobIds : jobs'[i].status = jobs[i].status
        /\ Goto(s, miss) \/ Goto(s, "answer")
    BY LookUpFacts DEF IInv
  <1>2. Queued' = Queued
    BY <1>1, QueuedKept DEF IInv
  <1>3. sub' \in [Submitters -> Request] /\ Admitted' = Admitted \ {s}
    BY <1>1, GotoFacts DEF IInv
  <1>4. TypeOK'
    BY <1>1, <1>3 DEF IInv, TypeOK
  <1>5. DepthBounded'
    BY <1>2, <1>3, NothingAdded
  <1> QED BY <1>4, <1>5 DEF IInv

\* Passing the depth count needs room for one more job at that instant.
LEMMA CountAllInv ==
  ASSUME IInv, NEW s \in Submitters, CountAll(s)
  PROVE  IInv'
  <1> DEFINE full == Full(Cardinality(Active), MaxDepth)
             pc == IF full THEN "answer"
                   ELSE IF PerSource = 0 THEN "insert" ELSE "count_source"
  <1>1. Goto(s, pc) /\ UNCHANGED <<jobs, now>>
    BY DEF CountAll
  <1>2. pc \in PC \cup {"answer"}
    BY DEF PC
  <1>3. /\ sub' \in [Submitters -> Request]
        /\ Admitted' = Admitted \cup {s} \/ Admitted' = Admitted \ {s}
        /\ full => Admitted' = Admitted \ {s}
    <2>1. full => pc \notin {"count_source", "insert"}
      OBVIOUS
    <2> HIDE DEF pc
    <2> QED BY <1>1, <1>2, <2>1, GotoFacts DEF IInv
  <1>4. TypeOK'
    BY <1>1, <1>3 DEF IInv, TypeOK
  <1>5. Queued' = Queued
    BY <1>1 DEF Queued
  <1>6. CASE Admitted' = Admitted \ {s}
    BY <1>4, <1>5, <1>6, NothingAdded DEF IInv
  <1>7. CASE ~full
    <2>1. Cardinality(Queued) < MaxDepth
      BY <1>7, Finite, IntakeAssumption DEF Full, IInv
    <2>2. /\ Cardinality(Admitted') <= Cardinality(Submitters)
          /\ Cardinality(Admitted') \in Nat
      <3>1. Admitted' \in SUBSET Submitters
        BY DEF Admitted
      <3> QED BY <3>1, FS_Subset, FS_CardinalityType, IntakeAssumption
    <2>3. DepthBounded'
      BY <1>5, <2>1, <2>2, Finite, IntakeAssumption DEF DepthBounded, IInv
    <2> QED BY <1>4, <2>3 DEF IInv
  <1> QED BY <1>3, <1>6, <1>7

\* The per-source count lets a request go on or takes it out.
LEMMA CountSourceInv ==
  ASSUME IInv, NEW s \in Submitters, CountSource(s)
  PROVE  IInv'
  <1> DEFINE pc == IF Full(Cardinality(ActiveOf(sub[s].source)), PerSource)
                   THEN "answer" ELSE "insert"
  <1>1. Goto(s, pc) /\ UNCHANGED <<jobs, now>>
    BY DEF CountSource
  <1>2. pc \in PC \cup {"answer"}
    BY DEF PC
  <1>3. /\ sub' \in [Submitters -> Request]
        /\ \/ Admitted' = Admitted \ {s}
           \/ Admitted' = Admitted \cup {s} /\ sub[s].queued
    <2> HIDE DEF pc
    <2> QED BY <1>1, <1>2, GotoFacts DEF IInv
  <1>4. sub[s].queued => s \in Admitted
    BY DEF CountSource, Admitted
  <1>5. Admitted' = Admitted \ {s} \/ Admitted' = Admitted
    BY <1>3, <1>4
  <1>6. TypeOK'
    BY <1>1, <1>3 DEF IInv, TypeOK
  <1>7. Queued' = Queued
    BY <1>1 DEF Queued
  <1>8. DepthBounded'
    BY <1>5, <1>7, NothingAdded
  <1> QED BY <1>6, <1>8 DEF IInv

\* The row a request inserts, and whether it is a queued one.
LEMMA RowFacts ==
  ASSUME IInv, NEW s \in Submitters
  PROVE  /\ Row(s) \in Job
         /\ sub[s].queued => Row(s).status = "queued"
         /\ ~sub[s].queued => Row(s).status = "sync"
  <1>1. sub[s] \in Request
    BY DEF IInv, TypeOK
  <1>2. sub[s].now \in 0 .. MaxTime /\ sub[s].now + Ttl \in 0 .. MaxTime + Ttl
    BY <1>1, IntakeAssumption DEF Request
  <1> QED BY <1>1, <1>2, IntakeAssumption DEF Row, Job, Request

\* An insert turns a request past the count into a queued job.
LEMMA InsertInv ==
  ASSUME IInv, NEW s \in Submitters, Insert(s)
  PROVE  IInv'
  <1>1. CASE Goto(s, "again") /\ UNCHANGED <<jobs, now>>
    <2>1. sub' \in [Submitters -> Request] /\ Admitted' = Admitted \ {s}
      BY <1>1, GotoFacts DEF IInv, PC
    <2>2. TypeOK' /\ Queued' = Queued
      BY <1>1, <2>1 DEF IInv, TypeOK, Queued
    <2> QED BY <2>1, <2>2, NothingAdded DEF IInv
  <1>2. CASE /\ \E i \in JobIds : jobs[i] = NoJob
                                 /\ jobs' = [jobs EXCEPT ![i] = Row(s)]
             /\ Goto(s, "answer") /\ UNCHANGED now
    <2>1. PICK i \in JobIds : jobs[i] = NoJob
                              /\ jobs' = [jobs EXCEPT ![i] = Row(s)]
      BY <1>2
    <2>2. sub' \in [Submitters -> Request] /\ Admitted' = Admitted \ {s}
      BY <1>2, GotoFacts DEF IInv
    <2>3. TypeOK'
      BY <1>2, <2>1, <2>2, RowFacts DEF IInv, TypeOK
    <2>4. i \notin Queued
      BY <2>1 DEF Queued, NoJob
    <2>5. CASE ~sub[s].queued
      <3>1. Row(s).status = "sync"
        BY <2>5, RowFacts
      <3>2. Queued' = Queued
        BY <2>1, <2>4, <3>1 DEF IInv, TypeOK, Queued
      <3> QED BY <2>2, <2>3, <3>2, NothingAdded DEF IInv
    <2>6. CASE sub[s].queued
      <3>1. Row(s).status = "queued"
        BY <2>6, RowFacts
      <3>2. Queued' = Queued \cup {i}
        BY <2>1, <3>1 DEF IInv, TypeOK, Queued
      <3>3. s \in Admitted
        BY <2>6 DEF Insert, Admitted
      <3>4. Cardinality(Queued') = Cardinality(Queued) + 1
        BY <2>4, <3>2, Finite, FS_AddElement DEF IInv
      <3>5. Cardinality(Admitted') = Cardinality(Admitted) - 1
        BY <2>2, <3>3, Finite, FS_RemoveElement DEF IInv
      <3>6. DepthBounded'
        BY <3>4, <3>5, Finite, IntakeAssumption DEF DepthBounded, IInv
      <3> QED BY <2>3, <3>6 DEF IInv
    <2> QED BY <2>5, <2>6
  <1> QED BY <1>1, <1>2 DEF Insert

\* A finished job is counted no longer.
LEMMA FinishInv ==
  ASSUME IInv, NEW i \in JobIds, Finish(i)
  PROVE  IInv'
  <1>1. jobs' = [jobs EXCEPT ![i] = Ended(jobs[i])] /\ UNCHANGED <<sub, now>>
    BY DEF Finish
  <1>2. Ended(jobs[i]) \in Job /\ Ended(jobs[i]).status = "over"
    BY DEF IInv, TypeOK, Ended, Job
  <1>3. TypeOK'
    BY <1>1, <1>2 DEF IInv, TypeOK
  <1>4. Queued' = Queued \ {i} /\ Admitted' = Admitted
    BY <1>1, <1>2 DEF IInv, TypeOK, Queued, Admitted
  <1>5. Cardinality(Queued') <= Cardinality(Queued) /\ Cardinality(Queued') \in Nat
    BY <1>4, Finite, RemovalFewer DEF IInv
  <1>6. DepthBounded'
    BY <1>4, <1>5, Finite, IntakeAssumption DEF DepthBounded, IInv
  <1> QED BY <1>3, <1>6 DEF IInv

\* The initial states satisfy the invariant.
LEMMA InitInv == Init => IInv
  <1> SUFFICES ASSUME Init PROVE IInv
    OBVIOUS
  <1>1. TypeOK
    BY IntakeAssumption DEF Init, TypeOK, NoJob, Idle, Job, Request, PC
  <1>2. Queued = {} /\ Admitted = {}
    BY DEF Init, Queued, Admitted, NoJob, Idle
  <1>3. DepthBounded
    BY <1>1, <1>2, Finite, FS_EmptySet, IntakeAssumption DEF DepthBounded
  <1> QED BY <1>1, <1>3 DEF IInv

\* Every step preserves the invariant.
LEMMA NextInv == IInv /\ [Next]_vars => IInv'
  <1> SUFFICES ASSUME IInv, [Next]_vars PROVE IInv'
    OBVIOUS
  <1>1. ASSUME NEW s \in Submitters, Step(s) PROVE IInv'
    <2>1. CASE FirstLookUp(s)
      <3>1. Counting(sub[s].queued) \in PC
            /\ ~(/\ sub[s].queued
                 /\ Counting(sub[s].queued) \in {"count_source", "insert"})
        BY DEF Counting, PC
      <3> QED BY <2>1, <3>1, LookUpInv DEF FirstLookUp
    <2>2. CASE SecondLookUp(s)
      BY <2>2, LookUpInv DEF SecondLookUp, PC
    <2> QED BY <1>1, <2>1, <2>2, ArriveInv, CountAllInv, CountSourceInv,
               InsertInv DEF Step
  <1>2. CASE Tick
    <2>1. TypeOK'
      BY <1>2, IntakeAssumption DEF IInv, TypeOK, Tick
    <2>2. Queued' = Queued /\ Admitted' = Admitted
      BY <1>2 DEF Tick, Queued, Admitted
    <2> QED BY <2>1, <2>2 DEF IInv, DepthBounded
  <1>3. CASE UNCHANGED vars
    <2>1. TypeOK' /\ Queued' = Queued /\ Admitted' = Admitted
      BY <1>3 DEF vars, IInv, TypeOK, Queued, Admitted
    <2> QED BY <2>1 DEF IInv, DepthBounded
  <1> QED BY <1>1, <1>2, <1>3, FinishInv DEF Next

\* Types and the bound hold in every reachable state.
THEOREM Invariance == Spec => []IInv
  BY InitInv, NextInv, PTL DEF Spec

\* For every number of concurrent requests, jobs waiting or running from the
\* queue and requests about to insert never pass max_depth by more than the
\* requests that are under way.
THEOREM Depth == Spec => []DepthBounded
  <1>1. IInv => DepthBounded
    BY DEF IInv
  <1> QED BY <1>1, Invariance, PTL

-----------------------------------------------------------------------------
(* Keys.                                                                   *)

\* What a lookup does to the rows and to the request, when it ends the request
\* and when it lets it go on.
LEMMA LookUpSteps ==
  ASSUME TypeOK, NEW s \in Submitters, NEW miss \in PC, LookUp(s, miss)
  PROVE  LET holding == Holding(sub[s].source, sub[s].key) IN
         /\ now' = now
         /\ \A t \in Submitters \ {s} : sub'[t] = sub[t]
         /\ \/ jobs' = jobs /\ sub'[s].pc = "idle"
            \/ /\ \A i \in holding : Expired(i, sub[s].now)
               /\ jobs' = [i \in JobIds |-> IF i \in holding THEN Released(jobs[i])
                                             ELSE jobs[i]]
               /\ sub'[s].pc = miss /\ sub'[s].now = sub[s].now
               /\ sub'[s].source = sub[s].source /\ sub'[s].key = sub[s].key
  <1> DEFINE holding == Holding(sub[s].source, sub[s].key)
             expired == {i \in holding : Expired(i, sub[s].now)}
  <1>1. ASSUME NEW pc, Goto(s, pc)
        PROVE  /\ \A t \in Submitters \ {s} : sub'[t] = sub[t]
               /\ pc = "answer" => sub'[s].pc = "idle"
               /\ pc # "answer" => /\ sub'[s].pc = pc /\ sub'[s].now = sub[s].now
                                   /\ sub'[s].source = sub[s].source
                                   /\ sub'[s].key = sub[s].key
    BY <1>1 DEF Goto, TypeOK, Idle, At
  <1>2. CASE holding # expired /\ Goto(s, "answer") /\ UNCHANGED <<jobs, now>>
    BY <1>1, <1>2
  <1>3. CASE /\ holding = expired
             /\ jobs' = [i \in JobIds |-> IF i \in expired THEN Released(jobs[i])
                                           ELSE jobs[i]]
             /\ Goto(s, miss) /\ UNCHANGED now
    <2>1. miss # "answer"
      BY DEF PC
    <2>2. \A i \in holding : Expired(i, sub[s].now)
      BY <1>3
    <2>3. jobs' = [i \in JobIds |-> IF i \in holding THEN Released(jobs[i])
                                    ELSE jobs[i]]
      <3> HIDE DEF holding, expired
      <3> QED BY <1>3
    <2>4. /\ \A t \in Submitters \ {s} : sub'[t] = sub[t]
          /\ sub'[s].pc = miss /\ sub'[s].now = sub[s].now
          /\ sub'[s].source = sub[s].source /\ sub'[s].key = sub[s].key
      BY <1>1, <1>3, <2>1
    <2> HIDE DEF expired
    <2> QED BY <1>3, <2>2, <2>3, <2>4
  <1> QED BY <1>2, <1>3 DEF LookUp

\* Releasing keys that are over keeps every promise about keys, when no request
\* depends on one of them.
LEMMA ReleaseInv ==
  ASSUME KeyInv, TypeOK', NEW H \in SUBSET JobIds, now' = now,
         jobs' = [i \in JobIds |-> IF i \in H THEN Released(jobs[i]) ELSE jobs[i]],
         \A i \in H : jobs[i].key # None /\ jobs[i].expires <= now
  PROVE  KeyReserved' /\ KeyLife'
  <1>1. \A i \in JobIds : /\ jobs'[i].at = jobs[i].at /\ jobs'[i].source = jobs[i].source
                          /\ jobs'[i].asked = jobs[i].asked
                          /\ i \in H => jobs'[i].key = None
                          /\ i \notin H => jobs'[i] = jobs[i]
    BY DEF Released
  <1>2. KeyReserved'
    BY <1>1 DEF KeyInv, KeyedOnce, KeyReserved
  <1>3. KeyLife'
    BY <1>1 DEF KeyInv, KeyLife
  <1> QED BY <1>2, <1>3

\* An expired row is too old for any request past its lookup to have lost to.
LEMMA YoungWinner ==
  ASSUME KeyInv, NEW s \in Submitters, NEW t \in Submitters,
         sub[s].pc \notin {"idle", "error"},
         sub[t].pc \in {"count", "count_source", "insert", "again"},
         NEW i \in Holding(sub[t].source, sub[t].key)
  PROVE  ~Expired(i, sub[s].now)
  <1>1. i \in JobIds /\ jobs[i].key # None
    BY DEF Holding
  <1>2. sub[t].now <= jobs[i].at + Duration /\ jobs[i].expires = jobs[i].at + Ttl
    BY <1>1 DEF KeyInv, Contended, KeyLife
  <1>3. sub[s].now <= now /\ now <= sub[t].now + Duration
    BY DEF KeyInv, Timely
  <1>4. {jobs[i].at, jobs[i].expires, sub[s].now, sub[t].now, now} \subseteq Nat
    BY <1>1, IntakeAssumption DEF KeyInv, KeyedOnce, TypeOK, Job, Request
  <1> QED BY <1>2, <1>3, <1>4, IntakeAssumption DEF Expired

\* A lookup at either place.
LEMMA LookUpKeys ==
  ASSUME KeyInv, TypeOK', NEW s \in Submitters,
         NEW miss \in {"count", "insert", "error"}, LookUp(s, miss),
         sub[s].pc = "lookup" \/ sub[s].pc = "again",
         miss = "error" => sub[s].pc = "again"
  PROVE  KeyInv'
  <1> DEFINE holding == Holding(sub[s].source, sub[s].key)
  <1>0. TypeOK /\ miss \in PC
    BY DEF KeyInv, KeyedOnce, PC
  <1>1. /\ now' = now
        /\ \A t \in Submitters \ {s} : sub'[t] = sub[t]
        /\ \/ jobs' = jobs /\ sub'[s].pc = "idle"
           \/ /\ \A i \in holding : Expired(i, sub[s].now)
              /\ jobs' = [i \in JobIds |-> IF i \in holding THEN Released(jobs[i])
                                            ELSE jobs[i]]
              /\ sub'[s].pc = miss /\ sub'[s].now = sub[s].now
              /\ sub'[s].source = sub[s].source /\ sub'[s].key = sub[s].key
    BY <1>0, LookUpSteps
  <1>2. CASE jobs' = jobs /\ sub'[s].pc = "idle"
    <2>1. KeyReserved' /\ KeyLife'
      BY <1>1, <1>2 DEF KeyInv, KeyedOnce, KeyReserved, KeyLife
    <2>2. WinnerFound' /\ Timely'
      BY <1>1, <1>2 DEF KeyInv, KeyedOnce, WinnerFound, Timely
    <2>3. Contended'
      BY <1>1, <1>2 DEF KeyInv, Contended, Holding
    <2> QED BY <2>1, <2>2, <2>3 DEF KeyInv, KeyedOnce
  <1>3. CASE /\ \A i \in holding : Expired(i, sub[s].now)
             /\ jobs' = [i \in JobIds |-> IF i \in holding THEN Released(jobs[i])
                                            ELSE jobs[i]]
             /\ sub'[s].pc = miss /\ sub'[s].now = sub[s].now
             /\ sub'[s].source = sub[s].source /\ sub'[s].key = sub[s].key
    <2>1. sub[s].pc = "lookup" /\ miss # "error"
      <3>1. ASSUME sub[s].pc = "again" PROVE FALSE
        <4>1. PICK i \in holding : TRUE
          BY <3>1 DEF KeyInv, Contended
        <4>2. ~Expired(i, sub[s].now)
          BY <3>1, YoungWinner
        <4> QED BY <1>3, <4>1, <4>2
      <3> QED BY <3>1
    <2>2. sub[s].now <= now
      BY <2>1 DEF KeyInv, Timely
    <2>3. /\ holding \in SUBSET JobIds
          /\ \A i \in holding : jobs[i].key # None /\ jobs[i].expires <= now
      <3>1. \A i \in holding : i \in JobIds /\ jobs[i].key # None
        BY DEF Holding
      <3>2. \A i \in JobIds : jobs[i].expires \in Nat
        BY <1>0, IntakeAssumption DEF TypeOK, Job
      <3>3. sub[s].now \in Nat /\ now \in Nat
        BY <1>0, IntakeAssumption DEF TypeOK, Request
      <3> QED BY <1>3, <2>2, <3>1, <3>2, <3>3 DEF Expired
    <2>4. KeyReserved' /\ KeyLife'
      <3> HIDE DEF holding
      <3> QED BY <1>1, <1>3, <2>3, ReleaseInv
    <2>4a. ASSUME NEW i \in JobIds
          PROVE  /\ jobs'[i].at = jobs[i].at
                 /\ jobs'[i].source = jobs[i].source
                 /\ i \notin holding => jobs'[i].key = jobs[i].key
                 /\ i \in holding => jobs'[i].key = None
      <3> HIDE DEF holding
      <3> QED BY <1>3 DEF Released
    <2>5. WinnerFound' /\ Timely'
      BY <1>1, <1>3, <2>1 DEF KeyInv, KeyedOnce, WinnerFound, Timely
    <2>6. Holding(sub[s].source, sub[s].key)' = {}
      <3>1. ASSUME NEW i \in JobIds, sub[s].key # None
            PROVE  ~(jobs'[i].source = sub[s].source /\ jobs'[i].key = sub[s].key)
        <4>1. CASE i \in holding
          BY <2>4a, <3>1, <4>1
        <4>2. CASE i \notin holding
          <5>1. jobs'[i].source = jobs[i].source /\ jobs'[i].key = jobs[i].key
            <6> HIDE DEF holding
            <6> QED BY <2>4a, <4>2
          <5> QED BY <3>1, <4>2, <5>1 DEF Holding
        <4> QED BY <4>1, <4>2
      <3> HIDE DEF holding
      <3> QED BY <1>3, <3>1 DEF Holding
    <2>7. ASSUME NEW t \in Submitters \ {s},
                 sub[t].pc \in {"count", "count_source", "insert", "again"}
          PROVE  Holding(sub[t].source, sub[t].key)' = Holding(sub[t].source, sub[t].key)
      <3>1. ASSUME NEW i \in Holding(sub[t].source, sub[t].key) PROVE i \notin holding
        BY <1>3, <2>1, <2>7, <3>1, YoungWinner
      <3>2. ASSUME NEW i \in JobIds
            PROVE  i \in Holding(sub[t].source, sub[t].key)' <=>
                   i \in Holding(sub[t].source, sub[t].key)
        <4>1. sub'[t] = sub[t]
          BY <1>1, <2>7
        <4>2. CASE i \in holding
          <5>1. i \notin Holding(sub[t].source, sub[t].key)
            BY <3>1, <4>2
          <5>2. jobs'[i].key = None
            BY <2>4a, <4>2
          <5> HIDE DEF holding
          <5> QED BY <5>1, <5>2 DEF Holding
        <4>3. CASE i \notin holding
          <5> HIDE DEF holding
          <5>1. jobs'[i].source = jobs[i].source /\ jobs'[i].key = jobs[i].key
            BY <2>4a, <4>3
          <5> QED BY <4>1, <5>1 DEF Holding
        <4> QED BY <4>2, <4>3
      <3> HIDE DEF holding
      <3> QED BY <3>2 DEF Holding
    <2>8. Contended'
      <3> SUFFICES ASSUME NEW t \in Submitters,
                          sub'[t].pc \in {"count", "count_source", "insert", "again"}
                   PROVE  /\ \A i \in Holding(sub[t].source, sub[t].key)' :
                                sub'[t].now <= jobs'[i].at + Duration
                          /\ sub'[t].pc = "again" => Holding(sub[t].source, sub[t].key)' # {}
        BY DEF Contended
      <3>1. CASE t = s
        BY <1>3, <2>6, <3>1
      <3>2. CASE t # s
        <4>1. sub'[t] = sub[t]
          BY <1>1, <3>2
        <4>2. Holding(sub[t].source, sub[t].key)' = Holding(sub[t].source, sub[t].key)
          BY <2>7, <3>2, <4>1
        <4>3. Holding(sub[t].source, sub[t].key) \subseteq JobIds
          BY DEF Holding
        <4>4. /\ \A i \in Holding(sub[t].source, sub[t].key) :
                     sub[t].now <= jobs[i].at + Duration
              /\ sub[t].pc = "again" => Holding(sub[t].source, sub[t].key) # {}
          BY <4>1 DEF KeyInv, Contended
        <4>5. \A i \in JobIds : jobs'[i].at = jobs[i].at
          BY <2>4a
        <4> HIDE DEF holding
        <4> QED BY <4>1, <4>2, <4>3, <4>4, <4>5
      <3> QED BY <3>1, <3>2
    <2> QED BY <2>4, <2>5, <2>8 DEF KeyInv, KeyedOnce
  <1> QED BY <1>1, <1>2, <1>3

\* The insert: the new row is the only holder of its key, the rows that held it
\* before are over, and whoever competes for it arrived not much later.
LEMMA InsertKeys ==
  ASSUME KeyInv, TypeOK', NEW s \in Submitters, Insert(s)
  PROVE  KeyInv'
  <1>0. TypeOK
    BY DEF KeyInv, KeyedOnce
  <1>1. CASE /\ Holding(sub[s].source, sub[s].key) # {}
             /\ Goto(s, "again") /\ UNCHANGED <<jobs, now>>
    <2>1. /\ sub'[s].pc = "again" /\ sub'[s].now = sub[s].now
          /\ sub'[s].source = sub[s].source /\ sub'[s].key = sub[s].key
          /\ \A t \in Submitters \ {s} : sub'[t] = sub[t]
          /\ sub[s].pc = "insert" /\ UNCHANGED <<jobs, now>>
      BY <1>0, <1>1 DEF Insert, Goto, At, TypeOK
    <2>2. KeyReserved' /\ KeyLife' /\ WinnerFound' /\ Timely'
      BY <2>1 DEF KeyInv, KeyedOnce, KeyReserved, KeyLife, WinnerFound, Timely
    <2>3. Contended'
      BY <1>1, <2>1 DEF KeyInv, Contended, Holding
    <2> QED BY <2>2, <2>3 DEF KeyInv, KeyedOnce
  <1>2. CASE /\ Holding(sub[s].source, sub[s].key) = {}
             /\ \E i \in JobIds : jobs[i] = NoJob
                                 /\ jobs' = [jobs EXCEPT ![i] = Row(s)]
             /\ Goto(s, "answer") /\ UNCHANGED now
    <2>1. PICK i \in JobIds : jobs[i] = NoJob /\ jobs' = [jobs EXCEPT ![i] = Row(s)]
      BY <1>2
    <2>2. /\ sub'[s].pc = "idle" /\ sub[s].pc = "insert" /\ now' = now
          /\ \A t \in Submitters \ {s} : sub'[t] = sub[t]
      BY <1>0, <1>2 DEF Insert, Goto, Idle, TypeOK
    <2>3. /\ jobs'[i].source = sub[s].source /\ jobs'[i].key = sub[s].key
          /\ jobs'[i].asked = sub[s].key
          /\ sub[s].key # None => /\ jobs'[i].at = sub[s].now
                                  /\ jobs'[i].expires = sub[s].now + Ttl
          /\ \A k \in JobIds \ {i} : jobs'[k] = jobs[k]
      BY <1>0, <2>1 DEF Row, TypeOK
    <2>4. sub[s].now <= now /\ now <= sub[s].now + Duration
      BY <2>2 DEF KeyInv, Timely
    <2>5. /\ \A k \in JobIds : jobs[k].at \in Nat
          /\ \A t \in Submitters : sub[t].now \in Nat
          /\ now \in Nat
      BY <1>0, IntakeAssumption DEF TypeOK, Job, Request
    <2>6. ASSUME NEW k \in JobIds, jobs[k].asked = sub[s].key,
                 jobs[k].source = sub[s].source, sub[s].key # None
          PROVE  jobs[k].at + Ttl <= sub[s].now + Duration
      <3>1. jobs[k].key # sub[s].key
        BY <1>2, <2>6 DEF Holding
      <3>2. jobs[k].at + Ttl <= now
        BY <2>6, <3>1 DEF KeyInv, KeyLife
      <3> QED BY <2>4, <2>5, <3>2, IntakeAssumption
    <2>7. KeyReserved'
      <3> SUFFICES ASSUME NEW k \in JobIds, NEW l \in JobIds, k # l,
                          jobs'[k].asked # None, jobs'[k].asked = jobs'[l].asked,
                          jobs'[k].source = jobs'[l].source
                   PROVE  \/ jobs'[k].at + Duration >= jobs'[l].at + Ttl
                          \/ jobs'[l].at + Duration >= jobs'[k].at + Ttl
        BY DEF KeyReserved
      <3>1. CASE k # i /\ l # i
        BY <2>3, <3>1 DEF KeyInv, KeyedOnce, KeyReserved
      <3>2. CASE k = i
        <4>1. jobs'[l] = jobs[l]
          BY <2>3, <3>2
        <4> QED BY <2>3, <2>5, <2>6, <3>2, <4>1, IntakeAssumption
      <3>3. CASE l = i
        <4>1. jobs'[k] = jobs[k]
          BY <2>3, <3>3
        <4> QED BY <2>3, <2>5, <2>6, <3>3, <4>1, IntakeAssumption
      <3> QED BY <3>1, <3>2, <3>3
    <2>8. KeyLife'
      BY <2>2, <2>3 DEF KeyInv, KeyLife
    <2>9. WinnerFound' /\ Timely'
      BY <2>2 DEF KeyInv, KeyedOnce, WinnerFound, Timely
    <2>10. Contended'
      <3> SUFFICES ASSUME NEW t \in Submitters,
                          sub'[t].pc \in {"count", "count_source", "insert", "again"}
                   PROVE  /\ \A k \in Holding(sub[t].source, sub[t].key)' :
                                sub'[t].now <= jobs'[k].at + Duration
                          /\ sub'[t].pc = "again" => Holding(sub[t].source, sub[t].key)' # {}
        BY DEF Contended
      <3>1. t # s /\ sub'[t] = sub[t]
        BY <2>2
      <3>2. sub[t].now <= now
        BY <3>1 DEF KeyInv, Timely
      <3>3. i \notin Holding(sub[t].source, sub[t].key)
        BY <2>1 DEF Holding, NoJob
      <3>4. Holding(sub[t].source, sub[t].key)'
              \in {Holding(sub[t].source, sub[t].key),
                   Holding(sub[t].source, sub[t].key) \cup {i}}
        BY <2>3, <3>1, <3>3 DEF Holding
      <3>5. ASSUME NEW k \in Holding(sub[t].source, sub[t].key)'
            PROVE  sub[t].now <= jobs'[k].at + Duration
        <4>1. CASE k # i
          BY <2>3, <3>1, <3>4, <3>5, <4>1 DEF KeyInv, Contended, Holding
        <4>2. CASE k = i
          <5>1. sub[s].key # None
            BY <2>3, <3>5, <4>2 DEF Holding
          <5> QED BY <2>3, <2>4, <2>5, <3>2, <4>2, <5>1, IntakeAssumption
        <4> QED BY <4>1, <4>2
      <3>6. sub[t].pc = "again" => Holding(sub[t].source, sub[t].key) # {}
        BY DEF KeyInv, Contended
      <3> QED BY <3>1, <3>4, <3>5, <3>6
    <2> QED BY <2>7, <2>8, <2>9, <2>10 DEF KeyInv, KeyedOnce
  <1> QED BY <1>1, <1>2 DEF Insert

\* A request arrives, or passes a count.
LEMMA RequestKeys ==
  ASSUME KeyInv, TypeOK', NEW s \in Submitters, UNCHANGED <<jobs, now>>,
         \/ \E source \in Sources, key \in Keys \cup {None}, queued \in BOOLEAN :
               Arrive(s, source, key, queued)
         \/ CountAll(s) \/ CountSource(s)
  PROVE  KeyInv'
  <1>0. TypeOK
    BY DEF KeyInv, KeyedOnce
  <1>1. /\ \A t \in Submitters \ {s} : sub'[t] = sub[t]
        /\ \/ sub'[s].now = now /\ sub'[s].pc = "lookup"
           \/ /\ sub'[s].now = now /\ sub'[s].pc \in {"count", "insert"}
              /\ sub'[s].key = None
           \/ sub'[s].pc = "idle"
           \/ /\ sub[s].pc \in {"count", "count_source"}
              /\ sub'[s].pc \in {"insert", "count_source"}
              /\ sub'[s].now = sub[s].now /\ sub'[s].source = sub[s].source
              /\ sub'[s].key = sub[s].key
    BY <1>0 DEF Arrive, Counting, CountAll, CountSource, Goto, At, Idle, TypeOK
  <1>2. KeyReserved' /\ KeyLife' /\ WinnerFound'
    BY <1>1 DEF KeyInv, KeyedOnce, KeyReserved, KeyLife, WinnerFound
  <1>3. Timely'
    <2>1. now \in Nat
      BY <1>0, IntakeAssumption DEF TypeOK
    <2> QED BY <1>1, <2>1, IntakeAssumption DEF KeyInv, Timely
  <1>4. Contended'
    <2>1. ASSUME NEW t \in Submitters, sub'[t].source = sub[t].source, sub'[t].key = sub[t].key
          PROVE  Holding(sub[t].source, sub[t].key)' = Holding(sub[t].source, sub[t].key)
      BY <2>1 DEF Holding
    <2>2. sub'[s].key = None => Holding(sub[s].source, sub[s].key)' = {}
      BY DEF Holding
    <2> QED BY <1>1, <2>1, <2>2 DEF KeyInv, Contended
  <1> QED BY <1>2, <1>3, <1>4 DEF KeyInv, KeyedOnce

\* Every step preserves the promises about keys.
LEMMA KeyStep ==
  ASSUME IInv', KeyInv, [Next]_vars
  PROVE  KeyInv'
  <1>0. TypeOK' /\ TypeOK
    BY DEF IInv, KeyInv, KeyedOnce
  <1>1. ASSUME NEW s \in Submitters, Step(s) PROVE KeyInv'
    <2>1. CASE FirstLookUp(s)
      BY <1>0, <2>1, LookUpKeys DEF FirstLookUp, Counting
    <2>2. CASE SecondLookUp(s)
      BY <1>0, <2>2, LookUpKeys DEF SecondLookUp
    <2>3. CASE \/ \E source \in Sources, key \in Keys \cup {None}, queued \in BOOLEAN :
                    Arrive(s, source, key, queued)
               \/ CountAll(s) \/ CountSource(s)
      <3>1. UNCHANGED <<jobs, now>>
        BY <2>3 DEF Arrive, CountAll, CountSource
      <3> QED BY <1>0, <2>3, <3>1, RequestKeys
    <2> QED BY <1>0, <1>1, <2>1, <2>2, <2>3, InsertKeys DEF Step
  <1>2. ASSUME NEW i \in JobIds, Finish(i) PROVE KeyInv'
    <2>1. /\ UNCHANGED <<sub, now>>
          /\ \A k \in JobIds : /\ jobs'[k].source = jobs[k].source
                                /\ jobs'[k].key = jobs[k].key
                                /\ jobs'[k].expires = jobs[k].expires
                                /\ jobs'[k].asked = jobs[k].asked
                                /\ jobs'[k].at = jobs[k].at
      BY <1>0, <1>2 DEF Finish, Ended, TypeOK
    <2>2. KeyReserved' /\ KeyLife' /\ WinnerFound' /\ Timely'
      BY <2>1 DEF KeyInv, KeyedOnce, KeyReserved, KeyLife, WinnerFound, Timely
    <2>3. Contended'
      BY <2>1 DEF KeyInv, Contended, Holding
    <2> QED BY <1>0, <2>2, <2>3 DEF KeyInv, KeyedOnce
  <1>3. CASE Tick
    <2>1. KeyReserved' /\ WinnerFound' /\ Contended'
      BY <1>3 DEF Tick, KeyInv, KeyedOnce, KeyReserved, WinnerFound, Contended,
                  Holding
    <2>2. KeyLife' /\ Timely'
      <3>1. /\ \A k \in JobIds : jobs[k].at \in Nat
            /\ \A t \in Submitters : sub[t].now \in Nat
            /\ now \in Nat
        BY <1>0, IntakeAssumption DEF TypeOK, Job, Request
      <3> QED BY <1>3, <3>1, IntakeAssumption DEF Tick, KeyInv, KeyLife, Timely
    <2> QED BY <1>0, <2>1, <2>2 DEF KeyInv, KeyedOnce
  <1>4. CASE UNCHANGED vars
    BY <1>0, <1>4 DEF vars, KeyInv, KeyedOnce, KeyReserved, WinnerFound,
                      KeyLife,
       Timely, Contended, Holding
  <1> QED BY <1>1, <1>2, <1>3, <1>4 DEF Next

\* Within its time an idempotency key names one job of a caller, whichever
\* requests race for it, queued or synchronous, and the loser of a race always
\* finds the winner's row (existing_job_for_key: "the row that won cannot have
\* vanished"): for any number of requests, callers and keys, as long as a key
\* lives longer than two requests take.
THEOREM Keyed == Spec => []KeyedOnce
  <1>1. Init => KeyInv
    <2> SUFFICES ASSUME Init PROVE KeyInv
      OBVIOUS
    <2>1. TypeOK
      BY InitInv DEF IInv
    <2>2. /\ \A i \in JobIds : jobs[i].key = None /\ jobs[i].asked = None
          /\ \A s \in Submitters : sub[s].pc = "idle"
      BY DEF Init, NoJob, Idle
    <2> QED BY <2>1, <2>2 DEF KeyInv, KeyedOnce, KeyReserved, WinnerFound,
                              KeyLife, Timely, Contended
  <1>2. IInv' /\ KeyInv /\ [Next]_vars => KeyInv'
    BY KeyStep
  <1>3. KeyInv => KeyedOnce
    BY DEF KeyInv
  <1> QED BY <1>1, <1>2, <1>3, Invariance, PTL DEF Spec

-----------------------------------------------------------------------------
(* The share of one caller.                                                *)

\* The sets that are counted for one caller are finite.
LEMMA ShareFinite ==
  ASSUME TypeOK, NEW source
  PROVE  /\ IsFiniteSet(QueuedOf(source)) /\ IsFiniteSet(PassedOf(source))
         /\ Cardinality(QueuedOf(source)) <= Cardinality(ActiveOf(source))
         /\ Cardinality(QueuedOf(source)) \in Nat
         /\ Cardinality(ActiveOf(source)) \in Nat
         /\ Cardinality(PassedOf(source)) \in Nat
  <1>1. ActiveOf(source) \in SUBSET Active /\ QueuedOf(source) \in SUBSET ActiveOf(source)
    BY DEF ActiveOf, QueuedOf, Active, Queued
  <1>2. IsFiniteSet(ActiveOf(source))
    BY <1>1, Finite, FS_Subset
  <1>3. /\ IsFiniteSet(QueuedOf(source))
        /\ Cardinality(QueuedOf(source)) <= Cardinality(ActiveOf(source))
    BY <1>1, <1>2, FS_Subset
  <1>4. PassedOf(source) \in SUBSET Submitters
    BY DEF PassedOf
  <1>5. IsFiniteSet(PassedOf(source))
    BY <1>4, FS_Subset, IntakeAssumption
  <1> QED BY <1>2, <1>3, <1>5, FS_CardinalityType

\* What one step can do to the share of a caller: nothing new, a request of
\* its own becomes a job, or one passes the count while there is room.
ShareMoves(source) ==
    \/ QueuedOf(source)' \subseteq QueuedOf(source) /\ PassedOf(source)' \subseteq PassedOf(source)
    \/ \E s \in PassedOf(source), i \in JobIds \ QueuedOf(source) :
          /\ QueuedOf(source)' = QueuedOf(source) \cup {i}
          /\ PassedOf(source)' = PassedOf(source) \ {s}
    \/ /\ Cardinality(ActiveOf(source)) < PerSource
       /\ QueuedOf(source)' = QueuedOf(source)

\* Each of those keeps the caller's sum within its bound.
LEMMA ShareKept ==
  ASSUME TypeOK, PerSource > 0, NEW source, ShareMoves(source),
         Cardinality(QueuedOf(source)) + Cardinality(PassedOf(source))
            < PerSource + Cardinality(Submitters)
  PROVE  (Cardinality(QueuedOf(source)) + Cardinality(PassedOf(source))
            < PerSource + Cardinality(Submitters))'
  <1> DEFINE Q == QueuedOf(source)
             P == PassedOf(source)
             A == ActiveOf(source)
             q == QueuedOf(source)'
             p == PassedOf(source)'
  <1>1. /\ IsFiniteSet(Q) /\ IsFiniteSet(P) /\ Cardinality(Q) <= Cardinality(A)
        /\ Cardinality(Q) \in Nat /\ Cardinality(A) \in Nat /\ Cardinality(P) \in Nat
    BY ShareFinite
  <1>2. Cardinality(Submitters) \in Nat /\ PerSource \in Nat
    BY FS_CardinalityType, IntakeAssumption
  <1>3. p \in SUBSET Submitters
    BY DEF PassedOf
  <1>4. /\ IsFiniteSet(p) /\ Cardinality(p) \in Nat
        /\ Cardinality(p) <= Cardinality(Submitters)
    BY <1>3, FS_Subset, FS_CardinalityType, IntakeAssumption
  <1>5. \/ q \subseteq Q /\ p \subseteq P
        \/ \E s \in P, i \in JobIds \ Q : q = Q \cup {i} /\ p = P \ {s}
        \/ Cardinality(A) < PerSource /\ q = Q
    BY DEF ShareMoves
  <1>6. Cardinality(Q) + Cardinality(P) < PerSource + Cardinality(Submitters)
    OBVIOUS
  <1> SUFFICES Cardinality(q) + Cardinality(p) < PerSource + Cardinality(Submitters)
    OBVIOUS
  <1> HIDE DEF Q, P, A, q, p
  <1>7. CASE q \subseteq Q /\ p \subseteq P
    <2>1. Cardinality(q) <= Cardinality(Q) /\ Cardinality(p) <= Cardinality(P)
      BY <1>1, <1>7, FS_Subset
    <2>2. Cardinality(q) \in Nat
      BY <1>1, <1>7, FS_Subset, FS_CardinalityType
    <2> QED BY <1>1, <1>2, <1>4, <1>6, <2>1, <2>2
  <1>8. CASE \E s \in P, i \in JobIds \ Q : q = Q \cup {i} /\ p = P \ {s}
    <2>1. PICK s \in P, i \in JobIds \ Q : q = Q \cup {i} /\ p = P \ {s}
      BY <1>8
    <2>2. Cardinality(q) = Cardinality(Q) + 1
      BY <1>1, <2>1, FS_AddElement
    <2>3. Cardinality(p) = Cardinality(P) - 1
      BY <1>1, <2>1, FS_RemoveElement
    <2> QED BY <1>1, <1>2, <1>6, <2>2, <2>3
  <1>9. CASE Cardinality(A) < PerSource /\ q = Q
    BY <1>1, <1>2, <1>4, <1>9
  <1> QED BY <1>5, <1>7, <1>8, <1>9

\* A request that goes on is past both counts only if it goes to its insert.
LEMMA PassedAfter ==
  ASSUME TypeOK, NEW s \in Submitters, NEW source, NEW r, sub' = [sub EXCEPT ![s] = r]
  PROVE  /\ PassedOf(source)' \subseteq PassedOf(source) \cup {s}
         /\ ~(r.queued /\ r.pc = "insert" /\ r.source = source)
               => PassedOf(source)' = PassedOf(source) \ {s}
  BY DEF TypeOK, PassedOf

\* The same for the places a request goes to.
LEMMA PassedGoto ==
  ASSUME TypeOK, NEW s \in Submitters, NEW source, NEW pc, Goto(s, pc),
         pc = "insert" => ~sub[s].queued \/ sub[s].source # source
  PROVE  PassedOf(source)' = PassedOf(source) \ {s}
  <1> DEFINE r == IF pc = "answer" THEN Idle ELSE At(sub[s], pc)
  <1>1. sub' = [sub EXCEPT ![s] = r]
    BY DEF Goto
  <1>2. ~(r.queued /\ r.pc = "insert" /\ r.source = source)
    BY DEF Idle, At
  <1> HIDE DEF r
  <1> QED BY <1>1, <1>2, PassedAfter

\* A step of one request.
LEMMA RequestShare ==
  ASSUME IInv, PerSource > 0, NEW s \in Submitters, Step(s), NEW source \in Sources
  PROVE  ShareMoves(source)
  <1>0. TypeOK
    BY DEF IInv
  <1> USE <1>0
  <1>1. ASSUME NEW f \in Sources, NEW key \in Keys \cup {None}, NEW queued \in BOOLEAN,
               Arrive(s, f, key, queued)
        PROVE  ShareMoves(source)
    <2> DEFINE r == [pc |-> IF key = None THEN Counting(queued) ELSE "lookup",
                     source |-> f, key |-> key, now |-> now, queued |-> queued]
    <2>1. sub' = [sub EXCEPT ![s] = r] /\ jobs' = jobs
      BY <1>1 DEF Arrive
    <2>2. ~(r.queued /\ r.pc = "insert" /\ r.source = source)
      BY DEF Counting
    <2>3. PassedOf(source)' = PassedOf(source) \ {s}
      <3> HIDE DEF r
      <3> QED BY <2>1, <2>2, PassedAfter
    <2>4. QueuedOf(source)' = QueuedOf(source)
      BY <2>1 DEF QueuedOf, Queued
    <2> QED BY <2>3, <2>4 DEF ShareMoves
  <1>2. ASSUME NEW miss \in PC, LookUp(s, miss), miss = "insert" => ~sub[s].queued
        PROVE  ShareMoves(source)
    <2>1. /\ \A i \in JobIds : jobs'[i].status = jobs[i].status
          /\ Goto(s, miss) \/ Goto(s, "answer")
      BY <1>2, LookUpFacts
    <2>2. PassedOf(source)' = PassedOf(source) \ {s}
      BY <1>2, <2>1, PassedGoto
    <2>3. \A i \in JobIds : jobs'[i].source = jobs[i].source
      BY <1>2 DEF LookUp, Released
    <2>4. QueuedOf(source)' = QueuedOf(source)
      BY <2>1, <2>3 DEF QueuedOf, Queued
    <2> QED BY <2>2, <2>4 DEF ShareMoves
  <1>3. CASE FirstLookUp(s) \/ SecondLookUp(s)
    BY <1>2, <1>3 DEF FirstLookUp, SecondLookUp, Counting, PC
  <1>4. CASE CountAll(s)
    <2> DEFINE pc == IF Full(Cardinality(Active), MaxDepth) THEN "answer"
                     ELSE IF PerSource = 0 THEN "insert" ELSE "count_source"
    <2>1. Goto(s, pc) /\ jobs' = jobs
      BY <1>4 DEF CountAll
    <2>2. pc # "insert"
      BY IntakeAssumption
    <2>3. PassedOf(source)' = PassedOf(source) \ {s}
      <3> HIDE DEF pc
      <3> QED BY <2>1, <2>2, PassedGoto
    <2>4. QueuedOf(source)' = QueuedOf(source)
      BY <2>1 DEF QueuedOf, Queued
    <2> QED BY <2>3, <2>4 DEF ShareMoves
  <1>5. CASE CountSource(s)
    <2> DEFINE full == Full(Cardinality(ActiveOf(sub[s].source)), PerSource)
               pc == IF full THEN "answer" ELSE "insert"
    <2>1. Goto(s, pc) /\ jobs' = jobs
      BY <1>5 DEF CountSource
    <2>2. QueuedOf(source)' = QueuedOf(source)
      BY <2>1 DEF QueuedOf, Queued
    <2>3. CASE full \/ sub[s].source # source
      <3>1. pc = "insert" => sub[s].source # source
        BY <2>3
      <3>2. PassedOf(source)' = PassedOf(source) \ {s}
        <4> HIDE DEF pc
        <4> QED BY <2>1, <3>1, PassedGoto
      <3> QED BY <2>2, <3>2 DEF ShareMoves
    <2>4. CASE ~full /\ sub[s].source = source
      <3>1. Cardinality(ActiveOf(source)) < PerSource
        BY <2>4, ShareFinite, IntakeAssumption DEF Full
      <3> QED BY <2>2, <3>1 DEF ShareMoves
    <2> QED BY <2>3, <2>4
  <1>6. CASE Insert(s)
    <2>1. CASE Goto(s, "again") /\ jobs' = jobs
      <3>1. PassedOf(source)' = PassedOf(source) \ {s}
        BY <2>1, PassedGoto
      <3>2. QueuedOf(source)' = QueuedOf(source)
        BY <2>1 DEF QueuedOf, Queued
      <3> QED BY <3>1, <3>2 DEF ShareMoves
    <2>2. CASE /\ \E i \in JobIds : jobs[i] = NoJob
                                   /\ jobs' = [jobs EXCEPT ![i] = Row(s)]
               /\ Goto(s, "answer")
      <3>1. PICK i \in JobIds : jobs[i] = NoJob
                                /\ jobs' = [jobs EXCEPT ![i] = Row(s)]
        BY <2>2
      <3>2. PassedOf(source)' = PassedOf(source) \ {s}
        BY <2>2, PassedGoto
      <3>3. i \notin QueuedOf(source)
        BY <3>1 DEF QueuedOf, Queued, NoJob
      <3>4. /\ Row(s).source = sub[s].source
            /\ Row(s).status = "queued" <=> sub[s].queued
        BY RowFacts DEF Row, IInv, TypeOK, Request
      <3>5. CASE sub[s].queued /\ sub[s].source = source
        <4>1. QueuedOf(source)' = QueuedOf(source) \cup {i}
          BY <3>1, <3>4, <3>5 DEF QueuedOf, Queued, TypeOK
        <4>2. s \in PassedOf(source)
          BY <1>6, <3>5 DEF Insert, PassedOf
        <4> QED BY <3>2, <3>3, <4>1, <4>2 DEF ShareMoves
      <3>6. CASE ~(sub[s].queued /\ sub[s].source = source)
        <4>1. QueuedOf(source)' = QueuedOf(source)
          BY <3>1, <3>3, <3>4, <3>6 DEF QueuedOf, Queued, TypeOK
        <4> QED BY <3>2, <4>1 DEF ShareMoves
      <3> QED BY <3>5, <3>6
    <2> QED BY <1>6, <2>1, <2>2 DEF Insert
  <1> QED BY <1>1, <1>3, <1>4, <1>5, <1>6 DEF Step

\* Every step preserves the bound of every caller.
LEMMA ShareStep ==
  ASSUME IInv, ShareInv, [Next]_vars
  PROVE  ShareInv'
  <1> SUFFICES ASSUME PerSource > 0, NEW source \in Sources
               PROVE  (Cardinality(QueuedOf(source)) + Cardinality(PassedOf(source))
                         < PerSource + Cardinality(Submitters))'
    BY DEF ShareInv
  <1>0. TypeOK
    BY DEF IInv
  <1>1. ShareMoves(source)
    <2>1. CASE \E s \in Submitters : Step(s)
      BY <2>1, RequestShare
    <2>2. CASE \E i \in JobIds : Finish(i)
      <3>1. PICK i \in JobIds : Finish(i)
        BY <2>2
      <3>2. QueuedOf(source)' \subseteq QueuedOf(source)
        BY <1>0, <3>1 DEF Finish, Ended, QueuedOf, Queued, TypeOK
      <3>3. PassedOf(source)' = PassedOf(source)
        BY <3>1 DEF Finish, PassedOf
      <3> QED BY <3>2, <3>3 DEF ShareMoves
    <2>3. CASE Tick \/ UNCHANGED vars
      BY <2>3 DEF Tick, vars, ShareMoves, QueuedOf, Queued, PassedOf
    <2> QED BY <2>1, <2>2, <2>3 DEF Next
  <1> QED BY <1>0, <1>1, ShareKept DEF ShareInv

\* No caller's queued jobs pass max_active_per_source by more than the requests
\* under way, whoever else submits and whatever finishes in between.
THEOREM Share == Spec => []ShareBounded
  <1>1. Init => ShareInv
    <2> SUFFICES ASSUME Init, PerSource > 0, NEW source \in Sources
                 PROVE  Cardinality(QueuedOf(source)) + Cardinality(PassedOf(source))
                          < PerSource + Cardinality(Submitters)
      BY DEF ShareInv
    <2>1. QueuedOf(source) = {} /\ PassedOf(source) = {}
      BY DEF Init, QueuedOf, Queued, PassedOf, NoJob, Idle
    <2> QED BY <2>1, FS_EmptySet, FS_CardinalityType, IntakeAssumption
  <1>2. IInv /\ ShareInv /\ [Next]_vars => ShareInv'
    BY ShareStep
  <1>3. IInv /\ ShareInv => ShareBounded
    <2> SUFFICES ASSUME TypeOK, ShareInv, PerSource > 0, NEW source \in Sources
                 PROVE  Cardinality(QueuedOf(source)) < PerSource + Cardinality(Submitters)
      BY DEF ShareBounded, IInv
    <2>1. Cardinality(Submitters) \in Nat
      BY FS_CardinalityType, IntakeAssumption
    <2> QED BY <2>1, ShareFinite, IntakeAssumption DEF ShareInv
  <1> QED BY <1>1, <1>2, <1>3, Invariance, PTL DEF Spec
=============================================================================

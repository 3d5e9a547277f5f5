--------------------------- MODULE BacklogProofs ----------------------------
(***************************************************************************)
(* Proofs about Backlog, for any workers, bands, rates, streaks, batches   *)
(* and numbers of jobs.  That an older equal never ranks below a younger   *)
(* one rests on all priorities dating from one sweep; that the job first   *)
(* in line is passed over a bounded number of times, on counting the       *)
(* claims by affinity in the streaks of all workers; that sweeps continue, *)
(* on how many finished jobs there are before one.                         *)
(***************************************************************************)
EXTENDS Backlog, FiniteSetTheorems, TLAPS

-----------------------------------------------------------------------------
(* domain/priority.py.                                                     *)

\* The smaller and the larger of two numbers.
LEMMA OfTwo ==
  ASSUME NEW a \in Int, NEW b \in Int
  PROVE  /\ Min({a, b}) = IF a <= b THEN a ELSE b
         /\ Max({a, b}) = IF a >= b THEN a ELSE b
  <1>1. /\ Min({a, b}) \in {a, b} /\ Min({a, b}) <= a /\ Min({a, b}) <= b
    <2>1. \E x \in {a, b} : \A y \in {a, b} : x <= y
      OBVIOUS
    <2> QED BY <2>1 DEF Min
  <1>2. /\ Max({a, b}) \in {a, b} /\ Max({a, b}) >= a /\ Max({a, b}) >= b
    <2>1. \E x \in {a, b} : \A y \in {a, b} : x >= y
      OBVIOUS
    <2> QED BY <2>1 DEF Max
  <1> QED BY <1>1, <1>2

\* Points grow with the time waited.
LEMMA PointsGrow ==
  ASSUME NEW x \in Nat, NEW y \in Nat, x <= y
  PROVE  /\ (x * RateNum) \div RateDen \in Nat
         /\ (x * RateNum) \div RateDen <= (y * RateNum) \div RateDen
         /\ (0 * RateNum) \div RateDen = 0
  <1>0. RateNum \in Nat /\ RateDen \in Nat /\ RateDen > 0
    BY OrderAssumption
  <1> DEFINE a == x * RateNum
             b == y * RateNum
             p == a \div RateDen
             q == b \div RateDen
  <1>1. a \in Nat /\ b \in Nat /\ a <= b
    BY <1>0
  <1> HIDE DEF a, b
  <1>2. p \in Int /\ RateDen * p <= a /\ a < RateDen * p + RateDen
    BY <1>0, <1>1
  <1>3. q \in Int /\ RateDen * q <= b /\ b < RateDen * q + RateDen
    BY <1>0, <1>1
  <1> HIDE DEF p, q
  <1>4. p >= 0
    <2> SUFFICES ASSUME p <= -1 PROVE FALSE
      BY <1>2
    <2>1. RateDen * p <= RateDen * (-1)
      BY <1>0, <1>2
    <2> QED BY <1>0, <1>1, <1>2, <2>1
  <1>5. p <= q
    <2> SUFFICES ASSUME p >= q + 1 PROVE FALSE
      BY <1>2, <1>3
    <2>1. RateDen * p >= RateDen * (q + 1)
      BY <1>0, <1>2, <1>3
    <2>2. RateDen * (q + 1) = RateDen * q + RateDen
      BY <1>0, <1>3
    <2>3. RateDen * p \in Int /\ RateDen * q \in Int
      BY <1>0, <1>2, <1>3
    <2> QED BY <1>0, <1>1, <1>2, <1>3, <2>1, <2>2, <2>3
  <1>6. 0 \div RateDen = 0
    BY <1>0
  <1> QED BY <1>0, <1>2, <1>4, <1>5, <1>6 DEF p, q, a, b

\* What the ageing of a job that has waited for z adds to its base.
Points(z) == (Max({z, 0}) * RateNum) \div RateDen

\* Nothing for a job that has not waited, and never less for a longer wait.
LEMMA PointsOf ==
  ASSUME NEW x \in Int, NEW y \in Int
  PROVE  /\ Points(x) \in Nat /\ (x <= 0 => Points(x) = 0)
         /\ x <= y => Points(x) <= Points(y)
  <1>1. /\ Max({x, 0}) = (IF x >= 0 THEN x ELSE 0)
        /\ Max({y, 0}) = (IF y >= 0 THEN y ELSE 0)
    BY OfTwo
  <1>2. /\ Max({x, 0}) \in Nat /\ Max({y, 0}) \in Nat
        /\ x <= y => Max({x, 0}) <= Max({y, 0})
    BY <1>1
  <1>3. Points(x) \in Nat
    BY <1>2, PointsGrow DEF Points
  <1>4. x <= 0 => Points(x) = 0
    <2> SUFFICES ASSUME x <= 0 PROVE Points(x) = 0
      OBVIOUS
    <2>1. Max({x, 0}) = 0
      BY <1>1
    <2>2. (0 * RateNum) \div RateDen = 0
      BY <1>2, PointsGrow
    <2> QED BY <2>1, <2>2 DEF Points
  <1>5. x <= y => Points(x) <= Points(y)
    BY <1>2, PointsGrow DEF Points
  <1> QED BY <1>3, <1>4, <1>5

\* effective_priority: from the base to the cap of the class, the base itself
\* for a job that has not waited, and never less for one that waited longer.
LEMMA Priority ==
  ASSUME NEW class \in DOMAIN Bands, NEW base \in Bands[class][1] .. Bands[class][2],
         NEW x \in Int, NEW y \in Int
  PROVE  /\ base \in Nat /\ ageing_cap(class) \in Nat
         /\ effective_priority(base, class, x) \in base .. ageing_cap(class)
         /\ x <= 0 => effective_priority(base, class, x) = base
         /\ x <= y => effective_priority(base, class, x) <= effective_priority(base, class, y)
  <1>0. /\ base \in Nat /\ ageing_cap(class) \in Nat /\ base <= ageing_cap(class)
    BY OrderAssumption DEF ageing_cap
  <1>1. ASSUME NEW z \in Int
        PROVE  effective_priority(base, class, z) =
                 IF base + Points(z) <= ageing_cap(class) THEN base + Points(z) ELSE ageing_cap(class)
    <2>1. effective_priority(base, class, z) = Min({base + Points(z), ageing_cap(class)})
      BY DEF effective_priority, Points
    <2>2. base + Points(z) \in Int
      BY <1>0, PointsOf
    <2> QED BY <1>0, <2>1, <2>2, OfTwo
  <1>2. /\ Points(x) \in Nat /\ Points(y) \in Nat /\ (x <= 0 => Points(x) = 0)
        /\ x <= y => Points(x) <= Points(y)
    BY PointsOf
  <1> QED BY <1>0, <1>1, <1>2

-----------------------------------------------------------------------------
(* The inductive invariant, one step at a time.                            *)

\* The table is empty.
LEMMA InitInv ==
  ASSUME Init
  PROVE  BacklogInv
  <1>1. DOMAIN jobs = {} /\ DOMAIN ended = {}
    BY DEF Init, EmptyTable
  <1>2. TypeOK
    <2>1. streak \in [Workers -> 0 .. MaxStreak]
      BY OrderAssumption DEF Init
    <2> QED BY <1>1, <2>1, BacklogAssumption DEF Init, TypeOK
  <1>3. Tables
    <2>1. jobs \in [{} -> JobRow]
      BY DEF Init, EmptyTable
    <2>2. ended \in [{} -> EndedRow]
      BY DEF Init, EmptyTable
    <2>3. 0 \in 0 .. MaxJobs /\ DOMAIN jobs \cup DOMAIN ended = 1 .. 0
      BY <1>1, BacklogAssumption
    <2> QED BY <1>1, <2>1, <2>2, <2>3 DEF Tables
  <1>4. AgedAt(0) /\ 0 \in 0 .. tick
    BY <1>1 DEF AgedAt, Init
  <1>5. Affine = {}
    BY OrderAssumption DEF Affine, Init
  <1>6. bypassed \in 0 .. Cardinality(Affine)
    BY <1>5, FS_EmptySet DEF Init
  <1> QED BY <1>2, <1>3, <1>4, <1>6 DEF BacklogInv

\* What the invariant says of the clock ...
LEMMA Clock ==
  ASSUME BacklogInv
  PROVE  now \in 0 .. MaxTime /\ now \in Nat /\ tick \in 0 .. now /\ tick \in Nat /\ tick <= now
  BY BacklogAssumption DEF BacklogInv, TypeOK

\* ... and of one active row.
LEMMA RowOf ==
  ASSUME BacklogInv, NEW j \in DOMAIN jobs
  PROVE  /\ jobs[j] \in JobRow
         /\ jobs[j].class \in DOMAIN Bands /\ jobs[j].queued \in Nat /\ jobs[j].effective \in Nat
         /\ jobs[j].base \in Bands[jobs[j].class][1] .. Bands[jobs[j].class][2]
         /\ jobs[j].queued <= now
  BY DEF BacklogInv, Tables, JobRow

\* A step that writes no column of the order keeps every priority dated.
LEMMA AgedKept ==
  ASSUME NEW at, AgedAt(at),
         \A j \in DOMAIN jobs' :
            /\ j \in DOMAIN jobs
            /\ jobs'[j].base = jobs[j].base /\ jobs'[j].class = jobs[j].class
            /\ jobs'[j].queued = jobs[j].queued /\ jobs'[j].effective = jobs[j].effective
            /\ j \in (WaitingJobs \ returned)' => j \in WaitingJobs \ returned
  PROVE  AgedAt(at)'
  BY DEF AgedAt

\* What Enqueue makes of a submission.
LEMMA NewJobRow ==
  ASSUME NEW k \in Kinds, now \in Nat, InBand(k.class, k.priority)
  PROVE  /\ NewJob(k) \in JobRow
         /\ NewJob(k).state = "queued" /\ NewJob(k).owner = None /\ NewJob(k).queued = now
         /\ NewJob(k).class = k.class /\ NewJob(k).effective = NewJob(k).base
         /\ NewJob(k).base \in Bands[k.class][1] .. Bands[k.class][2]
  <1> DEFINE base == base_priority(k.class, k.priority)
  <1>1. base \in Bands[k.class][1] .. Bands[k.class][2] /\ base \in Nat
    BY BacklogAssumption, OrderAssumption DEF InBand, base_priority
  <1>2. k.class \in DOMAIN Bands /\ k.model \in Models \cup {None}
    BY BacklogAssumption
  <1>3. NewJob(k) = [state |-> "queued", class |-> k.class, base |-> base,
         effective |-> base, queued |-> now, model |-> k.model, owner |-> None]
    BY DEF NewJob
  <1> HIDE DEF base
  <1> QED BY <1>1, <1>2, <1>3 DEF JobRow

\* A job is submitted: its number is new, and its base is what any earlier
\* sweep would have given it.
LEMMA EnqueueInv ==
  ASSUME BacklogInv, NEW k \in Kinds, Enqueue(k)
  PROVE  BacklogInv'
  <1> DEFINE id == Cardinality(DOMAIN jobs \cup DOMAIN ended) + 1
             new == NewJob(k)
  <1>0. TypeOK /\ Tables
    BY DEF BacklogInv
  <1>1. /\ id \in 1 .. MaxJobs
        /\ jobs' = [j \in DOMAIN jobs \cup {id} |-> IF j = id THEN new ELSE jobs[j]]
        /\ UNCHANGED <<now, tick, ended, streak, returned, bypassed>>
    BY DEF Enqueue, Jobs
  <1>2. PICK n \in 0 .. MaxJobs : DOMAIN jobs \cup DOMAIN ended = 1 .. n
    BY <1>0 DEF Tables
  <1>3. id = n + 1 /\ id \notin DOMAIN jobs /\ id \notin DOMAIN ended /\ n \in Nat
    <2>1. n \in Nat /\ Cardinality(1 .. n) = n
      BY FS_Interval, BacklogAssumption
    <2>2. id = n + 1
      BY <1>2, <2>1
    <2>3. n + 1 \notin DOMAIN jobs \cup DOMAIN ended
      BY <1>2, <2>1
    <2> HIDE DEF id
    <2> QED BY <2>1, <2>2, <2>3
  <1>4. /\ new \in JobRow
        /\ new.state = "queued" /\ new.owner = None /\ new.queued = now
        /\ new.class = k.class /\ new.effective = new.base
        /\ new.base \in Bands[k.class][1] .. Bands[k.class][2]
    BY Clock, NewJobRow DEF Enqueue
  <1>c. /\ now \in Nat /\ tick \in Nat /\ tick <= now /\ k.class \in DOMAIN Bands
    BY Clock, BacklogAssumption
  <1> HIDE DEF id, new
  <1>5. DOMAIN jobs' = DOMAIN jobs \cup {id} /\ jobs'[id] = new /\ \A j \in DOMAIN jobs : jobs'[j] = jobs[j]
    BY <1>1, <1>3
  <1>6. /\ Held' = Held /\ WaitingJobs' = WaitingJobs \cup {id}
    BY <1>3, <1>4, <1>5 DEF Held, WaitingJobs
  <1>7. TypeOK'
    <2>1. DOMAIN jobs' \cup DOMAIN ended' \subseteq Jobs /\ DOMAIN jobs' \cap DOMAIN ended' = {}
      BY <1>0, <1>1, <1>3, <1>5 DEF TypeOK, Jobs
    <2>2. new.effective \in new.base .. ageing_cap(new.class)
      <3>1. ageing_cap(k.class) \in Nat /\ new.base \in Nat /\ new.base <= ageing_cap(k.class)
        BY <1>4, <1>c, OrderAssumption DEF ageing_cap
      <3> QED BY <1>4, <3>1
    <2>3. \A j \in DOMAIN jobs' :
            /\ jobs'[j].state \in {"queued", "waiting_resources", "leased"}
            /\ jobs'[j].effective \in jobs'[j].base .. ageing_cap(jobs'[j].class)
            /\ jobs'[j].owner \in IF j \in Held' THEN Workers ELSE {None}
      <3> SUFFICES ASSUME NEW j \in DOMAIN jobs'
                   PROVE  /\ jobs'[j].state \in {"queued", "waiting_resources", "leased"}
                          /\ jobs'[j].effective \in jobs'[j].base .. ageing_cap(jobs'[j].class)
                          /\ jobs'[j].owner \in IF j \in Held' THEN Workers ELSE {None}
        OBVIOUS
      <3>1. CASE j = id
        <4>1. id \notin Held'
          BY <1>3, <1>6 DEF Held
        <4> QED BY <3>1, <4>1, <1>4, <1>5, <2>2
      <3>2. CASE j # id
        BY <3>2, <1>0, <1>5, <1>6 DEF TypeOK
      <3> QED BY <3>1, <3>2
    <2> QED BY <1>0, <1>1, <1>5, <2>1, <2>3 DEF TypeOK
  <1>8. Tables'
    <2>1. jobs' \in [DOMAIN jobs' -> JobRow]
      BY <1>0, <1>1, <1>4, <1>5 DEF Tables
    <2>2. n + 1 \in 0 .. MaxJobs /\ DOMAIN jobs' \cup DOMAIN ended' = 1 .. n + 1
      BY <1>1, <1>2, <1>3, <1>5, BacklogAssumption
    <2>3. \A j \in DOMAIN jobs' :
            /\ jobs'[j].queued <= now'
            /\ jobs'[j].base \in Bands[jobs'[j].class][1] .. Bands[jobs'[j].class][2]
      BY <1>0, <1>1, <1>4, <1>5, <1>c DEF Tables
    <2> QED BY <1>0, <1>1, <2>1, <2>2, <2>3 DEF Tables
  <1>9. \E at \in 0 .. tick' : AgedAt(at)'
    <2>1. PICK at \in 0 .. tick : AgedAt(at)
      BY DEF BacklogInv
    <2>2. at - now \in Int /\ at - now <= 0
      BY <1>c
    <2>3. effective_priority(new.base, new.class, at - new.queued) = new.effective
      BY <1>4, <1>c, <2>2, Priority
    <2>4. new.effective \in Nat
      BY <1>4 DEF JobRow
    <2>5. AgedAt(at)'
      <3> SUFFICES ASSUME NEW j \in DOMAIN jobs'
                   PROVE  /\ jobs'[j].effective <= effective_priority(jobs'[j].base, jobs'[j].class, at - jobs'[j].queued)
                          /\ j \in (WaitingJobs \ returned)' => jobs'[j].effective
                                = effective_priority(jobs'[j].base, jobs'[j].class, at - jobs'[j].queued)
        BY DEF AgedAt
      <3>1. CASE j = id
        BY <3>1, <1>5, <2>3, <2>4
      <3>2. CASE j # id
        BY <3>2, <1>1, <1>5, <1>6, <2>1 DEF AgedAt
      <3> QED BY <3>1, <3>2
    <2> QED BY <1>1, <2>5
  <1>10. bypassed' \in 0 .. Cardinality(Affine)'
    BY <1>1 DEF BacklogInv, Affine
  <1> QED BY <1>7, <1>8, <1>9, <1>10 DEF BacklogInv

\* A step on one active row writes its state, owner and model only.
LEMMA RowWritten ==
  ASSUME BacklogInv, NEW j \in DOMAIN jobs,
         NEW state \in {"queued", "waiting_resources", "leased"},
         NEW owner \in IF state = "leased" THEN Workers ELSE {None},
         NEW m \in Models \cup {None},
         jobs' = [jobs EXCEPT ![j].state = state, ![j].owner = owner, ![j].model = m],
         UNCHANGED <<now, tick, ended>>,
         returned' \in {returned, returned \cup {j}},
         state = "leased" \/ j \in WaitingJobs \/ j \in returned'
  PROVE  /\ Tables' /\ \E at \in 0 .. tick' : AgedAt(at)'
         /\ streak' \in [Workers -> 0 .. MaxStreak] => TypeOK'
  <1> DEFINE old == jobs[j]
             new == [state |-> state, class |-> old.class, base |-> old.base,
                     effective |-> old.effective, queued |-> old.queued,
                     model |-> m, owner |-> owner]
  <1>0. TypeOK /\ Tables /\ old \in JobRow
    BY RowOf DEF BacklogInv
  <1>1. [old EXCEPT !.state = state, !.owner = owner, !.model = m] = new
    <2> DEFINE a == [old EXCEPT !.state = state]
               b == [a EXCEPT !.owner = owner]
               c == [b EXCEPT !.model = m]
    <2>1. c = [old EXCEPT !.state = state, !.owner = owner, !.model = m]
      BY Zenon
    <2>2. a = [state |-> state, class |-> old.class, base |-> old.base,
               effective |-> old.effective, queued |-> old.queued,
               model |-> old.model, owner |-> old.owner]
      BY <1>0 DEF JobRow
    <2> HIDE DEF a, old
    <2>3. b = [state |-> state, class |-> old.class, base |-> old.base,
               effective |-> old.effective, queued |-> old.queued,
               model |-> old.model, owner |-> owner]
      BY <2>2
    <2> HIDE DEF b
    <2>4. c = new
      BY <2>3
    <2> QED BY <2>1, <2>4
  <1>2. jobs' = [jobs EXCEPT ![j] = new]
    <2>1. jobs' = [jobs EXCEPT ![j] = [old EXCEPT !.state = state, !.owner = owner, !.model = m]]
      OBVIOUS
    <2> QED BY <1>1, <2>1
  <1>3. /\ new \in JobRow /\ new.state = state /\ new.owner = owner
        /\ new.class = old.class /\ new.base = old.base
        /\ new.effective = old.effective /\ new.queued = old.queued
    BY <1>0 DEF JobRow
  <1> HIDE DEF new
  <1>4. /\ DOMAIN jobs' = DOMAIN jobs /\ jobs'[j] = new
        /\ \A i \in DOMAIN jobs \ {j} : jobs'[i] = jobs[i]
    BY <1>0, <1>2 DEF Tables
  <1>5. \A i \in DOMAIN jobs' :
            /\ i \in DOMAIN jobs
            /\ jobs'[i].base = jobs[i].base /\ jobs'[i].class = jobs[i].class
            /\ jobs'[i].queued = jobs[i].queued /\ jobs'[i].effective = jobs[i].effective
    BY <1>3, <1>4
  <1>6. /\ \A i \in DOMAIN jobs \ {j} : i \in Held' <=> i \in Held
        /\ j \in Held' <=> state = "leased"
    BY <1>3, <1>4 DEF Held
  <1>7. Tables'
    <2>1. jobs' \in [DOMAIN jobs' -> JobRow]
      BY <1>0, <1>2, <1>3, <1>4 DEF Tables
    <2> QED BY <1>0, <1>4, <1>5, <2>1 DEF Tables
  <1>8. \A i \in DOMAIN jobs' : i \in (WaitingJobs \ returned)' => i \in WaitingJobs \ returned
    <2> SUFFICES ASSUME NEW i \in DOMAIN jobs', i \in WaitingJobs', i \notin returned'
                 PROVE  i \in WaitingJobs \ returned
      OBVIOUS
    <2>1. CASE i = j
      BY <2>1, <1>6 DEF WaitingJobs
    <2>2. CASE i # j
      BY <2>2, <1>4, <1>6 DEF WaitingJobs
    <2> QED BY <2>1, <2>2
  <1>9. \E at \in 0 .. tick' : AgedAt(at)'
    <2>1. PICK at \in 0 .. tick : AgedAt(at)
      BY DEF BacklogInv
    <2>2. AgedAt(at)'
      BY <1>5, <1>8, <2>1, AgedKept
    <2> QED BY <2>2
  <1>10. ASSUME streak' \in [Workers -> 0 .. MaxStreak] PROVE TypeOK'
    <2>1. \A i \in DOMAIN jobs' :
            /\ jobs'[i].state \in {"queued", "waiting_resources", "leased"}
            /\ jobs'[i].effective \in jobs'[i].base .. ageing_cap(jobs'[i].class)
            /\ jobs'[i].owner \in IF i \in Held' THEN Workers ELSE {None}
      <3> SUFFICES ASSUME NEW i \in DOMAIN jobs
                   PROVE  /\ jobs'[i].state \in {"queued", "waiting_resources", "leased"}
                          /\ jobs'[i].effective \in jobs'[i].base .. ageing_cap(jobs'[i].class)
                          /\ jobs'[i].owner \in IF i \in Held' THEN Workers ELSE {None}
        BY <1>4
      <3>1. jobs'[i].effective \in jobs'[i].base .. ageing_cap(jobs'[i].class)
        BY <1>0, <1>4, <1>5 DEF TypeOK
      <3>2. CASE i = j
        BY <3>1, <3>2, <1>3, <1>4, <1>6
      <3>3. CASE i # j
        BY <3>1, <3>3, <1>0, <1>4, <1>6 DEF TypeOK
      <3> QED BY <3>2, <3>3
    <2> QED BY <1>0, <1>4, <1>10, <2>1 DEF TypeOK
  <1> QED BY <1>7, <1>9, <1>10

\* A job goes back to a waiting state.
LEMMA ReturnedInv ==
  ASSUME BacklogInv, NEW j \in DOMAIN jobs, NEW m \in Models,
         NEW state \in {"queued", "waiting_resources"}, Returned(j, state, m)
  PROVE  BacklogInv'
  <1>1. /\ jobs' = [jobs EXCEPT ![j].state = state, ![j].owner = None, ![j].model = m]
        /\ returned' = returned \cup {j}
        /\ UNCHANGED <<now, tick, ended, streak, bypassed>>
    BY DEF Returned
  <1>2. streak' \in [Workers -> 0 .. MaxStreak]
    BY <1>1 DEF BacklogInv, TypeOK
  <1>3. TypeOK' /\ Tables' /\ \E at \in 0 .. tick' : AgedAt(at)'
    BY <1>1, <1>2, RowWritten
  <1>4. bypassed' \in 0 .. Cardinality(Affine)'
    BY <1>1 DEF BacklogInv, Affine
  <1> QED BY <1>3, <1>4 DEF BacklogInv

\* A deferred job is put back into the queue.
LEMMA ReevaluateInv ==
  ASSUME BacklogInv, NEW j \in DOMAIN jobs, Reevaluate(j)
  PROVE  BacklogInv'
  <1> DEFINE m == jobs[j].model
  <1>0. jobs[j] \in JobRow /\ jobs[j].state = "waiting_resources" /\ j \notin Held
    BY RowOf DEF Reevaluate, Held
  <1>1. jobs[j].owner = None /\ m \in Models \cup {None}
    BY <1>0 DEF BacklogInv, TypeOK, JobRow
  <1>2. [jobs[j] EXCEPT !.state = "queued"]
          = [jobs[j] EXCEPT !.state = "queued", !.owner = None, !.model = m]
    BY <1>0, <1>1 DEF JobRow
  <1>3. jobs' = [jobs EXCEPT ![j] = [jobs[j] EXCEPT !.state = "queued"]]
    BY DEF Reevaluate
  <1>4. jobs' = [jobs EXCEPT ![j].state = "queued", ![j].owner = None, ![j].model = m]
    <2>1. [jobs EXCEPT ![j].state = "queued", ![j].owner = None, ![j].model = m]
            = [jobs EXCEPT ![j] = [jobs[j] EXCEPT !.state = "queued", !.owner = None, !.model = m]]
      OBVIOUS
    <2> QED BY <1>2, <1>3, <2>1
  <1>5. UNCHANGED <<now, tick, ended, streak, returned, bypassed>>
    BY DEF Reevaluate
  <1>6. streak' \in [Workers -> 0 .. MaxStreak] /\ j \in WaitingJobs
    BY <1>0, <1>5 DEF BacklogInv, TypeOK, WaitingJobs
  <1> HIDE DEF m
  <1>7. TypeOK' /\ Tables' /\ \E at \in 0 .. tick' : AgedAt(at)'
    BY <1>1, <1>4, <1>5, <1>6, RowWritten
  <1>8. bypassed' \in 0 .. Cardinality(Affine)'
    BY <1>5 DEF BacklogInv, Affine
  <1> QED BY <1>7, <1>8 DEF BacklogInv
\* The claims by affinity in the streaks of all workers are finitely many.
LEMMA AffineBound ==
  /\ IsFiniteSet(Affine) /\ Cardinality(Affine) \in Nat
  /\ Cardinality(Affine) <= Cardinality(Workers) * MaxStreak
  <1> DEFINE P == Workers \X (1 .. MaxStreak)
  <1>0. IsFiniteSet(Workers) /\ MaxStreak \in Nat
    BY BacklogAssumption, OrderAssumption
  <1>1. IsFiniteSet(1 .. MaxStreak) /\ Cardinality(1 .. MaxStreak) = MaxStreak
    BY <1>0, FS_Interval
  <1>2. IsFiniteSet(P) /\ Cardinality(P) = Cardinality(Workers) * MaxStreak
    BY <1>0, <1>1, FS_Product
  <1>3. Affine \subseteq P
    BY DEF Affine
  <1>4. IsFiniteSet(Affine) /\ Cardinality(Affine) <= Cardinality(P)
    BY <1>2, <1>3, FS_Subset
  <1>5. Cardinality(Affine) \in Nat
    BY <1>4, FS_CardinalityType
  <1> QED BY <1>2, <1>4, <1>5

\* A claim takes a queued job; the first in line unless affinity decides,
\* which it does only within a streak.
LEMMA ClaimTakes ==
  ASSUME NEW resident, NEW w, NEW j \in Claimable(jobs, resident, streak[w])
  PROVE  /\ j \in DOMAIN jobs /\ jobs[j].state = "queued"
         /\ IF ByAffinity(jobs, Eligible(jobs), resident, streak[w])
            THEN streak[w] < MaxStreak ELSE j \in FirstOf(jobs, Eligible(jobs))
  <1>1. j \in Eligible(jobs)
    BY DEF Claimable, FirstOf, Matching
  <1>2. IF ByAffinity(jobs, Eligible(jobs), resident, streak[w])
        THEN streak[w] < MaxStreak ELSE j \in FirstOf(jobs, Eligible(jobs))
    BY DEF Claimable, ByAffinity
  <1> QED BY <1>1, <1>2 DEF Eligible

\* A worker claims: by affinity, and there is one more such claim in the
\* streaks, or in order, and nobody is passed over.
LEMMA ClaimInv ==
  ASSUME BacklogInv, NEW w \in Workers, NEW resident \in SUBSET Models, Claim(w, resident)
  PROVE  BacklogInv'
  <1> DEFINE affine == ByAffinity(jobs, Eligible(jobs), resident, streak[w])
  <1>1. PICK j \in Claimable(jobs, resident, streak[w]) :
          /\ jobs' = [jobs EXCEPT ![j].state = "leased", ![j].owner = w]
          /\ bypassed' = IF j \in FirstOf(jobs, Eligible(jobs)) THEN 0 ELSE bypassed + 1
    BY DEF Claim
  <1>2. /\ streak' = [streak EXCEPT ![w] = NextStreak(streak[w], affine)]
        /\ UNCHANGED <<now, tick, ended, returned>>
    BY DEF Claim
  <1>3. /\ j \in DOMAIN jobs /\ jobs[j].state = "queued" /\ j \in WaitingJobs
        /\ IF affine THEN streak[w] < MaxStreak ELSE j \in FirstOf(jobs, Eligible(jobs))
    BY <1>1, ClaimTakes DEF Held, WaitingJobs
  <1>4. streak \in [Workers -> 0 .. MaxStreak] /\ streak[w] \in Nat /\ MaxStreak \in Nat
    BY OrderAssumption DEF BacklogInv, TypeOK
  <1> HIDE DEF affine
  <1>5. /\ NextStreak(streak[w], affine) = IF affine THEN streak[w] + 1 ELSE 0
        /\ streak' \in [Workers -> 0 .. MaxStreak]
    BY <1>2, <1>3, <1>4 DEF NextStreak
  <1>6. TypeOK' /\ Tables' /\ \E at \in 0 .. tick' : AgedAt(at)'
    <2> DEFINE m == jobs[j].model
    <2>1. jobs[j] \in JobRow /\ m \in Models \cup {None}
      BY <1>3, RowOf DEF JobRow
    <2>2. [jobs[j] EXCEPT !.state = "leased", !.owner = w]
            = [jobs[j] EXCEPT !.state = "leased", !.owner = w, !.model = m]
      <3> DEFINE a == [jobs[j] EXCEPT !.state = "leased"]
                 b == [a EXCEPT !.owner = w]
      <3>1. a.model = m /\ a \in JobRow
        BY <2>1 DEF JobRow
      <3>2. b.model = m /\ b \in JobRow
        <4> HIDE DEF a
        <4> QED BY <3>1 DEF JobRow
      <3>3. b = [b EXCEPT !.model = m]
        <4> HIDE DEF b
        <4> QED BY <3>2 DEF JobRow
      <3> QED BY <3>3, Zenon
    <2>3. jobs' = [jobs EXCEPT ![j] = [jobs[j] EXCEPT !.state = "leased", !.owner = w]]
      BY <1>1
    <2>4. [jobs EXCEPT ![j].state = "leased", ![j].owner = w, ![j].model = m]
            = [jobs EXCEPT ![j] = [jobs[j] EXCEPT !.state = "leased", !.owner = w, !.model = m]]
      OBVIOUS
    <2>5. jobs' = [jobs EXCEPT ![j].state = "leased", ![j].owner = w, ![j].model = m]
      BY <2>2, <2>3, <2>4
    <2> HIDE DEF m
    <2>6. /\ "leased" \in {"queued", "waiting_resources", "leased"}
          /\ w \in IF "leased" = "leased" THEN Workers ELSE {None}
          /\ returned' \in {returned, returned \cup {j}}
      BY <1>2
    <2> QED BY <1>2, <1>3, <1>5, <2>1, <2>5, <2>6, RowWritten, Zenon
  <1>7. bypassed' \in 0 .. Cardinality(Affine)'
    <2>1. (/\ IsFiniteSet(Affine) /\ Cardinality(Affine) \in Nat)'
      BY AffineBound, PTL
    <2>2. bypassed \in 0 .. Cardinality(Affine) /\ Cardinality(Affine) \in Nat
      BY AffineBound DEF BacklogInv
    <2>3. CASE affine
      <3> DEFINE c == <<w, streak[w] + 1>>
      <3>1. streak'[w] = streak[w] + 1 /\ \A v \in Workers \ {w} : streak'[v] = streak[v]
        BY <1>2, <1>4, <1>5, <2>3
      <3>2. c \notin Affine
        BY <1>4 DEF Affine
      <3>3. Affine' = Affine \cup {c}
        <4>1. \A v \in Workers, n \in 1 .. MaxStreak :
                n <= streak'[v] <=> n <= streak[v] \/ (v = w /\ n = streak[w] + 1)
          BY <1>3, <1>4, <2>3, <3>1
        <4>2. streak[w] + 1 \in 1 .. MaxStreak
          BY <1>3, <1>4, <2>3
        <4> QED BY <4>1, <4>2 DEF Affine
      <3>4. Cardinality(Affine') = Cardinality(Affine) + 1
        <4> HIDE DEF c
        <4> QED BY <3>2, <3>3, AffineBound, FS_AddElement
      <3> QED BY <1>1, <2>2, <3>4
    <2>4. CASE ~affine
      BY <1>1, <1>3, <2>1, <2>4
    <2> QED BY <2>3, <2>4
  <1> QED BY <1>6, <1>7 DEF BacklogInv

\* Jobs end: their rows move to the finished part of the table.
LEMMA EndInv ==
  ASSUME BacklogInv, NEW S \in SUBSET DOMAIN jobs, NEW at \in 0 .. now, End(S, at)
  PROVE  BacklogInv'
  <1> DEFINE row == [completed |-> at, scrubbed |-> FALSE]
  <1>0. TypeOK /\ Tables /\ now \in Nat
    BY Clock DEF BacklogInv
  <1>1. /\ UNCHANGED <<now, tick, streak, bypassed>> /\ returned' = returned \ S
        /\ jobs' = [j \in DOMAIN jobs \ S |-> jobs[j]]
        /\ ended' = [j \in DOMAIN ended \cup S |-> IF j \in S THEN row ELSE ended[j]]
    BY DEF End, Restrict
  <1>2. row \in EndedRow /\ row.completed = at /\ ~row.scrubbed /\ at <= now
    BY <1>0 DEF EndedRow
  <1> HIDE DEF row
  <1>3. /\ DOMAIN jobs' = DOMAIN jobs \ S /\ DOMAIN ended' = DOMAIN ended \cup S
        /\ \A j \in DOMAIN jobs' : jobs'[j] = jobs[j]
        /\ \A j \in DOMAIN ended' : ended'[j] = IF j \in S THEN row ELSE ended[j]
    BY <1>1
  <1>4. Held' = Held \ S /\ WaitingJobs' = WaitingJobs \ S
    BY <1>3 DEF Held, WaitingJobs
  <1>5. TypeOK'
    <2>1. /\ DOMAIN jobs' \cup DOMAIN ended' \subseteq Jobs /\ DOMAIN jobs' \cap DOMAIN ended' = {}
          /\ returned' \subseteq DOMAIN jobs'
      BY <1>0, <1>1, <1>3 DEF TypeOK
    <2>2. \A j \in DOMAIN jobs' :
            /\ jobs'[j].state \in {"queued", "waiting_resources", "leased"}
            /\ jobs'[j].effective \in jobs'[j].base .. ageing_cap(jobs'[j].class)
            /\ jobs'[j].owner \in IF j \in Held' THEN Workers ELSE {None}
      BY <1>0, <1>3, <1>4 DEF TypeOK
    <2>3. \A j \in DOMAIN ended' :
            ended'[j].scrubbed => ended'[j].completed + RetentionTime <= now'
      BY <1>0, <1>1, <1>2, <1>3 DEF TypeOK
    <2> QED BY <1>0, <1>1, <2>1, <2>2, <2>3 DEF TypeOK, Jobs
  <1>6. Tables'
    <2>1. jobs' \in [DOMAIN jobs' -> JobRow]
      BY <1>0, <1>1, <1>3 DEF Tables
    <2>2. ended' \in [DOMAIN ended' -> EndedRow]
      BY <1>0, <1>1, <1>2, <1>3 DEF Tables
    <2>3. \E n \in 0 .. MaxJobs : DOMAIN jobs' \cup DOMAIN ended' = 1 .. n
      <3>1. DOMAIN jobs' \cup DOMAIN ended' = DOMAIN jobs \cup DOMAIN ended
        BY <1>3
      <3> QED BY <1>0, <3>1 DEF Tables
    <2>4. \A j \in DOMAIN jobs' :
            /\ jobs'[j].queued <= now'
            /\ jobs'[j].base \in Bands[jobs'[j].class][1] .. Bands[jobs'[j].class][2]
      BY <1>0, <1>1, <1>3 DEF Tables
    <2>5. \A j \in DOMAIN ended' : ended'[j].completed <= now'
      BY <1>0, <1>1, <1>2, <1>3 DEF Tables
    <2> QED BY <2>1, <2>2, <2>3, <2>4, <2>5 DEF Tables
  <1>7. \E swept \in 0 .. tick' : AgedAt(swept)'
    <2>1. PICK swept \in 0 .. tick : AgedAt(swept)
      BY DEF BacklogInv
    <2>2. AgedAt(swept)'
      BY <1>1, <1>3, <1>4, <2>1, AgedKept
    <2> QED BY <1>1, <2>2
  <1>8. bypassed' \in 0 .. Cardinality(Affine)'
    BY <1>1 DEF BacklogInv, Affine
  <1> QED BY <1>5, <1>6, <1>7, <1>8 DEF BacklogInv

\* The clocks: rows and sweeps stay behind them.
LEMMA ClockInv ==
  ASSUME BacklogInv, StartTick \/ TimePasses
  PROVE  BacklogInv'
  <1>1. /\ UNCHANGED <<jobs, ended, streak, returned, bypassed>>
        /\ now' \in 0 .. MaxTime /\ tick' \in 0 .. now' /\ tick <= tick' /\ now <= now'
    BY Clock, BacklogAssumption DEF StartTick, TimePasses
  <1>2. /\ now \in Nat /\ now' \in Nat /\ tick \in Nat /\ tick' \in Nat
        /\ Held' = Held /\ WaitingJobs' = WaitingJobs
    BY <1>1, Clock, BacklogAssumption DEF Held, WaitingJobs
  <1>3. TypeOK'
    <2>1. \A j \in DOMAIN ended' :
            ended'[j].scrubbed => ended'[j].completed + RetentionTime <= now'
      BY <1>1, <1>2, RetentionAssumption DEF BacklogInv, TypeOK, Tables, EndedRow
    <2> QED BY <1>1, <1>2, <2>1 DEF BacklogInv, TypeOK
  <1>4. Tables'
    <2>1. \A j \in DOMAIN jobs' : jobs'[j].queued <= now'
      BY <1>1, <1>2, RowOf
    <2>2. \A j \in DOMAIN ended' : ended'[j].completed <= now'
      BY <1>1, <1>2 DEF BacklogInv, Tables, EndedRow
    <2> QED BY <1>1, <2>1, <2>2 DEF BacklogInv, Tables
  <1>5. \E at \in 0 .. tick' : AgedAt(at)'
    <2>1. PICK at \in 0 .. tick : AgedAt(at)
      BY DEF BacklogInv
    <2>2. at \in 0 .. tick' /\ AgedAt(at)'
      BY <1>1, <1>2, <2>1 DEF AgedAt
    <2> QED BY <2>2
  <1>6. bypassed' \in 0 .. Cardinality(Affine)'
    BY <1>1 DEF BacklogInv, Affine
  <1> QED BY <1>3, <1>4, <1>5, <1>6 DEF BacklogInv

\* What the ageing sweep writes: nothing ranks below what it had, nothing
\* above what this instant gives it.
LEMMA AgedRow ==
  ASSUME BacklogInv, NEW j \in DOMAIN jobs
  PROVE  LET aged == effective_priority(jobs[j].base, jobs[j].class, tick - jobs[j].queued)
         IN  /\ Aged(j) \in jobs[j].base .. ageing_cap(jobs[j].class) /\ Aged(j) \in Nat
             /\ Aged(j) <= aged /\ (j \in WaitingJobs => Aged(j) = aged)
  <1> DEFINE Give(at) == effective_priority(jobs[j].base, jobs[j].class, at - jobs[j].queued)
  <1>1. PICK at \in 0 .. tick : AgedAt(at)
    BY DEF BacklogInv
  <1>2. /\ jobs[j].class \in DOMAIN Bands /\ jobs[j].queued \in Nat /\ jobs[j].effective \in Nat
        /\ jobs[j].base \in Bands[jobs[j].class][1] .. Bands[jobs[j].class][2]
        /\ at \in Int /\ tick \in Int /\ at <= tick
    BY RowOf, Clock
  <1>3. at - jobs[j].queued \in Int /\ tick - jobs[j].queued \in Int
        /\ at - jobs[j].queued <= tick - jobs[j].queued
    BY <1>2
  <1>4. /\ jobs[j].base \in Nat /\ ageing_cap(jobs[j].class) \in Nat
        /\ Give(tick) \in jobs[j].base .. ageing_cap(jobs[j].class)
        /\ Give(at) \in jobs[j].base .. ageing_cap(jobs[j].class) /\ Give(at) <= Give(tick)
    BY <1>2, <1>3, Priority
  <1>5. jobs[j].effective <= Give(at)
    BY <1>1 DEF AgedAt
  <1>6. jobs[j].effective \in jobs[j].base .. ageing_cap(jobs[j].class)
    BY DEF BacklogInv, TypeOK
  <1>7. Aged(j) = IF j \in WaitingJobs THEN Give(tick) ELSE jobs[j].effective
    BY DEF Aged
  <1> HIDE DEF Give
  <1>8. /\ Aged(j) \in jobs[j].base .. ageing_cap(jobs[j].class) /\ Aged(j) \in Nat
        /\ Aged(j) <= Give(tick) /\ (j \in WaitingJobs => Aged(j) = Give(tick))
    BY <1>2, <1>4, <1>5, <1>6, <1>7
  <1> QED BY <1>8 DEF Give

\* The ageing sweep: all priorities date from it.
LEMMA AgeingSweepInv ==
  ASSUME BacklogInv, AgeingSweep
  PROVE  BacklogInv'
  <1>0. TypeOK /\ Tables
    BY DEF BacklogInv
  <1>1. /\ jobs' = [j \in DOMAIN jobs |-> [jobs[j] EXCEPT !.effective = Aged(j)]]
        /\ returned' = {} /\ UNCHANGED <<now, tick, ended, streak, bypassed>>
    BY DEF AgeingSweep
  <1>2. DOMAIN jobs' = DOMAIN jobs
    BY <1>1
  <1>3. ASSUME NEW j \in DOMAIN jobs
        PROVE  /\ jobs'[j] \in JobRow /\ jobs'[j].effective = Aged(j)
               /\ jobs'[j].state = jobs[j].state /\ jobs'[j].class = jobs[j].class
               /\ jobs'[j].base = jobs[j].base /\ jobs'[j].queued = jobs[j].queued
               /\ jobs'[j].owner = jobs[j].owner
    <2>1. jobs[j] \in JobRow /\ Aged(j) \in Nat
      BY <1>3, RowOf, AgedRow
    <2>2. jobs'[j] = [jobs[j] EXCEPT !.effective = Aged(j)]
      BY <1>1, <1>3
    <2> QED BY <2>1, <2>2 DEF JobRow
  <1>4. Held' = Held /\ WaitingJobs' = WaitingJobs
    BY <1>2, <1>3 DEF Held, WaitingJobs
  <1>5. TypeOK'
    <2>1. \A j \in DOMAIN jobs' :
            /\ jobs'[j].state \in {"queued", "waiting_resources", "leased"}
            /\ jobs'[j].effective \in jobs'[j].base .. ageing_cap(jobs'[j].class)
            /\ jobs'[j].owner \in IF j \in Held' THEN Workers ELSE {None}
      BY <1>0, <1>2, <1>3, <1>4, AgedRow DEF TypeOK
    <2> QED BY <1>0, <1>1, <1>2, <2>1 DEF TypeOK
  <1>6. Tables'
    <2>1. jobs' \in [DOMAIN jobs' -> JobRow]
      BY <1>1, <1>2, <1>3
    <2>2. \A j \in DOMAIN jobs' :
            /\ jobs'[j].queued <= now'
            /\ jobs'[j].base \in Bands[jobs'[j].class][1] .. Bands[jobs'[j].class][2]
      BY <1>0, <1>1, <1>2, <1>3 DEF Tables
    <2> QED BY <1>0, <1>1, <1>2, <2>1, <2>2 DEF Tables
  <1>7. \E at \in 0 .. tick' : AgedAt(at)'
    <2>1. tick \in 0 .. tick'
      BY <1>1, Clock
    <2>2. ASSUME NEW j \in DOMAIN jobs'
          PROVE  /\ jobs'[j].effective
                      <= effective_priority(jobs'[j].base, jobs'[j].class, tick - jobs'[j].queued)
                 /\ j \in (WaitingJobs \ returned)' => jobs'[j].effective
                      = effective_priority(jobs'[j].base, jobs'[j].class, tick - jobs'[j].queued)
      BY <1>2, <1>3, <1>4, <2>2, AgedRow
    <2>3. AgedAt(tick)'
      BY <1>1, <2>2 DEF AgedAt
    <2> QED BY <1>1, <2>1, <2>2 DEF AgedAt
  <1>8. bypassed' \in 0 .. Cardinality(Affine)'
    BY <1>1 DEF BacklogInv, Affine
  <1> QED BY <1>5, <1>6, <1>7, <1>8 DEF BacklogInv

\* The retention sweep takes only text that is past its time.
LEMMA ScrubContentInv ==
  ASSUME BacklogInv, ScrubContent
  PROVE  BacklogInv'
  <1>0. TypeOK /\ Tables /\ now \in Nat /\ tick \in Nat /\ tick <= now
    BY Clock DEF BacklogInv
  <1>1. PICK T \in Batches(ended, tick) :
          ended' = [j \in DOMAIN ended |-> [ended[j] EXCEPT !.scrubbed = ended[j].scrubbed \/ j \in T]]
    BY DEF ScrubContent
  <1>2. UNCHANGED <<now, tick, jobs, streak, returned, bypassed>>
    BY DEF ScrubContent
  <1>3. T \subseteq Expired(ended, tick)
    BY <1>1 DEF Batches
  <1>4. ASSUME NEW j \in DOMAIN ended
        PROVE  /\ ended'[j] \in EndedRow /\ ended'[j].completed = ended[j].completed
               /\ ended'[j].scrubbed => ended[j].scrubbed \/ j \in T
               /\ ended[j].completed \in Nat
    <2>1. ended[j] \in EndedRow
      BY <1>0, <1>4 DEF Tables
    <2>2. ended'[j] = [ended[j] EXCEPT !.scrubbed = ended[j].scrubbed \/ j \in T]
      BY <1>1, <1>4
    <2> QED BY <2>1, <2>2 DEF EndedRow
  <1>5. DOMAIN ended' = DOMAIN ended /\ Held' = Held /\ WaitingJobs' = WaitingJobs
    BY <1>1, <1>2 DEF Held, WaitingJobs
  <1>6. TypeOK'
    <2>1. ASSUME NEW j \in DOMAIN ended, ended'[j].scrubbed
          PROVE  ended'[j].completed + RetentionTime <= now'
      <3>1. CASE ended[j].scrubbed
        BY <1>0, <1>2, <1>4, <2>1, <3>1 DEF TypeOK
      <3>2. CASE j \in T
        <4>1. ended[j].completed + RetentionTime <= tick
          BY <1>3, <3>2 DEF Expired
        <4> QED BY <1>0, <1>2, <1>4, <2>1, <4>1, RetentionAssumption
      <3> QED BY <1>4, <2>1, <3>1, <3>2
    <2> QED BY <1>0, <1>2, <1>5, <2>1 DEF TypeOK
  <1>7. Tables'
    <2>1. ended' \in [DOMAIN ended' -> EndedRow]
      BY <1>1, <1>4, <1>5
    <2>2. \A j \in DOMAIN ended' : ended'[j].completed <= now'
      BY <1>0, <1>2, <1>4, <1>5 DEF Tables
    <2> QED BY <1>0, <1>2, <1>5, <2>1, <2>2 DEF Tables
  <1>8. \E at \in 0 .. tick' : AgedAt(at)'
    <2>1. PICK at \in 0 .. tick : AgedAt(at)
      BY DEF BacklogInv
    <2>2. AgedAt(at)'
      BY <1>2, <1>5, <2>1 DEF AgedAt
    <2> QED BY <1>2, <2>2
  <1>9. bypassed' \in 0 .. Cardinality(Affine)'
    BY <1>2 DEF BacklogInv, Affine
  <1> QED BY <1>6, <1>7, <1>8, <1>9 DEF BacklogInv

\* Every step of Backlog keeps the invariant.
LEMMA StepInv ==
  ASSUME BacklogInv, [Next]_vars
  PROVE  BacklogInv'
  <1>1. ASSUME NEW j \in DOMAIN jobs, Finish(j)
        PROVE  BacklogInv'
    <2>1. {j} \in SUBSET DOMAIN jobs /\ now \in 0 .. now /\ End({j}, now)
      BY <1>1, Clock DEF Finish
    <2> QED BY <2>1, EndInv
  <1>2. ASSUME NEW j \in DOMAIN jobs, NEW m \in Models, GiveBack(j, m) \/ Defer(j, m)
        PROVE  BacklogInv'
    BY <1>2, ReturnedInv DEF GiveBack, Defer
  <1>3. CASE ExpireMaxWait
    <2> DEFINE late == {j \in WaitingJobs : tick - jobs[j].queued > MaxWait}
    <2>1. late \in SUBSET DOMAIN jobs /\ tick \in 0 .. now /\ End(late, tick)
      BY <1>3, Clock DEF ExpireMaxWait, WaitingJobs
    <2> HIDE DEF late
    <2> QED BY <2>1, EndInv
  <1>4. CASE UNCHANGED vars
    <2>1. /\ now' = now /\ tick' = tick /\ jobs' = jobs /\ ended' = ended
          /\ streak' = streak /\ returned' = returned /\ bypassed' = bypassed
      BY <1>4 DEF vars
    <2>2. Held' = Held /\ WaitingJobs' = WaitingJobs /\ Affine' = Affine
      BY <2>1 DEF Held, WaitingJobs, Affine
    <2>3. TypeOK' /\ Tables' /\ bypassed' \in 0 .. Cardinality(Affine)'
      BY <2>1, <2>2 DEF BacklogInv, TypeOK, Tables
    <2>4. PICK at \in 0 .. tick : AgedAt(at)
      BY DEF BacklogInv
    <2>5. AgedAt(at)' /\ at \in 0 .. tick'
      BY <2>1, <2>2, <2>4 DEF AgedAt
    <2> QED BY <2>3, <2>5 DEF BacklogInv
  <1> QED BY <1>1, <1>2, <1>3, <1>4, EnqueueInv, ClaimInv, ReevaluateInv, ClockInv,
             AgeingSweepInv, ScrubContentInv DEF Next

\* The rows, the priorities and the counted claims of Backlog are always as
\* BacklogInv says.
THEOREM Invariance == Spec => []BacklogInv
  BY InitInv, StepInv, PTL DEF Spec

-----------------------------------------------------------------------------
(* The properties.                                                         *)

\* An equal that was queued earlier does not rank below, and nobody is first
\* in line for more claims than there are in the streaks of all workers.
LEMMA InvOrder ==
  ASSUME BacklogInv
  PROVE  OrderSafe
  <1>1. OlderFirst
    <2>1. PICK at \in 0 .. tick : AgedAt(at)
      BY DEF BacklogInv
    <2> SUFFICES ASSUME NEW i \in WaitingJobs \ returned, NEW k \in WaitingJobs,
                        jobs[i].class = jobs[k].class, jobs[i].base = jobs[k].base,
                        jobs[i].queued <= jobs[k].queued
                 PROVE  jobs[i].effective >= jobs[k].effective
      BY DEF OlderFirst
    <2> DEFINE class == jobs[k].class
               base  == jobs[k].base
               x     == at - jobs[k].queued
               y     == at - jobs[i].queued
    <2>2. i \in DOMAIN jobs /\ k \in DOMAIN jobs
      BY DEF WaitingJobs
    <2>3. /\ class \in DOMAIN Bands /\ base \in Bands[class][1] .. Bands[class][2]
          /\ jobs[i].queued \in Nat /\ jobs[k].queued \in Nat
          /\ jobs[i].effective \in Nat /\ jobs[k].effective \in Nat
      BY <2>2, RowOf
    <2>4. x \in Int /\ y \in Int /\ x <= y
      BY <2>3, Clock
    <2>5. /\ jobs[i].effective = effective_priority(base, class, y)
          /\ jobs[k].effective <= effective_priority(base, class, x)
      BY <2>1, <2>2 DEF AgedAt
    <2> HIDE DEF class, base, x, y
    <2>6. /\ effective_priority(base, class, x) \in base .. ageing_cap(class)
          /\ base \in Nat /\ ageing_cap(class) \in Nat
          /\ effective_priority(base, class, x) <= effective_priority(base, class, y)
      BY <2>3, <2>4, Priority
    <2> QED BY <2>3, <2>5, <2>6
  <1>2. BypassBounded
    <2>1. bypassed \in 0 .. Cardinality(Affine)
      BY DEF BacklogInv
    <2>2. Cardinality(Workers) * MaxStreak \in Int
      BY BacklogAssumption, OrderAssumption, FS_CardinalityType
    <2> QED BY <2>1, <2>2, AffineBound DEF BypassBounded
  <1> QED BY <1>1, <1>2 DEF OrderSafe, BacklogInv

\* However claims, sweeps, deferrals and returns are interleaved, the order
\* of claims is fair: an equal queued earlier does not rank below, and the job
\* first in line is passed over at most max_affinity_streak times per worker.
THEOREM Order == Spec => []OrderSafe
  BY Invariance, InvOrder, PTL

\* A scan that leaves out a job in reach reads fewer rows than its limit,
\* which it does only when it reads all.
LEMMA ScanReaches ==
  ASSUME IsFiniteSet(DOMAIN ended), ended \in [DOMAIN ended -> EndedRow],
         NEW at, NEW j \in Expired(ended, at), InReach(j),
         NEW R \in SUBSET Expired(ended, at), Oldest(ended, Expired(ended, at), R, ScanLimit)
  PROVE  j \in R
  <1> DEFINE S == Expired(ended, at)
             before == {k \in DOMAIN ended \ {j} : ended[k].completed <= ended[j].completed}
  <1> SUFFICES ASSUME j \notin R PROVE FALSE
    OBVIOUS
  <1>1. S \subseteq DOMAIN ended /\ j \in S
    BY DEF Expired
  <1>2. before \subseteq DOMAIN ended /\ Cardinality(before) < ScanLimit
    BY DEF InReach
  <1>3. R \subseteq before
    BY <1>1 DEF Oldest
  <1>4. ScanLimit \in Nat
    BY RetentionAssumption DEF ScanLimit
  <1> HIDE DEF S, before
  <1>5. IsFiniteSet(S) /\ IsFiniteSet(before) /\ IsFiniteSet(R)
    BY <1>1, <1>2, <1>3, FS_Subset
  <1>6. /\ Cardinality(S) \in Nat /\ Cardinality(before) \in Nat /\ Cardinality(R) \in Nat
        /\ Cardinality(R) <= Cardinality(before)
    BY <1>3, <1>5, FS_Subset, FS_CardinalityType
  <1>7. Cardinality(R) = IF Cardinality(S) < ScanLimit THEN Cardinality(S) ELSE ScanLimit
    BY DEF Oldest, S
  <1>8. Cardinality(R) = Cardinality(S)
    BY <1>2, <1>4, <1>6, <1>7
  <1>9. R \subseteq S
    BY DEF S
  <1>10. R = S
    BY <1>5, <1>8, <1>9, FS_Subset
  <1> QED BY <1>1, <1>10

\* A sweep takes what its scan found with text, as far as the batch goes.
LEMMA InvSweep ==
  ASSUME BacklogInv
  PROVE  SweepContinues
  <1> SUFFICES ASSUME NEW j \in Expired(ended, now), ~ended[j].scrubbed, InReach(j),
                      NEW T \in Batches(ended, now)
               PROVE  Unscrubbed(ended, T) # {}
    BY DEF SweepContinues
  <1>1. IsFiniteSet(DOMAIN ended) /\ ended \in [DOMAIN ended -> EndedRow]
    <2>1. DOMAIN ended \subseteq 1 .. MaxJobs
      BY DEF BacklogInv, TypeOK, Jobs
    <2>2. IsFiniteSet(1 .. MaxJobs)
      BY BacklogAssumption, FS_Interval
    <2> QED BY <2>1, <2>2, FS_Subset DEF BacklogInv, Tables
  <1>2. PICK R \in SUBSET Expired(ended, now) :
          /\ Oldest(ended, Expired(ended, now), R, ScanLimit)
          /\ Oldest(ended, Unscrubbed(ended, R), T, BatchSize)
    BY DEF Batches
  <1> DEFINE U == Unscrubbed(ended, R)
  <1>3. j \in U
    BY <1>1, <1>2, ScanReaches DEF Unscrubbed
  <1>4. IsFiniteSet(U)
    <2>1. U \subseteq DOMAIN ended
      BY DEF Unscrubbed, Expired
    <2> QED BY <1>1, <2>1, FS_Subset
  <1>5. /\ T \subseteq U
        /\ Cardinality(T) = IF Cardinality(U) < BatchSize THEN Cardinality(U) ELSE BatchSize
    BY <1>2 DEF Oldest
  <1>6. Cardinality(U) \in Nat /\ Cardinality(U) # 0
    <2> HIDE DEF U
    <2> QED BY <1>3, <1>4, FS_EmptySet, FS_CardinalityType
  <1>7. BatchSize \in Nat \ {0}
    BY RetentionAssumption
  <1>8. Cardinality(T) # 0
    BY <1>5, <1>6, <1>7
  <1>9. T # {}
    BY <1>8, FS_EmptySet
  <1>10. Unscrubbed(ended, T) = T
    BY <1>5 DEF Unscrubbed
  <1> QED BY <1>9, <1>10

\* As long as a finished job within the reach of a sweep keeps its text past
\* its time, every sweep takes the text of one more.
THEOREM Sweeps == Spec => []SweepContinues
  BY Invariance, InvSweep, PTL

=============================================================================

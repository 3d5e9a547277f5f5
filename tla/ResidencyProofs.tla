-------------------------- MODULE ResidencyProofs --------------------------
(***************************************************************************)
(* Proofs about Residency, for any models, workers and callers, any device *)
(* and any limit.  What is free on the device, and so when a place is      *)
(* needed, is never opened.                                                *)
(***************************************************************************)
EXTENDS Residency, FiniteSetTheorems, TLAPS

-----------------------------------------------------------------------------
(* The threads and their local state.                                      *)

\* The kinds of thread are told apart, and those that load are finitely many.
LEMMA Kinds ==
  /\ IsFiniteSet(Jobs) /\ Cardinality(Jobs) \in Nat
  /\ Scheduler \notin Jobs /\ Scheduler \in Threads /\ Jobs \subseteq Threads
  /\ Workers \subseteq Jobs /\ Callers \subseteq Jobs
  /\ \A c \in Callers : c \notin Workers
  /\ None \notin Models
  <1>1. IsFiniteSet(Jobs)
    BY ResidencyAssumption, FS_Union DEF Jobs
  <1> QED BY <1>1, ResidencyAssumption, FS_CardinalityType DEF Jobs, Threads

\* The local state of a thread that does nothing.
LEMMA IdleIs ==
  /\ DOMAIN Idle = {"pc", "model", "past", "seen", "fresh", "at", "todo", "size", "free"}
  /\ Idle.pc = "idle" /\ Idle.model = None /\ Idle.seen = {} /\ Idle.fresh = {}
  /\ Idle.at = 0 /\ Idle.todo = <<>> /\ Idle.past \in BOOLEAN
  BY DEF Idle

\* What a thread lines up to unload are rows of the table.
LEMMA Lined ==
  ASSUME NEW S, S \subseteq Row, IsFiniteSet(S), NEW order \in OldestFirst(S)
  PROVE  order \in Seq(Row) /\ \A i \in DOMAIN order : order[i] \in S
  <1>1. Cardinality(S) \in Nat
    BY FS_CardinalityType
  <1>2. order \in [1 .. Cardinality(S) -> S]
    BY DEF OldestFirst, SetToSeqs
  <1> QED BY <1>1, <1>2

\* The tail of what is lined up holds nothing new.
LEMMA Rest ==
  ASSUME NEW s \in Seq(Row), s # <<>>
  PROVE  /\ Tail(s) \in Seq(Row) /\ Head(s) \in Row
         /\ \A i \in DOMAIN Tail(s) : \E j \in DOMAIN s : Tail(s)[i] = s[j]
  <1>1. Tail(s) \in Seq(Row) /\ Head(s) \in Row
    OBVIOUS
  <1>2. ASSUME NEW i \in DOMAIN Tail(s) PROVE i + 1 \in DOMAIN s /\ Tail(s)[i] = s[i + 1]
    OBVIOUS
  <1> QED BY <1>1, <1>2

-----------------------------------------------------------------------------
(* One thread's step.                                                      *)

\* What TypeOK and Placed say of one thread's local state.
Fits(t, r) ==
    /\ DOMAIN r = DOMAIN Idle
    /\ r.pc \in PCs /\ r.model \in Models \cup {None} /\ r.past \in BOOLEAN
    /\ r.seen \subseteq Models /\ r.fresh \subseteq Workers
    /\ r.at \in Nat /\ r.todo \in Seq(Row)
    /\ r.pc = "close" => r.todo # <<>>
    /\ IF t = Scheduler
       THEN r.pc \in {"idle", "evict", "close", "reported", "reconcile"}
       ELSE /\ r.pc \notin {"reported", "reconcile"}
            /\ r.pc # "idle" => r.model \in Models

\* What the invariant says of the shared state.
Stored ==
    /\ clock \in Nat
    /\ rows \subseteq Row /\ IsFiniteSet(rows) /\ held \subseteq Models
    /\ inflight \in [Workers -> [job : JobIds \cup {None}, model : Models \cup {None}]]

\* What Spared says of one thread, with local state r.
Spares(t, r) ==
    \A w \in Workers \ ({t} \cup r.fresh) : task[w].past \/
        /\ t \in Callers /\ r.pc # "idle" => task[w].model \in r.seen \cup {None}
        /\ r.pc \in {"evict", "close"} /\ ~SameJob(w, t) =>
              \A i \in DOMAIN r.todo : r.todo[i].model # task[w].model

\* The invariant, thread by thread.
LEMMA Threadwise ==
  /\ TypeOK /\ Placed <=> Stored /\ DOMAIN task = Threads /\ \A t \in Threads : Fits(t, task[t])
  /\ Spared <=> \A t \in Threads : Spares(t, task[t])
  <1>1. ASSUME NEW t \in Threads, Fits(t, task[t])
        PROVE  \A i \in DOMAIN task[t].todo : task[t].todo[i] \in Row
    BY <1>1 DEF Fits
  <1>2. TypeOK /\ Placed => Stored /\ DOMAIN task = Threads /\ \A t \in Threads : Fits(t, task[t])
    BY DEF TypeOK, Placed, Stored, Fits
  <1>3. Stored /\ DOMAIN task = Threads /\ (\A t \in Threads : Fits(t, task[t])) => TypeOK /\ Placed
    BY <1>1 DEF TypeOK, Placed, Stored, Fits
  <1>4. Spared <=> \A t \in Threads : Spares(t, task[t])
    BY DEF Spared, Spares
  <1> QED BY <1>2, <1>3, <1>4

\* The same of the next state.
LEMMA ThreadwiseNext ==
  /\ (TypeOK /\ Placed)' <=>
        Stored' /\ DOMAIN task' = Threads /\ \A t \in Threads : Fits(t, task'[t])
  /\ Spared' <=> \A t \in Threads : (Spares(t, task[t]))'
  <1>1. (TypeOK /\ Placed <=>
            Stored /\ DOMAIN task = Threads /\ \A t \in Threads : Fits(t, task[t]))'
    BY Threadwise, PTL
  <1>2. (Spared <=> \A t \in Threads : Spares(t, task[t]))'
    BY Threadwise, PTL
  <1> QED BY <1>1, <1>2

\* What becomes of the in-flight entry when the thread goes on with r: a worker
\* keeps its entry and its model, or drops both.
EntryKept(t, r) ==
    \/ UNCHANGED inflight /\ (t \in Workers => r.model = task[t].model /\ r.past = task[t].past)
    \/ /\ t \in Workers /\ r.pc = "idle" /\ r.model = None
       /\ inflight' = [inflight EXCEPT ![t] = NoEntry]

\* A step of one thread that, if a worker, keeps its model or drops it,
\* disturbs nothing another thread relies on.
LEMMA OneThread ==
  ASSUME ResidencyInv, NEW t \in Threads, NEW r,
         Fits(t, r), Spares(t, r), task' = [task EXCEPT ![t] = r], Stored', EntryKept(t, r)
  PROVE  (TypeOK /\ Placed /\ Registered /\ Spared)'
  <1>1. Stored /\ DOMAIN task = Threads /\ \A u \in Threads : Fits(u, task[u])
    BY Threadwise DEF ResidencyInv, RowsBounded
  <1>2. \A u \in Threads : Spares(u, task[u])
    BY Threadwise DEF ResidencyInv
  <1>3. DOMAIN task' = Threads /\ task'[t] = r /\ \A u \in Threads \ {t} : task'[u] = task[u]
    BY <1>1
  <1>4. (TypeOK /\ Placed)'
    BY <1>1, <1>3, ThreadwiseNext
  <1>6. \A w \in Workers : \/ /\ w = t /\ task'[w].model = None /\ task'[w].pc = "idle"
                                /\ inflight'[w].model = None
                             \/ /\ task'[w].model = task[w].model /\ task'[w].past = task[w].past
                                /\ inflight'[w] = inflight[w]
    BY <1>1, <1>3, Kinds DEF EntryKept, Stored, NoEntry
  <1>5. Registered'
    BY <1>6 DEF Registered, ResidencyInv
  <1>7. ASSUME NEW u \in Threads PROVE (Spares(u, task[u]))'
    <2> DEFINE s == task'[u]
    <2>1. Spares(u, s) /\ Fits(u, s)
      BY <1>1, <1>2, <1>3
    <2> SUFFICES ASSUME NEW w \in Workers \ ({u} \cup s.fresh), ~task'[w].past
                 PROVE  /\ u \in Callers /\ s.pc # "idle" => task'[w].model \in s.seen \cup {None}
                        /\ s.pc \in {"evict", "close"} /\ ~SameJob(w, u)' =>
                              \A i \in DOMAIN s.todo : s.todo[i].model # task'[w].model
      BY DEF Spares
    <2>3. s.pc \in {"evict", "close"} =>
             u \notin Workers \/ inflight'[u] = inflight[u]
      BY <1>6
    <2> HIDE DEF s
    <2>2. \A i \in DOMAIN s.todo : s.todo[i].model # None
      <3>1. \A i \in DOMAIN s.todo : s.todo[i] \in Row
        BY <2>1 DEF Fits
      <3> QED BY <3>1, Kinds DEF Row
    <2>4. CASE task'[w].model = None
      BY <2>2, <2>4
    <2>5. CASE task'[w].model # None
      <3>1. task'[w].model = task[w].model /\ ~task[w].past /\ inflight'[w] = inflight[w]
        BY <1>6, <2>5
      <3>2. s.pc \in {"evict", "close"} => (SameJob(w, u)' <=> SameJob(w, u))
        BY <2>3, <3>1 DEF SameJob
      <3> QED BY <2>1, <3>1, <3>2 DEF Spares
    <2> QED BY <2>4, <2>5
  <1>8. Spared'
    BY <1>7, ThreadwiseNext
  <1> QED BY <1>4, <1>5, <1>8

\* The bound on duplicates survives a step after which no model has rows it
\* had none of, or more of them, or more threads about to insert one.
LEMMA NoMore ==
  ASSUME DuplicatesBounded, IsFiniteSet(rows), IsFiniteSet(rows'),
         \A m \in Models : RowsOf(m)' # {} =>
            /\ RowsOf(m) # {} /\ Cardinality(RowsOf(m)') <= Cardinality(RowsOf(m))
            /\ Inserting(m)' \subseteq Inserting(m)
  PROVE  DuplicatesBounded'
  <1> SUFFICES ASSUME NEW m \in Models, RowsOf(m)' # {}
               PROVE  Cardinality(RowsOf(m)') + Cardinality(Inserting(m)') <= Cardinality(Jobs)
    BY DEF DuplicatesBounded
  <1>1. IsFiniteSet(Inserting(m)) /\ IsFiniteSet(Inserting(m)')
    BY Kinds, FS_Subset DEF Inserting
  <1>2. Cardinality(Inserting(m)') <= Cardinality(Inserting(m))
    BY <1>1, FS_Subset
  <1>3. IsFiniteSet(RowsOf(m)) /\ IsFiniteSet(RowsOf(m)')
    BY FS_Subset DEF RowsOf
  <1> QED BY <1>1, <1>2, <1>3, FS_CardinalityType, Kinds DEF DuplicatesBounded

\* In particular one that only closes rows.
LEMMA Fewer ==
  ASSUME DuplicatesBounded, IsFiniteSet(rows), rows' \subseteq rows,
         \A m \in Models : RowsOf(m) # {} => Inserting(m)' \subseteq Inserting(m)
  PROVE  DuplicatesBounded' /\ IsFiniteSet(rows')
  <1>1. IsFiniteSet(rows')
    BY FS_Subset
  <1>2. ASSUME NEW m \in Models, RowsOf(m)' # {}
        PROVE  /\ RowsOf(m) # {} /\ Cardinality(RowsOf(m)') <= Cardinality(RowsOf(m))
               /\ Inserting(m)' \subseteq Inserting(m)
    <2>1. RowsOf(m)' \subseteq RowsOf(m) /\ IsFiniteSet(RowsOf(m))
      BY FS_Subset DEF RowsOf
    <2> QED BY <1>2, <2>1, FS_Subset
  <1> QED BY <1>1, <1>2, NoMore

\* A thread that goes on with the in-use set it has, and lines up nothing
\* new, spares whom it spared.
LEMMA Keeping ==
  ASSUME ResidencyInv, NEW t \in Threads, NEW r,
         t \in Callers => /\ r.seen = task[t].seen /\ r.fresh = task[t].fresh
                          /\ task[t].pc # "idle",
         r.pc \in {"evict", "close"} =>
            /\ task[t].pc \in {"evict", "close"} /\ r.fresh = task[t].fresh
            /\ \A i \in DOMAIN r.todo : \E j \in DOMAIN task[t].todo : r.todo[i] = task[t].todo[j]
  PROVE  Spares(t, r)
  <1>1. Spares(t, task[t])
    BY Threadwise DEF ResidencyInv
  <1> SUFFICES ASSUME NEW w \in Workers \ ({t} \cup r.fresh), ~task[w].past
               PROVE  /\ t \in Callers /\ r.pc # "idle" => task[w].model \in r.seen \cup {None}
                      /\ r.pc \in {"evict", "close"} /\ ~SameJob(w, t) =>
                            \A i \in DOMAIN r.todo : r.todo[i].model # task[w].model
    BY DEF Spares
  <1>2. CASE t \in Callers
    BY <1>1, <1>2 DEF Spares
  <1>3. CASE t \notin Callers
    BY <1>1, <1>3 DEF Spares
  <1> QED BY <1>2, <1>3

\* A thread that holds no model's rows up and lines nothing up spares
\* everyone, unless it is a request.
LEMMA Harmless ==
  ASSUME NEW t, NEW r, r.pc \notin {"evict", "close"}, t \notin Callers \/ r.pc = "idle"
  PROVE  Spares(t, r)
  BY DEF Spares

\* The in-flight entry of a thread that keeps its model.
LEMMA SameEntry ==
  ASSUME UNCHANGED inflight, NEW t, NEW r,
         t \in Workers => r.model = task[t].model /\ r.past = task[t].past
  PROVE  EntryKept(t, r)
  BY DEF EntryKept

\* The places of a thread that will insert a row.
Loading == {"evict", "close", "insert"}

\* A step of one thread that opens no row: it may come to load only a model
\* that has none.
LEMMA Closing ==
  ASSUME ResidencyInv, NEW t \in Threads, NEW r,
         Fits(t, r), Spares(t, r),
         t \in Workers \/ r.pc \in Loading => r.model \in {task[t].model, None},
         task' = [task EXCEPT ![t] = r], EntryKept(t, r),
         clock' \in Nat, held' \subseteq Models, rows' \subseteq rows,
         t \in Jobs /\ r.pc \in Loading =>
            task[t].pc \in Loading \/ RowsOf(task[t].model) = {}
  PROVE  ResidencyInv'
  <1>1. Stored /\ DOMAIN task = Threads /\ DuplicatesBounded /\ Fits(t, task[t])
    BY Threadwise DEF ResidencyInv, RowsBounded
  <1>2. ASSUME NEW m \in Models, RowsOf(m) # {} PROVE Inserting(m)' \subseteq Inserting(m)
    <2> SUFFICES ASSUME NEW u \in Inserting(m)' PROVE u \in Inserting(m)
      OBVIOUS
    <2>1. u \in Jobs /\ task'[u].model = m /\ task'[u].pc \in Loading
      BY DEF Inserting, Loading
    <2>2. CASE u # t
      BY <2>1, <2>2, <1>1, Kinds DEF Inserting, Loading
    <2>3. CASE u = t
      <3>1. r.model = m /\ r.pc \in Loading
        BY <2>1, <2>3, <1>1
      <3>2. task[t].model = m
        BY <3>1, Kinds
      <3> QED BY <2>1, <2>3, <3>1, <3>2, <1>2 DEF Inserting, Loading
    <2> QED BY <2>2, <2>3
  <1>3. DuplicatesBounded' /\ IsFiniteSet(rows')
    BY <1>1, <1>2, Fewer DEF Stored
  <1>4. inflight' \in [Workers -> [job : JobIds \cup {None}, model : Models \cup {None}]]
    BY <1>1 DEF Stored, EntryKept, NoEntry
  <1>5. Stored'
    BY <1>1, <1>3, <1>4 DEF Stored
  <1>6. (TypeOK /\ Placed /\ Registered /\ Spared)'
    BY <1>5, OneThread
  <1> QED BY <1>3, <1>6 DEF ResidencyInv, RowsBounded

\* The image of a finite set is finite, and no larger.
LEMMA ImageOf ==
  ASSUME NEW S, IsFiniteSet(S), NEW f
  PROVE  IsFiniteSet({f[x] : x \in S}) /\ Cardinality({f[x] : x \in S}) <= Cardinality(S)
  <1> DEFINE T == {f[x] : x \in S}
             g == [x \in S |-> f[x]]
  <1>1. g \in Surjection(S, T)
    BY DEF Surjection
  <1> HIDE DEF T, g
  <1>2. IsFiniteSet(T) /\ Cardinality(T) <= Cardinality(S)
    BY <1>1, FS_Surjection
  <1> QED BY <1>2 DEF T

\* The one row of a model that is used stays one row.
LEMMA Using ==
  ASSUME ResidencyInv, NEW t \in Threads, NEW r, NEW at \in Nat,
         Fits(t, r), Spares(t, r), r.model = task[t].model, r.past = task[t].past,
         r.pc \notin Loading,
         task' = [task EXCEPT ![t] = r], UNCHANGED inflight,
         clock' \in Nat, held' \subseteq Models, Used(task[t].model, at)
  PROVE  ResidencyInv'
  <1>1. Stored /\ DOMAIN task = Threads /\ DuplicatesBounded
    BY Threadwise DEF ResidencyInv, RowsBounded
  <1> DEFINE use == [x \in rows |-> IF x.model = task[t].model THEN [x EXCEPT !.used = at] ELSE x]
  <1>2. rows' = {use[x] : x \in rows}
    BY DEF Used
  <1>3. \A x \in rows : use[x] \in Row /\ use[x].model = x.model
    BY <1>1 DEF Stored, Row
  <1> HIDE DEF use
  <1>4. IsFiniteSet(rows') /\ rows' \subseteq Row
    BY <1>1, <1>2, <1>3, ImageOf DEF Stored
  <1>5. ASSUME NEW m \in Models, RowsOf(m)' # {}
        PROVE  /\ RowsOf(m) # {} /\ Cardinality(RowsOf(m)') <= Cardinality(RowsOf(m))
               /\ Inserting(m)' \subseteq Inserting(m)
    <2>1. RowsOf(m)' = {use[x] : x \in RowsOf(m)}
      BY <1>2, <1>3 DEF RowsOf
    <2>2. IsFiniteSet(RowsOf(m))
      BY <1>1, FS_Subset DEF RowsOf, Stored
    <2>3. Cardinality(RowsOf(m)') <= Cardinality(RowsOf(m))
      BY <2>1, <2>2, ImageOf
    <2>4. Inserting(m)' \subseteq Inserting(m)
      BY <1>1, Kinds DEF Inserting, Loading
    <2> QED BY <1>5, <2>1, <2>3, <2>4
  <1>6. DuplicatesBounded'
    BY <1>1, <1>4, <1>5, NoMore DEF Stored
  <1>7. Stored'
    BY <1>1, <1>4 DEF Stored
  <1>8. EntryKept(t, r)
    BY SameEntry
  <1>9. (TypeOK /\ Placed /\ Registered /\ Spared)'
    BY <1>7, <1>8, OneThread
  <1> QED BY <1>6, <1>9 DEF ResidencyInv, RowsBounded

-----------------------------------------------------------------------------
(* The actions.                                                            *)

\* The invariant of the thread that acts.
LEMMA Of ==
  ASSUME ResidencyInv, NEW t \in Threads
  PROVE  /\ Stored /\ DOMAIN task = Threads /\ Fits(t, task[t]) /\ Spares(t, task[t])
         /\ task[t].pc = "idle" \/ t = Scheduler \/ task[t].model \in Models
         /\ t # Scheduler => t \in Jobs
  BY Threadwise DEF ResidencyInv, RowsBounded, Fits, Threads

\* The in-use set holds the model of every worker whose entry names what it runs,
\* but of those that hold the reader's job.
LEMMA KnownInUse ==
  ASSUME ResidencyInv, NEW t, NEW w \in Workers, ~task[w].past, ~SameJob(w, t)
  PROVE  task[w].model \in InUseModelIds(t) \cup {None}
  BY DEF InUseModelIds, ResidencyInv, Registered

\* A job whose model is as resident as it will be keeps its model and, if it
\* is a request, its in-use set.
LEMMA ReadyIs ==
  ASSUME ResidencyInv, NEW t \in Jobs, task[t].pc # "idle"
  PROVE  /\ Fits(t, Ready(t)) /\ Spares(t, Ready(t))
         /\ Ready(t).model = task[t].model /\ Ready(t).past = task[t].past /\ Ready(t).pc = "run"
         /\ DOMAIN Ready(t) = DOMAIN Idle
         /\ t \in Callers => Ready(t).seen = task[t].seen /\ Ready(t).fresh = task[t].fresh
         /\ Ready(t).at = 0 /\ Ready(t).todo = <<>>
         /\ Ready(t).seen \subseteq Models /\ Ready(t).fresh \subseteq Workers
  <1>1. t \in Threads /\ t # Scheduler
    BY Kinds
  <1>2. Fits(t, task[t])
    BY <1>1, Of
  <1>3. /\ DOMAIN Ready(t) = DOMAIN Idle /\ Ready(t).pc = "run" /\ Ready(t).model = task[t].model
        /\ Ready(t).at = 0 /\ Ready(t).todo = <<>> /\ Ready(t).past = task[t].past
        /\ Ready(t).seen = IF t \in Callers THEN task[t].seen ELSE {}
        /\ Ready(t).fresh = IF t \in Callers THEN task[t].fresh ELSE {}
    BY IdleIs DEF Ready
  <1>4. Fits(t, Ready(t))
    BY <1>1, <1>2, <1>3 DEF Fits, PCs
  <1>5. Spares(t, Ready(t))
    BY <1>1, <1>3, Keeping
  <1> QED BY <1>2, <1>3, <1>4, <1>5 DEF Fits

\* A thread that stops.
LEMMA Stops ==
  ASSUME NEW t \in Threads
  PROVE  Fits(t, Idle) /\ Spares(t, Idle) /\ Idle.model = None
  <1>1. Fits(t, Idle)
    BY IdleIs DEF Fits, PCs
  <1>2. Spares(t, Idle)
    BY IdleIs, Harmless
  <1> QED BY <1>1, <1>2, IdleIs

\* An exception: the worker's job is over, a request goes on.
LEMMA RaisedStep ==
  ASSUME ResidencyInv, NEW t \in Jobs, task[t].pc # "idle", Raised(t),
         clock' \in Nat, UNCHANGED <<rows, held>>
  PROVE  ResidencyInv'
  <1>1. t \in Threads
    BY Kinds
  <1>2. Stored
    BY <1>1, Of
  <1>3. CASE t \in Workers
    <2>1. EntryKept(t, Idle)
      BY <1>3, IdleIs DEF Raised, EntryKept
    <2>2. Idle.pc \notin Loading
      BY IdleIs DEF Loading
    <2> QED BY <1>1, <1>2, <1>3, <2>1, <2>2, Stops, Closing DEF Raised, Stored
  <1>4. CASE t \notin Workers
    <2>1. EntryKept(t, Ready(t))
      BY <1>4, SameEntry DEF Raised
    <2>2. "run" \notin Loading
      BY DEF Loading
    <2> QED BY <1>1, <1>2, <1>4, <2>1, <2>2, ReadyIs, Closing DEF Raised, Stored
  <1> QED BY <1>3, <1>4

\* touch: the row of a resident model.
LEMMA TouchStep ==
  ASSUME ResidencyInv, NEW t \in Threads, Touch(t)
  PROVE  ResidencyInv'
  <1>1. Stored /\ Fits(t, task[t]) /\ t \in Jobs
    BY Of DEF Touch, Fits
  <1>2. task[t].pc # "idle" /\ clock' \in Nat /\ held' \subseteq Models /\ UNCHANGED held
    BY <1>1 DEF Touch, Stored
  <1>3. CASE Cardinality(RowsOf(task[t].model)) > 1
    BY <1>1, <1>2, <1>3, RaisedStep DEF Touch
  <1>4. CASE ~(Cardinality(RowsOf(task[t].model)) > 1)
    <2>1. task[t].at \in Nat /\ "run" \notin Loading
      BY <1>1 DEF Fits, Loading
    <2> QED BY <1>1, <1>2, <1>4, <2>1, ReadyIs, Using DEF Touch
  <1> QED BY <1>3, <1>4

\* A worker's attempt is over.
LEMMA RanStep ==
  ASSUME ResidencyInv, NEW t \in Workers, Ran(t)
  PROVE  ResidencyInv'
  <1>1. t \in Threads /\ t \in Jobs /\ t \notin Callers /\ t # Scheduler
    BY Kinds
  <1>2. Stored /\ Fits(t, task[t]) /\ DOMAIN task = Threads
    BY <1>1, Of
  <1>3. task[t].pc # "idle" /\ clock' \in Nat /\ held' \subseteq Models /\ UNCHANGED held
    BY <1>2 DEF Ran, Stored
  <1>4. CASE Cardinality(RowsOf(task[t].model)) > 1
    BY <1>1, <1>3, <1>4, RaisedStep DEF Ran
  <1>5. CASE ~(Cardinality(RowsOf(task[t].model)) > 1)
    <2> DEFINE r == [task[t] EXCEPT !.pc = "ran"]
    <2>1. task' = [task EXCEPT ![t] = r]
      BY <1>5, <1>2, <1>1 DEF Ran
    <2>2. /\ DOMAIN r = DOMAIN Idle /\ r.pc = "ran" /\ r.model = task[t].model
          /\ r.past = task[t].past /\ r.seen = task[t].seen /\ r.fresh = task[t].fresh /\ r.at = task[t].at
          /\ r.todo = task[t].todo
      BY <1>2, IdleIs DEF Fits
    <2> HIDE DEF r
    <2>3. Fits(t, r)
      BY <1>1, <1>2, <1>3, <2>2 DEF Fits, PCs
    <2>4. Spares(t, r) /\ r.pc \notin Loading
      BY <1>1, <2>2, Harmless DEF Loading
    <2>5. clock + 1 \in Nat
      BY <1>2 DEF Stored
    <2> QED BY <1>1, <1>3, <1>5, <2>1, <2>2, <2>3, <2>4, <2>5, Using DEF Ran
  <1> QED BY <1>4, <1>5

\* ensure_loaded reads the table: nobody's model is lined up that is in the
\* in-use set, and a row is missing if one is to be inserted.
LEMMA EnsureLoadedStep ==
  ASSUME ResidencyInv, NEW t \in Threads, EnsureLoaded(t)
  PROVE  ResidencyInv'
  <1>1. Stored /\ DOMAIN task = Threads /\ Fits(t, task[t]) /\ Spares(t, task[t]) /\ t \in Jobs
    BY Of DEF EnsureLoaded, Fits
  <1>6. task[t].pc = "resolve" /\ clock' = clock + 1 /\ UNCHANGED <<rows, held, inflight>>
    BY Zenon DEF EnsureLoaded
  <1>2. /\ task[t].pc = "resolve" /\ t # Scheduler /\ clock' = clock + 1 /\ clock' \in Nat
        /\ UNCHANGED <<rows, held, inflight>>
    BY <1>1, <1>6, Kinds DEF Stored
  <1>5. rows' \subseteq rows /\ held' \subseteq Models
    BY <1>1, <1>2 DEF Stored
  <1>3. CASE RowsOf(task[t].model) # {}
    <2> DEFINE r == [task[t] EXCEPT !.pc = "touch", !.at = clock + 1]
    <2>1. task' = [task EXCEPT ![t] = r]
      BY <1>3, <1>1 DEF EnsureLoaded
    <2>2. /\ DOMAIN r = DOMAIN Idle /\ r.pc = "touch" /\ r.model = task[t].model
          /\ r.past = task[t].past /\ r.seen = task[t].seen /\ r.fresh = task[t].fresh /\ r.at = clock + 1
          /\ r.todo = task[t].todo
      BY <1>1, IdleIs DEF Fits
    <2> HIDE DEF r
    <2>3. Fits(t, r)
      BY <1>1, <1>2, <2>2 DEF Fits, PCs
    <2>4. Spares(t, r)
      BY <1>2, <2>2, Keeping
    <2>5. EntryKept(t, r)
      BY <1>2, <2>2, SameEntry
    <2>6. r.pc \notin Loading
      BY <2>2 DEF Loading
    <2> QED BY <1>2, <1>5, <2>1, <2>2, <2>3, <2>4, <2>5, <2>6, Closing
  <1>4. CASE RowsOf(task[t].model) = {}
    <2> DEFINE seen == IF t \in Workers THEN InUseModelIds(t) ELSE task[t].seen
               S    == {x \in rows : x.model \notin seen}
    <2>1. PICK order \in OldestFirst(S) :
             task' = [task EXCEPT ![t] =
                        [task[t] EXCEPT !.pc = "evict", !.at = clock + 1, !.todo = order,
                                        !.size = Cardinality(rows), !.free = Free]]
      BY <1>1, <1>4 DEF EnsureLoaded
    <2> DEFINE r == [task[t] EXCEPT !.pc = "evict", !.at = clock + 1, !.todo = order,
                                    !.size = Cardinality(rows), !.free = Free]
    <2>2. /\ DOMAIN r = DOMAIN Idle /\ r.pc = "evict" /\ r.model = task[t].model
          /\ r.past = task[t].past /\ r.seen = task[t].seen /\ r.fresh = task[t].fresh /\ r.at = clock + 1
          /\ r.todo = order
      BY <1>1, IdleIs DEF Fits
    <2>3. task' = [task EXCEPT ![t] = r]
      BY <2>1
    <2>4. S \subseteq Row /\ IsFiniteSet(S)
      BY <1>1, FS_Subset DEF Stored
    <2> HIDE DEF r, S
    <2>5. order \in Seq(Row) /\ \A i \in DOMAIN order : order[i] \in S
      BY <2>4, Lined
    <2>6. \A i \in DOMAIN order : order[i].model \in Models \ seen
      BY <2>5, <1>1 DEF S, Stored, Row
    <2>7. Fits(t, r)
      BY <1>1, <1>2, <2>2, <2>5 DEF Fits, PCs
    <2>8. ASSUME NEW w \in Workers \ ({t} \cup r.fresh), NEW i \in DOMAIN order,
                 ~task[w].past, ~SameJob(w, t)
          PROVE  order[i].model # task[w].model
      <3>1. CASE t \in Workers
        <4>1. task[w].model \in InUseModelIds(t) \cup {None}
          BY <2>8, KnownInUse
        <4> QED BY <3>1, <4>1, <2>6, Kinds
      <3>2. CASE t \notin Workers
        <4>1. t \in Callers
          BY <3>2, <1>1 DEF Jobs
        <4>2. task[w].model \in task[t].seen \cup {None}
          BY <4>1, <1>1, <1>2, <2>2, <2>8 DEF Spares
        <4> QED BY <3>2, <4>2, <2>6, Kinds
      <3> QED BY <3>1, <3>2
    <2>9. Spares(t, r)
      BY <2>8, <1>1, <1>2, <2>2 DEF Spares
    <2>10. EntryKept(t, r)
      BY <1>2, <2>2, SameEntry
    <2> QED BY <1>2, <1>4, <1>5, <2>2, <2>3, <2>7, <2>9, <2>10, Closing
  <1> QED BY <1>3, <1>4

\* A step of one thread that changes its place and what it has lined up, and
\* nothing else that anyone relies on.
LEMMA Proceeding ==
  ASSUME ResidencyInv, NEW t \in Threads, NEW r,
         task' = [task EXCEPT ![t] = r],
         DOMAIN r = DOMAIN Idle, r.model = task[t].model, r.past = task[t].past,
         r.fresh = task[t].fresh, r.seen = task[t].seen, r.at = task[t].at, r.todo \in Seq(Row),
         r.pc = "close" => r.todo # <<>>,
         \A i \in DOMAIN r.todo : \E j \in DOMAIN task[t].todo : r.todo[i] = task[t].todo[j],
         \/ task[t].pc \in {"evict", "close"} /\ r.pc \in {"evict", "close"}
         \/ task[t].pc = "reconcile" /\ r.pc = "reconcile"
         \/ task[t].pc = "run" /\ r.pc = "running",
         clock' \in Nat, held' \subseteq Models, rows' \subseteq rows, UNCHANGED inflight
  PROVE  ResidencyInv'
  <1>1. Fits(t, task[t])
    BY Of
  <1>2. Fits(t, r)
    BY <1>1 DEF Fits, PCs
  <1>3. Spares(t, r)
    BY Keeping
  <1>4. EntryKept(t, r)
    BY SameEntry
  <1>5. r.pc \in Loading => task[t].pc \in Loading
    BY DEF Loading
  <1> QED BY <1>2, <1>3, <1>4, <1>5, Closing

\* Eviction and reconciliation unload and close what was lined up.
LEMMA UnloadSteps ==
  ASSUME ResidencyInv, NEW t \in Threads,
         Unload(t) \/ UnloadFails(t) \/ Close(t) \/ Run(t) \/ (t = Scheduler /\ CloseReported)
  PROVE  ResidencyInv'
  <1>1. Stored /\ DOMAIN task = Threads /\ Fits(t, task[t])
    BY Of
  <1>2. /\ task[t].todo \in Seq(Row)
        /\ task[t].todo # <<>> =>
              /\ Tail(task[t].todo) \in Seq(Row)
              /\ \A i \in DOMAIN Tail(task[t].todo) :
                    \E j \in DOMAIN task[t].todo : Tail(task[t].todo)[i] = task[t].todo[j]
    BY <1>1, Rest DEF Fits
  <1>3. CASE Unload(t)
    <2> DEFINE r == [task[t] EXCEPT !.pc = "close"]
    <2>1. /\ task' = [task EXCEPT ![t] = r] /\ task[t].pc = "evict" /\ task[t].todo # <<>>
          /\ clock' \in Nat /\ held' \subseteq Models /\ rows' \subseteq rows /\ UNCHANGED inflight
      BY <1>1, <1>3 DEF Unload, Stored
    <2>2. /\ DOMAIN r = DOMAIN Idle /\ r.pc = "close" /\ r.model = task[t].model
          /\ r.past = task[t].past /\ r.seen = task[t].seen /\ r.fresh = task[t].fresh /\ r.at = task[t].at
          /\ r.todo = task[t].todo
      BY <1>1, IdleIs DEF Fits
    <2> HIDE DEF r
    <2> QED BY <1>2, <2>1, <2>2, Proceeding
  <1>4. CASE UnloadFails(t)
    <2> DEFINE r == [task[t] EXCEPT !.todo = Tail(@)]
    <2>1. /\ task' = [task EXCEPT ![t] = r] /\ task[t].pc = "evict" /\ task[t].todo # <<>>
          /\ clock' \in Nat /\ held' \subseteq Models /\ rows' \subseteq rows /\ UNCHANGED inflight
      BY <1>1, <1>4 DEF UnloadFails, Stored
    <2>2. /\ DOMAIN r = DOMAIN Idle /\ r.pc = "evict" /\ r.model = task[t].model
          /\ r.past = task[t].past /\ r.seen = task[t].seen /\ r.fresh = task[t].fresh /\ r.at = task[t].at
          /\ r.todo = Tail(task[t].todo)
      BY <1>1, <2>1, IdleIs DEF Fits
    <2> HIDE DEF r
    <2>3. r.todo \in Seq(Row) /\ \A i \in DOMAIN r.todo :
                                  \E j \in DOMAIN task[t].todo : r.todo[i] = task[t].todo[j]
      BY <1>2, <2>1, <2>2
    <2> QED BY <2>1, <2>2, <2>3, Proceeding
  <1>5. CASE Close(t)
    <2> DEFINE r == [task[t] EXCEPT !.pc = "evict", !.todo = Tail(task[t].todo),
                                    !.size = task[t].size - 1,
                                    !.free = task[t].free + Recorded(Head(task[t].todo).model)]
    <2>1. task' = [task EXCEPT ![t] = r] /\ task[t].pc = "close"
      BY <1>5, Zenon DEF Close
    <2>3. clock' \in Nat /\ held' \subseteq Models /\ rows' \subseteq rows /\ UNCHANGED inflight
      BY <1>1, <1>5 DEF Close, Stored
    <2>2. /\ DOMAIN r = DOMAIN Idle /\ r.pc = "evict" /\ r.model = task[t].model
          /\ r.past = task[t].past /\ r.seen = task[t].seen /\ r.fresh = task[t].fresh /\ r.at = task[t].at
          /\ r.todo = Tail(task[t].todo) /\ task[t].todo # <<>>
      BY <1>1, <2>1, IdleIs DEF Fits
    <2> HIDE DEF r
    <2>4. r.todo \in Seq(Row) /\ \A i \in DOMAIN r.todo :
                                  \E j \in DOMAIN task[t].todo : r.todo[i] = task[t].todo[j]
      BY <1>2, <2>2
    <2> QED BY <2>1, <2>2, <2>3, <2>4, Proceeding
  <1>6. CASE Run(t)
    <2> DEFINE r == [task[t] EXCEPT !.pc = "running"]
    <2>1. /\ task' = [task EXCEPT ![t] = r] /\ task[t].pc = "run"
          /\ clock' \in Nat /\ rows' \subseteq rows /\ UNCHANGED inflight
      BY <1>1, <1>6 DEF Run, Stored
    <2>2. held' \subseteq Models
      BY <1>1, <1>6 DEF Run, Stored, Fits
    <2>3. /\ DOMAIN r = DOMAIN Idle /\ r.pc = "running" /\ r.model = task[t].model
          /\ r.past = task[t].past /\ r.seen = task[t].seen /\ r.fresh = task[t].fresh /\ r.at = task[t].at
          /\ r.todo = task[t].todo
      BY <1>1, IdleIs DEF Fits
    <2> HIDE DEF r
    <2> QED BY <1>2, <2>1, <2>2, <2>3, Proceeding
  <1>7. CASE t = Scheduler /\ CloseReported
    <2> DEFINE r == [task[t] EXCEPT !.todo = Tail(@)]
    <2>1. /\ task' = [task EXCEPT ![t] = r] /\ task[t].pc = "reconcile" /\ task[t].todo # <<>>
          /\ clock' \in Nat /\ held' \subseteq Models /\ rows' \subseteq rows /\ UNCHANGED inflight
      BY <1>1, <1>7 DEF CloseReported, Stored
    <2>2. /\ DOMAIN r = DOMAIN Idle /\ r.pc = "reconcile" /\ r.model = task[t].model
          /\ r.past = task[t].past /\ r.seen = task[t].seen /\ r.fresh = task[t].fresh /\ r.at = task[t].at
          /\ r.todo = Tail(task[t].todo)
      BY <1>1, <2>1, IdleIs DEF Fits
    <2> HIDE DEF r
    <2>3. r.todo \in Seq(Row) /\ \A i \in DOMAIN r.todo :
                                  \E j \in DOMAIN task[t].todo : r.todo[i] = task[t].todo[j]
      BY <1>2, <2>1, <2>2
    <2> QED BY <2>1, <2>2, <2>3, Proceeding
  <1> QED BY <1>3, <1>4, <1>5, <1>6, <1>7

\* The provider refuses to load, or the job is over.
LEMMA EndSteps ==
  ASSUME ResidencyInv, NEW t \in Threads, LoadFails(t) \/ Leave(t) \/ (t = Scheduler /\ Swept)
  PROVE  ResidencyInv'
  <1>1. Stored /\ DOMAIN task = Threads /\ Fits(t, task[t])
    BY Of
  <1>2. clock' \in Nat /\ held' \subseteq Models /\ rows' \subseteq rows
    BY <1>1 DEF LoadFails, Leave, Swept, Stored
  <1>3. Idle.pc \notin Loading /\ "run" \notin Loading
    BY IdleIs DEF Loading
  <1>4. CASE LoadFails(t)
    <2>1. t \in Jobs /\ task[t].pc # "idle"
      BY <1>4, Of DEF LoadFails
    <2>2. EntryKept(t, Ready(t))
      BY <1>4, <2>1, SameEntry, ReadyIs DEF LoadFails
    <2> QED BY <1>2, <1>3, <1>4, <2>1, <2>2, ReadyIs, Closing DEF LoadFails
  <1>5. CASE Leave(t)
    <2>1. EntryKept(t, Idle)
      <3>1. CASE t \in Workers
        BY <1>1, <1>5, <3>1, IdleIs DEF Leave, EntryKept, Stored
      <3>2. CASE t \notin Workers
        <4>1. inflight' = inflight
          BY <1>1, <1>5, <3>2 DEF Leave, Stored
        <4> QED BY <3>2, <4>1, SameEntry
      <3> QED BY <3>1, <3>2
    <2> QED BY <1>2, <1>3, <1>5, <2>1, Stops, Closing DEF Leave
  <1>6. CASE t = Scheduler /\ Swept
    <2>1. t \notin Workers
      BY <1>6, Kinds
    <2>2. EntryKept(t, Idle)
      BY <1>6, <2>1, SameEntry DEF Swept
    <2> QED BY <1>2, <1>3, <1>6, <2>1, <2>2, Stops, Closing DEF Swept
  <1> QED BY <1>4, <1>5, <1>6

\* The model is loaded; its row is still to come.
LEMMA LoadStep ==
  ASSUME ResidencyInv, NEW t \in Threads, Load(t)
  PROVE  ResidencyInv'
  <1>1. Stored /\ DOMAIN task = Threads /\ Fits(t, task[t]) /\ t \in Jobs /\ task[t].model \in Models
    BY Of DEF Load
  <1>2. task[t].pc = "evict" /\ t # Scheduler
    BY DEF Load
  <1> DEFINE r == [Ready(t) EXCEPT !.pc = "insert", !.at = task[t].at]
  <1>3. task' = [task EXCEPT ![t] = r] /\ UNCHANGED <<clock, rows, inflight>>
    BY DEF Load
  <1>4. clock' \in Nat /\ held' \subseteq Models /\ rows' \subseteq rows
    BY <1>1, <1>3 DEF Load, Stored
  <1>5. /\ DOMAIN r = DOMAIN Idle /\ r.pc = "insert" /\ r.model = task[t].model /\ r.past = task[t].past
        /\ r.seen = Ready(t).seen /\ r.fresh = Ready(t).fresh /\ r.at = task[t].at
        /\ r.todo = <<>>
    BY <1>1, <1>2, IdleIs, ReadyIs
  <1> HIDE DEF r
  <1>6. Fits(t, r)
    BY <1>1, <1>2, <1>5, ReadyIs DEF Fits, PCs
  <1>7. Spares(t, r)
    BY <1>1, <1>2, <1>5, ReadyIs, Keeping
  <1>8. EntryKept(t, r)
    BY <1>3, <1>5, SameEntry
  <1>9. task[t].pc \in Loading
    BY <1>2 DEF Loading
  <1> QED BY <1>1, <1>3, <1>4, <1>5, <1>6, <1>7, <1>8, <1>9, Closing

\* A row is inserted by a thread that was counted among those to insert one.
LEMMA InsertStep ==
  ASSUME ResidencyInv, NEW t \in Threads, Insert(t)
  PROVE  ResidencyInv'
  <1>1. Stored /\ DOMAIN task = Threads /\ Fits(t, task[t]) /\ DuplicatesBounded
    BY Of DEF ResidencyInv, RowsBounded
  <1>2. task[t].pc = "insert" /\ t \in Jobs /\ t # Scheduler /\ task[t].model \in Models
    BY Of DEF Insert, Fits
  <1> DEFINE new == [model |-> task[t].model, loaded |-> task[t].at, used |-> task[t].at]
             mine == task[t].model
  <1>3. rows' = rows \cup {new} /\ task' = [task EXCEPT ![t] = Ready(t)] /\ UNCHANGED <<clock, held, inflight>>
    BY DEF Insert
  <1>4. new \in Row /\ new.model = mine
    BY <1>1, <1>2 DEF Fits, Row
  <1> HIDE DEF new
  <1>5. IsFiniteSet(rows')
    BY <1>1, <1>3, FS_AddElement DEF Stored
  <1>6. Stored'
    BY <1>1, <1>3, <1>4, <1>5 DEF Stored
  <1>7. Ready(t).model = mine /\ Ready(t).pc = "run" /\ Fits(t, Ready(t)) /\ Spares(t, Ready(t))
    BY <1>2, ReadyIs
  <1>8. EntryKept(t, Ready(t))
    BY <1>2, <1>3, ReadyIs, SameEntry
  <1>9. (TypeOK /\ Placed /\ Registered /\ Spared)'
    BY <1>3, <1>6, <1>7, <1>8, OneThread
  <1>10. ASSUME NEW m \in Models, RowsOf(m)' # {}
         PROVE  Cardinality(RowsOf(m)') + Cardinality(Inserting(m)') <= Cardinality(Jobs)
    <2>1. IsFiniteSet(RowsOf(m)) /\ IsFiniteSet(Inserting(m))
      BY <1>1, Kinds, FS_Subset DEF RowsOf, Inserting, Stored
    <2>2. /\ Cardinality(RowsOf(m)) \in Nat /\ Cardinality(Inserting(m)) \in Nat
          /\ Cardinality(Inserting(m)) <= Cardinality(Jobs)
      <3>1. Inserting(m) \subseteq Jobs
        BY DEF Inserting
      <3> QED BY <2>1, <3>1, Kinds, FS_CardinalityType, FS_Subset
    <2>3. CASE m # mine
      <3>1. RowsOf(m)' = RowsOf(m)
        BY <1>3, <1>4, <2>3 DEF RowsOf
      <3>2. Inserting(m)' = Inserting(m)
        BY <1>1, <1>2, <1>3, <1>7, <2>3, Kinds DEF Inserting
      <3> QED BY <1>1, <1>10, <3>1, <3>2 DEF DuplicatesBounded
    <2>4. CASE m = mine
      <3>1. RowsOf(m)' = RowsOf(m) \cup {new}
        BY <1>3, <1>4, <2>4 DEF RowsOf
      <3>2. Cardinality(RowsOf(m)') <= Cardinality(RowsOf(m)) + 1
        <4>1. \/ Cardinality(RowsOf(m) \cup {new}) = Cardinality(RowsOf(m))
              \/ Cardinality(RowsOf(m) \cup {new}) = Cardinality(RowsOf(m)) + 1
          BY <2>1, FS_AddElement
        <4> QED BY <2>2, <3>1, <4>1
      <3>3. Inserting(m)' = Inserting(m) \ {t} /\ t \in Inserting(m)
        BY <1>1, <1>2, <1>3, <1>7, <2>4, Kinds DEF Inserting
      <3>4. Cardinality(Inserting(m)') = Cardinality(Inserting(m)) - 1
        BY <2>1, <3>3, FS_RemoveElement
      <3>5. Cardinality(RowsOf(m)') \in Nat
        BY <2>1, <3>1, FS_AddElement, FS_CardinalityType
      <3>6. CASE RowsOf(m) = {}
        <4>1. Cardinality(RowsOf(m)) = 0
          BY <3>6, FS_EmptySet
        <4> QED BY <2>2, <3>2, <3>4, <3>5, <4>1, Kinds
      <3>7. CASE RowsOf(m) # {}
        <4>1. Cardinality(RowsOf(m)) + Cardinality(Inserting(m)) <= Cardinality(Jobs)
          BY <1>1, <3>7 DEF DuplicatesBounded
        <4> QED BY <2>2, <3>2, <3>4, <3>5, <4>1, Kinds
      <3> QED BY <3>6, <3>7
    <2> QED BY <2>3, <2>4
  <1>11. DuplicatesBounded'
    BY <1>10 DEF DuplicatesBounded
  <1> QED BY <1>9, <1>11 DEF ResidencyInv, RowsBounded

\* A request, with the in-use set of this instant, and its next candidate.
LEMMA RequestSteps ==
  ASSUME ResidencyInv, NEW t \in Callers, NEW m \in Models, Request(t, m) \/ NextCandidate(t, m)
  PROVE  ResidencyInv'
  <1>1. t \in Threads /\ t # Scheduler /\ t \notin Workers
    BY Kinds
  <1>2. Stored /\ DOMAIN task = Threads /\ Fits(t, task[t])
    BY <1>1, Of
  <1>3. /\ UNCHANGED <<clock, rows, held, inflight>> /\ clock' \in Nat /\ held' \subseteq Models
        /\ rows' \subseteq rows
    BY <1>2 DEF Request, NextCandidate, Stored
  <1>4. "resolve" \notin Loading
    BY DEF Loading
  <1>5. CASE Request(t, m)
    <2> DEFINE r == [Idle EXCEPT !.pc = "resolve", !.model = m, !.seen = InUseModelIds(t)]
    <2>1. task' = [task EXCEPT ![t] = r]
      BY <1>5 DEF Request
    <2>2. /\ DOMAIN r = DOMAIN Idle /\ r.pc = "resolve" /\ r.model = m /\ r.seen = InUseModelIds(t)
          /\ r.past \in BOOLEAN /\ r.fresh = {} /\ r.at = 0 /\ r.todo = <<>>
      BY IdleIs
    <2> HIDE DEF r
    <2>3. InUseModelIds(t) \subseteq Models
      BY <1>2 DEF InUseModelIds, Stored
    <2>4. Fits(t, r)
      BY <1>1, <2>2, <2>3 DEF Fits, PCs
    <2>5. \A w \in Workers : task[w].past \/ task[w].model \in InUseModelIds(t) \cup {None}
      BY <1>1, KnownInUse DEF SameJob
    <2>6. Spares(t, r)
      BY <2>2, <2>5 DEF Spares
    <2>7. EntryKept(t, r)
      BY <1>1, <1>3, SameEntry
    <2> QED BY <1>1, <1>3, <1>4, <2>1, <2>2, <2>4, <2>6, <2>7, Closing
  <1>6. CASE NextCandidate(t, m)
    <2> DEFINE r == [task[t] EXCEPT !.pc = "resolve", !.model = m]
    <2>1. task' = [task EXCEPT ![t] = r] /\ task[t].pc = "running"
      BY <1>6 DEF NextCandidate
    <2>2. /\ DOMAIN r = DOMAIN Idle /\ r.pc = "resolve" /\ r.model = m /\ r.seen = task[t].seen
          /\ r.past = task[t].past /\ r.fresh = task[t].fresh /\ r.at = task[t].at /\ r.todo = task[t].todo
      BY <1>2, IdleIs DEF Fits
    <2> HIDE DEF r
    <2>3. Fits(t, r)
      BY <1>1, <1>2, <2>2 DEF Fits, PCs
    <2>4. Spares(t, r)
      BY <1>1, <2>1, <2>2, Keeping
    <2>5. EntryKept(t, r)
      BY <1>1, <1>3, SameEntry
    <2> QED BY <1>1, <1>3, <1>4, <2>1, <2>2, <2>3, <2>4, <2>5, Closing
  <1> QED BY <1>5, <1>6

\* The scheduler's sweeps read the in-use set or the provider's report.
LEMMA SweepSteps ==
  ASSUME ResidencyInv, (\E cut \in 0 .. clock : EvictIdle(cut)) \/ Sync \/ SyncRows
  PROVE  ResidencyInv'
  <1> DEFINE t == Scheduler
  <1>1. t \in Threads /\ t \notin Workers /\ t \notin Callers /\ t \notin Jobs
    BY Kinds
  <1> HIDE DEF t
  <1>2. Stored /\ DOMAIN task = Threads /\ Fits(t, task[t])
    BY <1>1, Of
  <1>3. UNCHANGED <<clock, rows, held, inflight>>
    BY DEF EvictIdle, Sync, SyncRows
  <1>4. clock' \in Nat /\ held' \subseteq Models /\ rows' \subseteq rows
    BY <1>2, <1>3 DEF Stored
  <1>5. ASSUME NEW S, S \subseteq rows, NEW order \in OldestFirst(S)
        PROVE  order \in Seq(Row) /\ \A i \in DOMAIN order : order[i] \in S /\ order[i].model # None
    <2>1. S \subseteq Row /\ IsFiniteSet(S)
      BY <1>2, <1>5, FS_Subset DEF Stored
    <2>2. order \in Seq(Row) /\ \A i \in DOMAIN order : order[i] \in S
      BY <2>1, Lined
    <2> QED BY <2>1, <2>2, Kinds DEF Row
  <1>6. ASSUME NEW r, Fits(t, r), Spares(t, r), task' = [task EXCEPT ![t] = r],
               r.model \in {task[t].model, None}
        PROVE  ResidencyInv'
    <2>1. EntryKept(t, r)
      BY <1>1, <1>3, SameEntry
    <2> QED BY <1>1, <1>4, <1>6, <2>1, Closing
  <1>7. ASSUME NEW cut \in 0 .. clock, EvictIdle(cut) PROVE ResidencyInv'
    <2> DEFINE S == {x \in rows : x.used <= cut /\ x.model \notin InUseModelIds(t)}
    <2>1. PICK order \in OldestFirst(S) :
             task' = [task EXCEPT ![t] = [Idle EXCEPT !.pc = "evict", !.todo = order]]
      BY <1>7 DEF EvictIdle, t
    <2> DEFINE r == [Idle EXCEPT !.pc = "evict", !.todo = order]
    <2>2. task' = [task EXCEPT ![t] = r]
      BY <2>1
    <2>3. /\ DOMAIN r = DOMAIN Idle /\ r.pc = "evict" /\ r.model = None /\ r.seen = {}
          /\ r.past \in BOOLEAN /\ r.fresh = {} /\ r.at = 0 /\ r.todo = order
      BY IdleIs
    <2>4. S \subseteq rows
      OBVIOUS
    <2> HIDE DEF r, S
    <2>5. order \in Seq(Row) /\ \A i \in DOMAIN order : order[i] \in S /\ order[i].model # None
      BY <1>5, <2>4
    <2>6. Fits(t, r)
      BY <2>3, <2>5 DEF Fits, PCs, t
    <2>7. \A w \in Workers : task[w].past \/ task[w].model \in InUseModelIds(t) \cup {None}
      BY <1>1, KnownInUse DEF SameJob
    <2>8. Spares(t, r)
      BY <1>1, <2>3, <2>5, <2>7 DEF Spares, S
    <2> QED BY <1>6, <2>2, <2>3, <2>6, <2>8
  <1>8. CASE Sync
    <2> DEFINE r == [Idle EXCEPT !.pc = "reported", !.seen = held \ Elsewhere]
    <2>1. task' = [task EXCEPT ![t] = r]
      BY <1>8 DEF Sync, t
    <2>2. /\ DOMAIN r = DOMAIN Idle /\ r.pc = "reported" /\ r.model = None /\ r.seen = held \ Elsewhere
          /\ r.past \in BOOLEAN /\ r.fresh = {} /\ r.at = 0 /\ r.todo = <<>>
      BY IdleIs
    <2> HIDE DEF r
    <2>3. Fits(t, r)
      BY <1>2, <2>2 DEF Fits, PCs, t, Stored
    <2>4. Spares(t, r)
      BY <1>1, <2>2, Harmless
    <2> QED BY <1>6, <2>1, <2>2, <2>3, <2>4
  <1>9. CASE SyncRows
    <2> DEFINE S == {x \in rows : x.model \notin task[t].seen}
    <2>1. PICK order \in OldestFirst(S) :
             task' = [task EXCEPT ![t] =
                        [task[t] EXCEPT !.pc = "reconcile", !.seen = {}, !.todo = order]]
      BY <1>9, Zenon DEF SyncRows, t
    <2> DEFINE r == [task[t] EXCEPT !.pc = "reconcile", !.seen = {}, !.todo = order]
    <2>2. task' = [task EXCEPT ![t] = r]
      BY <2>1
    <2>3. /\ DOMAIN r = DOMAIN Idle /\ r.pc = "reconcile" /\ r.model = task[t].model /\ r.seen = {}
          /\ r.past = task[t].past /\ r.fresh = task[t].fresh /\ r.at = task[t].at /\ r.todo = order
      BY <1>2, IdleIs DEF Fits
    <2>4. S \subseteq rows
      OBVIOUS
    <2> HIDE DEF r, S
    <2>5. order \in Seq(Row)
      BY <1>5, <2>4
    <2>6. Fits(t, r)
      BY <1>2, <2>3, <2>5 DEF Fits, PCs, t
    <2>7. Spares(t, r)
      BY <1>1, <2>3, Harmless
    <2> QED BY <1>6, <2>2, <2>3, <2>6, <2>7
  <1> QED BY <1>7, <1>8, <1>9

\* A worker enters with a model: everyone who goes by an in-use set notes it
\* as one that came later.
LEMMA EnterStep ==
  ASSUME ResidencyInv, NEW w \in Workers, NEW j \in JobIds \cup {None}, NEW p \in Models,
         NEW m \in Models, task[w].pc \in {"idle", "ran"}, Enter(w, j, p, m)
  PROVE  ResidencyInv'
  <1>1. Stored /\ DOMAIN task = Threads /\ DuplicatesBounded
    BY Threadwise DEF ResidencyInv, RowsBounded
  <1>2. w \in Threads /\ w # Scheduler /\ w \notin Callers
    BY Kinds
  <1> DEFINE mine  == [Idle EXCEPT !.pc = "resolve", !.model = m, !.past = p # m]
             tasks == [task EXCEPT ![w] = mine]
  <1>3. /\ DOMAIN mine = DOMAIN Idle /\ mine.pc = "resolve" /\ mine.model = m
        /\ mine.past = (p # m) /\ mine.seen = {} /\ mine.fresh = {} /\ mine.at = 0 /\ mine.todo = <<>>
    BY IdleIs
  <1>4. /\ inflight' = [inflight EXCEPT ![w] = [job |-> j, model |-> p]]
        /\ task' = NotedBy(w, tasks) /\ UNCHANGED <<clock, rows, held>>
    BY DEF Enter
  <1> HIDE DEF mine
  <1>5. tasks[w] = mine /\ \A t \in Threads \ {w} : tasks[t] = task[t]
    BY <1>1, <1>2
  <1> HIDE DEF tasks
  <1>6. DOMAIN task' = Threads /\ task'[w] = mine
    BY <1>2, <1>4, <1>5 DEF NotedBy
  <1>7. ASSUME NEW t \in Threads \ {w}
        PROVE  task'[t] = IF Goes(t, task) THEN [task[t] EXCEPT !.fresh = @ \cup {w}] ELSE task[t]
    BY <1>4, <1>5 DEF NotedBy, Goes
  <1>8. ASSUME NEW t \in Threads \ {w}
        PROVE  /\ task'[t].fresh = IF Goes(t, task) THEN task[t].fresh \cup {w} ELSE task[t].fresh
               /\ DOMAIN task'[t] = DOMAIN Idle /\ task'[t].pc = task[t].pc
               /\ task'[t].model = task[t].model /\ task'[t].past = task[t].past
               /\ task'[t].seen = task[t].seen
               /\ task'[t].at = task[t].at /\ task'[t].todo = task[t].todo
    <2>1. Fits(t, task[t])
      BY Of
    <2> QED BY <2>1, <1>7, IdleIs DEF Fits
  <1>9. ASSUME NEW t \in Threads PROVE Fits(t, task'[t])
    <2>1. CASE t = w
      <3>1. Fits(w, mine)
        BY <1>2, <1>3 DEF Fits, PCs
      <3> QED BY <2>1, <3>1, <1>6
    <2>2. CASE t # w
      <3>1. Fits(t, task[t])
        BY Of
      <3> QED BY <2>2, <3>1, <1>8 DEF Fits
    <2> QED BY <2>1, <2>2
  <1>10. Stored'
    BY <1>1, <1>4 DEF Stored
  <1>11. (TypeOK /\ Placed)'
    BY <1>6, <1>9, <1>10, ThreadwiseNext
  <1>12. Registered'
    <2> SUFFICES ASSUME NEW v \in Workers
                 PROVE  task'[v].past \/ inflight'[v].model = task'[v].model
      BY DEF Registered
    <2>1. CASE v = w
      <3>1. inflight'[v].model = p
        BY <1>1, <1>4, <2>1 DEF Stored
      <3>2. task'[v].model = m /\ (task'[v].past <=> p # m)
        BY <1>3, <1>6, <2>1
      <3> QED BY <3>1, <3>2
    <2>2. CASE v # w
      <3>1. inflight'[v] = inflight[v] /\ v \in Threads
        BY <1>1, <1>4, <2>2, Kinds DEF Stored
      <3> QED BY <1>8, <2>2, <3>1 DEF Registered, ResidencyInv
    <2> QED BY <2>1, <2>2
  <1>13. ASSUME NEW t \in Threads PROVE (Spares(t, task[t]))'
    <2>1. CASE t = w
      BY <2>1, <1>2, <1>3, <1>6 DEF Spares
    <2>2. CASE t # w /\ Goes(t, task)
      <3>1. Spares(t, task[t])
        BY Of
      <3>2. \A v \in Workers \ ({t} \cup task'[t].fresh) :
               /\ v \in Workers \ ({t} \cup task[t].fresh) /\ task'[v].model = task[v].model
               /\ task'[v].past = task[v].past /\ (SameJob(v, t)' <=> SameJob(v, t))
        BY <1>1, <1>4, <2>2, <1>8, Kinds DEF SameJob, Stored
      <3>3. /\ task'[t].pc = task[t].pc /\ task'[t].seen = task[t].seen
            /\ task'[t].todo = task[t].todo
        BY <2>2, <1>8
      <3> QED BY <3>1, <3>2, <3>3 DEF Spares
    <2>3. CASE t # w /\ ~Goes(t, task)
      BY <2>3, <1>8 DEF Spares, Goes
    <2> QED BY <2>1, <2>2, <2>3
  <1>14. Spared'
    BY <1>13, ThreadwiseNext
  <1>15. \A k \in Models : Inserting(k)' \subseteq Inserting(k)
    BY <1>3, <1>6, <1>8, Kinds DEF Inserting
  <1>16. rows' \subseteq rows
    BY <1>4
  <1>17. DuplicatesBounded'
    BY <1>1, <1>15, <1>16, Fewer DEF Stored
  <1> QED BY <1>11, <1>12, <1>14, <1>17 DEF ResidencyInv, RowsBounded

\* The server starts again: nobody is about to do anything.
LEMMA RestartStep ==
  ASSUME ResidencyInv, NEW answers \in BOOLEAN, Restart(answers)
  PROVE  ResidencyInv'
  <1>1. Stored /\ DuplicatesBounded
    BY Threadwise DEF ResidencyInv, RowsBounded
  <1>2. /\ clock' = clock + 1 /\ task' = [t \in Threads |-> Idle]
        /\ inflight' = [w \in Workers |-> NoEntry] /\ rows' \subseteq rows /\ UNCHANGED held
    BY DEF Restart
  <1>3. \A k \in Models : Inserting(k)' \subseteq Inserting(k)
    BY <1>2, IdleIs, Kinds DEF Inserting
  <1>4. DuplicatesBounded' /\ IsFiniteSet(rows')
    BY <1>1, <1>2, <1>3, Fewer DEF Stored
  <1>5. Stored'
    BY <1>1, <1>2, <1>4 DEF Stored, NoEntry
  <1>6. (TypeOK /\ Placed)'
    BY <1>2, <1>5, Stops, ThreadwiseNext
  <1>7. Registered'
    BY <1>2, IdleIs, Kinds DEF Registered, NoEntry
  <1>8. Spared'
    BY <1>2, IdleIs, ThreadwiseNext DEF Spares
  <1> QED BY <1>4, <1>6, <1>7, <1>8 DEF ResidencyInv, RowsBounded

\* A provider drops a model.
LEMMA DropsStep ==
  ASSUME ResidencyInv, NEW m \in Models, Drops(m)
  PROVE  ResidencyInv'
  <1>1. held' \subseteq Models /\ UNCHANGED <<clock, rows, inflight, task>>
    BY DEF Drops, ResidencyInv, RowsBounded, TypeOK
  <1> QED BY <1>1 DEF ResidencyInv, RowsBounded, TypeOK, DuplicatesBounded, RowsOf, Inserting,
                      Placed, Registered, Spared, SameJob

\* A server that starts for the first time.
LEMMA Starts == Init => ResidencyInv
  <1> SUFFICES ASSUME Init PROVE ResidencyInv
    OBVIOUS
  <1>1. rows = {} /\ task = [t \in Threads |-> Idle] /\ inflight = [w \in Workers |-> NoEntry]
    BY DEF Init
  <1>2. Stored
    BY <1>1, FS_EmptySet DEF Init, Stored, NoEntry
  <1>3. TypeOK /\ Placed
    BY <1>1, <1>2, Stops, Threadwise
  <1>4. Spared
    BY <1>1, Stops, Threadwise
  <1>5. Registered
    BY <1>1, IdleIs, Kinds DEF Registered, NoEntry
  <1>6. DuplicatesBounded
    BY <1>1 DEF DuplicatesBounded, RowsOf
  <1> QED BY <1>3, <1>4, <1>5, <1>6 DEF ResidencyInv, RowsBounded

\* Every step keeps the invariant.
LEMMA Keeps == ResidencyInv /\ [Next]_vars => ResidencyInv'
  <1> SUFFICES ASSUME ResidencyInv, [Next]_vars PROVE ResidencyInv'
    OBVIOUS
  <1>0. ASSUME NEW w \in Workers, NEW j \in JobIds, NEW p \in Models, NEW m \in Models,
               Admit(w, j, p, m)
        PROVE  ResidencyInv'
    BY <1>0, EnterStep DEF Admit
  <1>1. ASSUME NEW w \in Workers, NEW m \in Models, Readmit(w, m) PROVE ResidencyInv'
    <2>1. inflight[w].job \in JobIds \cup {None}
      BY DEF ResidencyInv, RowsBounded, TypeOK
    <2> QED BY <1>1, <2>1, EnterStep DEF Readmit
  <1>2. ASSUME NEW w \in Workers, Ran(w) PROVE ResidencyInv'
    BY <1>2, RanStep
  <1>3. ASSUME NEW c \in Callers, NEW m \in Models, Request(c, m) \/ NextCandidate(c, m)
        PROVE  ResidencyInv'
    BY <1>3, RequestSteps
  <1>4. ASSUME NEW t \in Threads, Step(t) PROVE ResidencyInv'
    BY <1>4, EnsureLoadedStep, TouchStep, UnloadSteps, LoadStep, EndSteps, InsertStep DEF Step
  <1>5. CASE (\E cut \in 0 .. clock : EvictIdle(cut)) \/ Sync \/ SyncRows
    BY <1>5, SweepSteps
  <1>6. CASE CloseReported \/ Swept
    BY <1>6, UnloadSteps, EndSteps, Kinds
  <1>7. ASSUME NEW m \in Models, Drops(m) PROVE ResidencyInv'
    BY <1>7, DropsStep
  <1>8. ASSUME NEW answers \in BOOLEAN, Restart(answers) PROVE ResidencyInv'
    BY <1>8, RestartStep
  <1>9. CASE UNCHANGED vars
    BY <1>9 DEF vars, ResidencyInv, RowsBounded, TypeOK, DuplicatesBounded, RowsOf, Inserting,
                Placed, Registered, Spared, SameJob
  <1> QED BY <1>0, <1>1, <1>2, <1>3, <1>4, <1>5, <1>6, <1>7, <1>8, <1>9 DEF Next, Reconcile

-----------------------------------------------------------------------------
(* What follows.                                                           *)

\* The invariant holds throughout.
THEOREM Invariance == Spec => []ResidencyInv
  BY Starts, Keeps, PTL DEF Spec

\* However loads, evictions and reconciliations of several threads interleave
\* with each other and with restarts, no model has more open rows than there
\* are threads that load (ensure_loaded, record_use, sync).
THEOREM Bounded == Spec => []RowsBounded
  <1>1. ResidencyInv => RowsBounded
    BY DEF ResidencyInv
  <1> QED BY <1>1, Invariance, PTL

\* Whoever is about to unload a model takes it from no worker but one that was
\* admitted, retried or fell back after the in-use set was read, one that runs a
\* fallback under the entry of a primary whose probe was busy, and one that holds
\* the very job of the thread that unloads (evict_idle, _unload,
\* in_use_model_ids).
THEOREM SparesInUse == Spec => []InUseSpared
  <1>1. ResidencyInv => InUseSpared
    BY DEF ResidencyInv, Spared, InUseSpared
  <1> QED BY <1>1, Invariance, PTL
=============================================================================

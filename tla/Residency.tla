----------------------------- MODULE Residency -----------------------------
(***************************************************************************)
(* Which models are loaded on one device: services/residency.py, and the   *)
(* three kinds of thread that call it.  A worker registers the model of    *)
(* its job in the in-flight registry, makes it resident and runs it; a     *)
(* synchronous request does the same without registering; the scheduler    *)
(* unloads idle models and reconciles the table with the provider.         *)
(*                                                                         *)
(* Every provider call and every write is a step of its own, so what a     *)
(* thread has read may be old when it acts on it.  A row is one open       *)
(* episode of the residency table.  The clock counts readings, so that two *)
(* readings differ; how long a model has been idle is left open: the cut   *)
(* before which a use is too old is any instant.  The models Elsewhere are *)
(* served by a second provider registration.                               *)
(***************************************************************************)
EXTENDS Integers, FiniteSets, SequencesExt

CONSTANTS Models,
          Elsewhere,    \* models of a registration other than the first
          Workers,      \* queue workers
          JobIds,       \* the jobs of the queue
          Probed,       \* models whose breaker may be half-open
          Callers,      \* threads serving synchronous requests
          Scheduler,
          Measured,     \* models whose memory the provider reports
          Memory,       \* what each model takes on the device, in units
          Capacity,     \* the units of the device
          MaxResident,  \* residency.max_resident_models
          MaxClock      \* bound: no job and no request begins at this reading,
                        \* no restart and no next candidate after it, no
                        \* retry after the reading that follows it

None == "none"

ASSUME ResidencyAssumption ==
    /\ None \notin Models \cup JobIds /\ IsFiniteSet(Workers) /\ IsFiniteSet(Callers)
    /\ Elsewhere \subseteq Models /\ Measured \subseteq Models
    /\ Memory \in [Models -> Nat] /\ Capacity \in Nat
    /\ MaxResident \in Nat \ {0} /\ MaxClock \in Nat
    /\ Workers \cap Callers = {} /\ Scheduler \notin Workers \cup Callers

VARIABLES
    clock,     \* readings of the clock so far
    rows,      \* the open rows of the residency table
    held,      \* the models the providers have loaded
    inflight,  \* each worker's in-flight entry: the job it holds and the model
               \* the entry names, both None when there is no entry
    task       \* what each thread is doing

vars == <<clock, rows, held, inflight, task>>

Jobs    == Workers \cup Callers
Threads == Jobs \cup {Scheduler}

\* One open episode; the instant of the load identifies it.
Row == [model : Models, loaded : Nat, used : Nat]

NoEntry == [job |-> None, model |-> None]

\* past says that a worker runs a fallback under the entry of the candidate it
\* was admitted on and skipped;
\* seen is the in-use set a request read, or the report sync() was given;
\* fresh the workers admitted since the thread read its in-use set; at its
\* reading of the clock; todo the rows it may unload or close; size and free
\* its count of the device.
Idle ==
    [pc |-> "idle", model |-> None, past |-> FALSE, seen |-> {}, fresh |-> {}, at |-> 0,
     todo |-> <<>>, size |-> 0, free |-> 0]

-----------------------------------------------------------------------------
(* Reading.                                                                *)

\* Another hold on the job a worker works on: after a lease race there are two.
SameJob(w, t) == t \in Workers /\ inflight[w].job = inflight[t].job

\* QueueRuntime.in_use_model_ids: every entry of the reader's job is left out.
InUseModelIds(t) == {inflight[w].model : w \in {v \in Workers : ~SameJob(v, t)}} \ {None}

\* resident(): open rows, oldest use first.
OldestFirst(S) ==
    {s \in SetToSeqs(S) : \A i, j \in DOMAIN s : i < j => s[i].used <= s[j].used}

RowsOf(m) == {r \in rows : r.model = m}

\* What telemetry reports free on the device.
Free == Capacity - MapThenSumSet(LAMBDA m : Memory[m], held)

-----------------------------------------------------------------------------
(* A job until its model is resident.                                      *)

\* The model is as resident as it will be; only a request keeps its set.
Ready(t) ==
    [Idle EXCEPT !.pc = "run", !.model = task[t].model, !.past = task[t].past,
                 !.seen = IF t \in Callers THEN task[t].seen ELSE {},
                 !.fresh = IF t \in Callers THEN task[t].fresh ELSE {}]

\* Whether a thread still goes by an in-use set; a worker that enters
\* stands in none of them.
Goes(t, tasks) ==
    IF t \in Callers THEN tasks[t].pc # "idle"
    ELSE tasks[t].pc \in {"evict", "close"}

NotedBy(w, tasks) ==
    [t \in Threads |->
        IF t = w \/ ~Goes(t, tasks) THEN tasks[t]
        ELSE [tasks[t] EXCEPT !.fresh = @ \cup {w}]]

\* Mutant: the entry of a job that falls back names its first model.
EnterOnce(w, j, p, m) ==
    /\ inflight' = [inflight EXCEPT ![w] = IF @ = NoEntry THEN [job |-> j, model |-> p] ELSE @]
    /\ task' = NotedBy(w, [task EXCEPT ![w] =
                              [Idle EXCEPT !.pc = "resolve", !.model = m, !.past = p # m]])
    /\ UNCHANGED <<clock, rows, held>>

\* The in-flight entry names p before the model m that is run is made resident.
Enter(w, j, p, m) ==
    /\ inflight' = [inflight EXCEPT ![w] = [job |-> j, model |-> p]]
    /\ task' = NotedBy(w, [task EXCEPT ![w] =
                              [Idle EXCEPT !.pc = "resolve", !.model = m, !.past = p # m]])
    /\ UNCHANGED <<clock, rows, held>>

\* Worker._admit registers the primary, and _attempts runs it; but while
\* another thread probes the primary it is skipped, and the first candidate
\* that is run is not registered.
Admit(w, j, p, m) ==
    /\ task[w].pc = "idle" /\ clock < MaxClock
    /\ p # m => p \in Probed
    /\ Enter(w, j, p, m)

\* _readmit, for a retry or a fallback, registers what is run.
Readmit(w, m) ==
    /\ task[w].pc = "ran" /\ clock <= MaxClock + 1
    /\ Enter(w, inflight[w].job, m, m)

\* A synchronous request reads the in-use models when its context is built.
Request(c, m) ==
    /\ task[c].pc = "idle" /\ clock < MaxClock
    /\ task' = [task EXCEPT ![c] =
                  [Idle EXCEPT !.pc = "resolve", !.model = m,
                               !.seen = InUseModelIds(c)]]
    /\ UNCHANGED <<clock, rows, held, inflight>>

\* The next candidate of a request: its in-use set is not read again.
NextCandidate(c, m) ==
    /\ task[c].pc = "running" /\ clock <= MaxClock
    /\ task' = [task EXCEPT ![c] = [@ EXCEPT !.pc = "resolve", !.model = m]]
    /\ UNCHANGED <<clock, rows, held, inflight>>

\* Mutant: a row counts only while the provider holds its model.
EnsureLoadedHeld(t) ==
    LET seen == IF t \in Workers THEN InUseModelIds(t) ELSE task[t].seen
        now  == clock + 1
    IN  /\ task[t].pc = "resolve"
        /\ clock' = now
        /\ IF RowsOf(task[t].model) # {} /\ task[t].model \in held
           THEN task' = [task EXCEPT ![t] = [@ EXCEPT !.pc = "touch", !.at = now]]
           ELSE \E order \in OldestFirst({r \in rows : r.model \notin seen}) :
                   task' = [task EXCEPT ![t] =
                              [@ EXCEPT !.pc = "evict", !.at = now, !.todo = order,
                                        !.size = Cardinality(rows), !.free = Free]]
        /\ UNCHANGED <<rows, held, inflight>>

\* Worker._ensure_resident and _make_resident gather their arguments - the
\* device's free memory, a worker's in-use set, the clock - and ensure_loaded
\* reads the table.  A resident model is only touched; else the residents
\* that are not in use may go, the oldest use first.
EnsureLoaded(t) ==
    LET seen == IF t \in Workers THEN InUseModelIds(t) ELSE task[t].seen
        now  == clock + 1
    IN  /\ task[t].pc = "resolve"
        /\ clock' = now
        /\ IF RowsOf(task[t].model) # {}
           THEN task' = [task EXCEPT ![t] = [@ EXCEPT !.pc = "touch", !.at = now]]
           ELSE \E order \in OldestFirst({r \in rows : r.model \notin seen}) :
                   task' = [task EXCEPT ![t] =
                              [@ EXCEPT !.pc = "evict", !.at = now, !.todo = order,
                                        !.size = Cardinality(rows), !.free = Free]]
        /\ UNCHANGED <<rows, held, inflight>>

\* An exception out of the residency service: a worker's job is failed and
\* forgotten (Worker.process), a request goes on without it (_make_resident).
Raised(t) ==
    IF t \in Workers
    THEN /\ task' = [task EXCEPT ![t] = Idle]
         /\ inflight' = [inflight EXCEPT ![t] = NoEntry]
    ELSE /\ task' = [task EXCEPT ![t] = Ready(t)]
         /\ UNCHANGED inflight

\* record_use(): the one open row of the model, or none; two are an error.
Used(m, at) ==
    rows' = {IF r.model = m THEN [r EXCEPT !.used = at] ELSE r : r \in rows}

Touch(t) ==
    /\ task[t].pc = "touch"
    /\ IF Cardinality(RowsOf(task[t].model)) > 1
       THEN Raised(t) /\ UNCHANGED rows
       ELSE /\ Used(task[t].model, task[t].at)
            /\ task' = [task EXCEPT ![t] = Ready(t)]
            /\ UNCHANGED inflight
    /\ UNCHANGED <<clock, held>>

-----------------------------------------------------------------------------
(* Eviction.                                                               *)

\* The registration whose handle a thread's residency service holds: a
\* worker takes the one of its model's provider (residency_for), the
\* synchronous requests and the scheduler the first one.
Provides(t) ==
    IF t \in Workers /\ task[t].model \in Elsewhere
    THEN Elsewhere ELSE Models \ Elsewhere

\* Whether ensure_loaded still needs a place; evict_idle takes every row.
Pressing(t) ==
    t # Scheduler => \/ task[t].size >= MaxResident
                     \/ task[t].free < Memory[task[t].model]

\* _unload(): the provider forgets the model, if it is the provider's.
Unload(t) ==
    /\ task[t].pc = "evict" /\ task[t].todo # <<>> /\ Pressing(t)
    /\ held' = held \ ({Head(task[t].todo).model} \cap Provides(t))
    /\ task' = [task EXCEPT ![t].pc = "close"]
    /\ UNCHANGED <<clock, rows, inflight>>

\* The provider refuses, and the row stays.
UnloadFails(t) ==
    /\ task[t].pc = "evict" /\ task[t].todo # <<>> /\ Pressing(t)
    /\ task' = [task EXCEPT ![t].todo = Tail(@)]
    /\ UNCHANGED <<clock, rows, held, inflight>>

\* What the row says the model takes, 0 where it is not known.
Recorded(m) == IF m \in Measured THEN Memory[m] ELSE 0

\* The row is closed, unless someone else has closed it.
Close(t) ==
    LET gone == Head(task[t].todo)
    IN  /\ task[t].pc = "close"
        /\ rows' = {r \in rows : r.loaded # gone.loaded}
        /\ task' = [task EXCEPT ![t] =
                      [@ EXCEPT !.pc = "evict", !.todo = Tail(task[t].todo),
                                !.size = task[t].size - 1,
                                !.free = task[t].free + Recorded(gone.model)]]
        /\ UNCHANGED <<clock, held, inflight>>

-----------------------------------------------------------------------------
(* Loading and running.                                                    *)

Load(t) ==
    /\ task[t].pc = "evict" /\ t # Scheduler
    /\ Pressing(t) => task[t].todo = <<>>
    /\ held' = held \cup {task[t].model}
    /\ task' = [task EXCEPT ![t] = [Ready(t) EXCEPT !.pc = "insert", !.at = task[t].at]]
    /\ UNCHANGED <<clock, rows, inflight>>

\* The provider refuses to load: nothing is recorded and the job runs.
LoadFails(t) ==
    /\ task[t].pc = "evict" /\ t # Scheduler
    /\ Pressing(t) => task[t].todo = <<>>
    /\ task' = [task EXCEPT ![t] = Ready(t)]
    /\ UNCHANGED <<clock, rows, held, inflight>>

\* The episode is recorded under the instant ensure_loaded was called at.
Insert(t) ==
    /\ task[t].pc = "insert"
    /\ rows' = rows \cup {[model |-> task[t].model, loaded |-> task[t].at,
                           used |-> task[t].at]}
    /\ task' = [task EXCEPT ![t] = Ready(t)]
    /\ UNCHANGED <<clock, held, inflight>>

\* The attempt: a provider loads on demand what it does not hold.
Run(t) ==
    /\ task[t].pc = "run"
    /\ held' = held \cup {task[t].model}
    /\ task' = [task EXCEPT ![t].pc = "running"]
    /\ UNCHANGED <<clock, rows, inflight>>

\* A worker notes the use when the attempt is over (_record_use).
Ran(w) ==
    /\ task[w].pc = "running"
    /\ clock' = clock + 1
    /\ IF Cardinality(RowsOf(task[w].model)) > 1
       THEN Raised(w) /\ UNCHANGED rows
       ELSE /\ Used(task[w].model, clock + 1)
            /\ task' = [task EXCEPT ![w].pc = "ran"]
            /\ UNCHANGED inflight
    /\ UNCHANGED held

\* The job reaches its end and the in-flight entry is removed; a job that has
\* no attempt left or whose every candidate is being probed leaves before its
\* model is made resident, one cancelled while its model was loading without
\* running.
Leave(t) ==
    /\ task[t].pc \in IF t \in Workers THEN {"resolve", "run", "ran"} ELSE {"running"}
    /\ task' = [task EXCEPT ![t] = Idle]
    /\ inflight' = [w \in Workers |-> IF w = t THEN NoEntry ELSE inflight[w]]
    /\ UNCHANGED <<clock, rows, held>>

-----------------------------------------------------------------------------
(* The scheduler.                                                          *)

\* Scheduler.evict_idle reads the in-use set and the table: what was used
\* after the cut stays.
EvictIdle(cut) ==
    /\ task[Scheduler].pc = "idle"
    /\ \E order \in OldestFirst({r \in rows : /\ r.used <= cut
                                          /\ r.model \notin InUseModelIds(Scheduler)}) :
          task' = [task EXCEPT ![Scheduler] = [Idle EXCEPT !.pc = "evict", !.todo = order]]
    /\ UNCHANGED <<clock, rows, held, inflight>>

Swept ==
    /\ task[Scheduler].pc \in {"evict", "reconcile"}
    /\ task[Scheduler].todo = <<>>
    /\ task' = [task EXCEPT ![Scheduler] = Idle]
    /\ UNCHANGED <<clock, rows, held, inflight>>

\* sync() asks the first registration's provider what it holds, ...
Sync ==
    /\ task[Scheduler].pc = "idle"
    /\ task' = [task EXCEPT ![Scheduler] =
                  [Idle EXCEPT !.pc = "reported",
                               !.seen = held \ Elsewhere]]
    /\ UNCHANGED <<clock, rows, held, inflight>>

\* Mutant: only what is in use is reconciled.
SyncRowsInUse ==
    /\ task[Scheduler].pc = "reported"
    /\ \E order \in OldestFirst({r \in rows : /\ r.model \notin task[Scheduler].seen
                                          /\ r.model \in InUseModelIds(Scheduler)}) :
          task' = [task EXCEPT ![Scheduler] =
                     [@ EXCEPT !.pc = "reconcile", !.seen = {}, !.todo = order]]
    /\ UNCHANGED <<clock, rows, held, inflight>>

\* ... reads the rows ...
SyncRows ==
    /\ task[Scheduler].pc = "reported"
    /\ \E order \in OldestFirst({r \in rows : r.model \notin task[Scheduler].seen}) :
          task' = [task EXCEPT ![Scheduler] =
                     [@ EXCEPT !.pc = "reconcile", !.seen = {}, !.todo = order]]
    /\ UNCHANGED <<clock, rows, held, inflight>>

\* ... and closes those the provider did not report, one at a time.
CloseReported ==
    /\ task[Scheduler].pc = "reconcile" /\ task[Scheduler].todo # <<>>
    /\ rows' = {r \in rows : r.loaded # Head(task[Scheduler].todo).loaded}
    /\ task' = [task EXCEPT ![Scheduler].todo = Tail(@)]
    /\ UNCHANGED <<clock, held, inflight>>

-----------------------------------------------------------------------------
(* The environment.                                                        *)

\* A provider drops a model nobody is running on its own account.
Drops(m) ==
    /\ m \in held
    /\ \A t \in Jobs : task[t].pc = "running" => task[t].model # m
    /\ held' = held \ {m}
    /\ UNCHANGED <<clock, rows, inflight, task>>

\* The server dies and starts again: threads and in-flight entries are lost,
\* rows and loaded models are not, and recover() reconciles before any
\* thread runs, unless the provider does not answer.
Restart(answers) ==
    /\ clock <= MaxClock
    /\ clock' = clock + 1
    /\ task' = [t \in Threads |-> Idle]
    /\ inflight' = [w \in Workers |-> NoEntry]
    /\ rows' = IF answers THEN {r \in rows : r.model \in held \ Elsewhere} ELSE rows
    /\ UNCHANGED held

Init ==
    /\ clock = 0
    /\ rows = {}
    /\ held = {}
    /\ inflight = [w \in Workers |-> NoEntry]
    /\ task = [t \in Threads |-> Idle]

Step(t) ==
    \/ EnsureLoaded(t) \/ Touch(t) \/ Unload(t) \/ UnloadFails(t)
    \/ Close(t) \/ Load(t) \/ LoadFails(t) \/ Insert(t) \/ Run(t) \/ Leave(t)

Reconcile == SyncRows \/ CloseReported \/ Swept

Next ==
    \/ \E w \in Workers, j \in JobIds, p, m \in Models : Admit(w, j, p, m)
    \/ \E w \in Workers, m \in Models : Readmit(w, m)
    \/ \E w \in Workers : Ran(w)
    \/ \E c \in Callers, m \in Models : Request(c, m) \/ NextCandidate(c, m)
    \/ \E t \in Threads : Step(t)
    \/ \E cut \in 0 .. clock : EvictIdle(cut)
    \/ Sync \/ Reconcile
    \/ \E m \in Models : Drops(m)
    \/ \E answers \in BOOLEAN : Restart(answers)

\* The scheduler goes through its tasks on every tick, and a call it makes
\* returns.
Fairness == WF_vars(Step(Scheduler) \/ Reconcile) /\ SF_vars(Sync)

Spec == Init /\ [][Next]_vars /\ Fairness

-----------------------------------------------------------------------------
(* What the policy promises.                                               *)

PCs == {"idle", "resolve", "touch", "evict", "close", "insert", "run",
        "running", "ran", "reported", "reconcile"}

\* The types of the table, the registry and the threads' local state.
TypeOK ==
    /\ clock \in Nat
    /\ rows \subseteq Row /\ IsFiniteSet(rows) /\ held \subseteq Models
    /\ inflight \in [Workers -> [job : JobIds \cup {None}, model : Models \cup {None}]]
    /\ DOMAIN task = Threads
    /\ \A t \in Threads :
          /\ task[t].pc \in PCs /\ task[t].model \in Models \cup {None}
          /\ task[t].past \in BOOLEAN
          /\ task[t].seen \subseteq Models /\ task[t].fresh \subseteq Workers
          /\ \A i \in DOMAIN task[t].todo : task[t].todo[i] \in Row

\* residency.py:251 goes by an in-use set read before the provider calls: a
\* model it is about to unload may by then be the model of a job, but only
\* of one that was admitted, retried or fell back after the set was read, of
\* one that runs a fallback in place of a primary whose probe was busy
\* (worker.py:1060-1078 leaves the primary registered), or of another
\* worker that holds the very job of this one (worker.py:534).
InUseSpared ==
    \A t \in Threads : task[t].pc = "evict" =>
        \A i \in DOMAIN task[t].todo, w \in Workers \ {t} :
            task[w].model = task[t].todo[i].model =>
                w \in task[t].fresh \/ task[w].past \/ SameJob(w, t)

\* Threads that have found no row of the model and are to insert one.
Inserting(m) ==
    {t \in Jobs : task[t].model = m /\ task[t].pc \in {"evict", "close", "insert"}}

\* Nothing stops two threads from loading one model at once, each inserting
\* a row (residency.py:207-276); but whoever reads the table afterwards sees
\* them, so a model never has more open rows than there were threads.
DuplicatesBounded ==
    \A m \in Models : RowsOf(m) # {} =>
        Cardinality(RowsOf(m)) + Cardinality(Inserting(m)) <= Cardinality(Jobs)

\* The table is well formed and its rows are bounded by the threads that load
\* (ensure_loaded, record_use).
RowsBounded == TypeOK /\ DuplicatesBounded

\* A row whose model the provider no longer holds - dropped by the provider,
\* unloaded by a server that died before it closed the row, or closed too
\* early and inserted late - is closed by sync() in the end, unless the
\* model is loaded again.
GhostRowsClosed ==
    \A m \in Models : RowsOf(m) # {} /\ m \notin held
                          ~> RowsOf(m) = {} \/ m \in held

-----------------------------------------------------------------------------
(* The inductive invariant (ResidencyProofs).                              *)

\* What a thread's local state says of itself, by the kind of thread and
\* where it stands.
Placed ==
    \A t \in Threads :
        /\ DOMAIN task[t] = DOMAIN Idle
        /\ task[t].at \in Nat /\ task[t].todo \in Seq(Row)
        /\ task[t].pc = "close" => task[t].todo # <<>>
        /\ IF t = Scheduler
           THEN task[t].pc \in {"idle", "evict", "close", "reported", "reconcile"}
           ELSE /\ task[t].pc \notin {"reported", "reconcile"}
                /\ task[t].pc # "idle" => task[t].model \in Models

\* The in-flight entry of a worker names the model it works with, unless it
\* skipped the one it names.
Registered ==
    \A w \in Workers : task[w].past \/ inflight[w].model = task[w].model

\* Behind InUseSpared: the models of the workers a request knows of are in
\* its in-use set, and nobody is about to unload the model of a worker it
\* knows of.
Spared ==
    \A t \in Threads : \A w \in Workers \ ({t} \cup task[t].fresh) : task[w].past \/
        /\ t \in Callers /\ task[t].pc # "idle" => task[w].model \in task[t].seen \cup {None}
        /\ task[t].pc \in {"evict", "close"} /\ ~SameJob(w, t) =>
              \A i \in DOMAIN task[t].todo : task[t].todo[i].model # task[w].model

ResidencyInv == RowsBounded /\ Placed /\ Registered /\ Spared
=============================================================================

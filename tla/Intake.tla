------------------------------- MODULE Intake -------------------------------
(***************************************************************************)
(* Submission of jobs: enqueue of services/queue.py and reserve_sync_job   *)
(* of services/execution.py with the idempotency key they share, as        *)
(* concurrent requests interleave.  One action is one transaction: the     *)
(* lookup of the key, each count, and the insert are separate ones.        *)
(*                                                                         *)
(* Jobs are followed only as far as submission depends on them: whether    *)
(* they are active, and who holds which key until when.                    *)
(***************************************************************************)
EXTENDS Naturals, FiniteSets

CONSTANTS Submitters,   \* requests that can be under way at the same time
          Sources,      \* callers: keys and the per-source bound are theirs
          Keys,         \* idempotency keys
          None,         \* no key
          MaxDepth,     \* queue.max_depth
          PerSource,    \* queue.max_active_per_source, 0 for no bound
          Ttl,          \* queue.idempotency_ttl_hours
          Duration,     \* bound: how long a request takes at most
          MaxJobs,      \* bound: rows ever inserted
          MaxTime       \* bound: the clock

ASSUME IntakeAssumption ==
    /\ IsFiniteSet(Submitters)
    /\ None \notin Keys
    /\ MaxDepth \in Nat \ {0} /\ PerSource \in Nat /\ Ttl \in Nat \ {0}
    /\ Duration \in Nat /\ MaxJobs \in Nat /\ MaxTime \in Nat
    /\ Ttl > 2 * Duration

VARIABLES
    jobs,   \* the jobs table as far as intake reads it, by row; `asked` and
            \* `at` remember the key and the instant of the submission
    sub,    \* the request of each submitter
    now     \* the clock

vars == <<jobs, sub, now>>

JobIds == 1 .. MaxJobs

NoJob == [status |-> "none", source |-> None, key |-> None, expires |-> 0,
          asked |-> None, at |-> 0]

Idle == [pc |-> "idle", source |-> None, key |-> None, now |-> 0,
         queued |-> FALSE]

Init ==
    /\ jobs = [i \in JobIds |-> NoJob]
    /\ sub = [s \in Submitters |-> Idle]
    /\ now = 0

-----------------------------------------------------------------------------
(* The steps of one request.                                               *)

\* A request at another place.
At(r, pc) == [pc |-> pc, source |-> r.source, key |-> r.key, now |-> r.now,
              queued |-> r.queued]

\* A request goes on, or is answered: with a job, or with QueueFull.
Goto(s, pc) ==
    sub' = [sub EXCEPT ![s] = IF pc = "answer" THEN Idle ELSE At(sub[s], pc)]

\* After the key is settled: enqueue counts, a synchronous request does not.
Counting(queued) == IF queued THEN "count" ELSE "insert"

\* A request arrives, is authorised and names an existing profile and a
\* priority inside its class; its instant is read once.
Arrive(s, source, key, queued) ==
    /\ sub[s].pc = "idle"
    /\ sub' = [sub EXCEPT ![s] =
                 [pc |-> IF key = None THEN Counting(queued) ELSE "lookup",
                  source |-> source, key |-> key, now |-> now,
                  queued |-> queued]]
    /\ UNCHANGED <<jobs, now>>

\* Mutant: a finished job no longer holds its key.
HoldingActive(source, key) ==
    {i \in JobIds : /\ key # None /\ jobs[i].source = source
                    /\ jobs[i].key = key /\ jobs[i].status # "over"}

\* The rows that hold a caller's key (the unique index allows one).
Holding(source, key) ==
    {i \in JobIds : key # None /\ jobs[i].source = source /\ jobs[i].key = key}

Expired(i, t) == jobs[i].expires <= t

Released(job) ==
    [status |-> job.status, source |-> job.source, key |-> None, expires |-> 0,
     asked |-> job.asked, at |-> job.at]

\* existing_job_for_key: an unexpired holder is the answer, an expired one
\* loses its key; then the request goes on as `miss` says.
LookUp(s, miss) ==
    LET holding == Holding(sub[s].source, sub[s].key)
        expired == {i \in holding : Expired(i, sub[s].now)}
    IN  \/ /\ holding # expired
           /\ Goto(s, "answer")
           /\ UNCHANGED <<jobs, now>>
        \/ /\ holding = expired
           /\ jobs' = [i \in JobIds |-> IF i \in expired THEN Released(jobs[i])
                                        ELSE jobs[i]]
           /\ Goto(s, miss)
           /\ UNCHANGED now

\* _existing_by_key before anything else is decided.
FirstLookUp(s) ==
    sub[s].pc = "lookup" /\ LookUp(s, Counting(sub[s].queued))

Active == {i \in JobIds : jobs[i].status \in {"queued", "sync"}}
ActiveOf(source) == {i \in Active : jobs[i].source = source}

\* Mutant: the bound is compared with the wrong sense of equality.
FullAbove(count, bound) == count > bound

Full(count, bound) == count >= bound

\* QueueFull against max_depth: every active row counts.
CountAll(s) ==
    /\ sub[s].pc = "count"
    /\ Goto(s, IF Full(Cardinality(Active), MaxDepth) THEN "answer"
               ELSE IF PerSource = 0 THEN "insert" ELSE "count_source")
    /\ UNCHANGED <<jobs, now>>

\* Mutant: the per-source count is compared with the depth bound.
CountSourceLoose(s) ==
    /\ sub[s].pc = "count_source"
    /\ Goto(s, IF Full(Cardinality(ActiveOf(sub[s].source)), MaxDepth)
               THEN "answer" ELSE "insert")
    /\ UNCHANGED <<jobs, now>>

\* QueueFull against max_active_per_source.
CountSource(s) ==
    /\ sub[s].pc = "count_source"
    /\ Goto(s, IF Full(Cardinality(ActiveOf(sub[s].source)), PerSource)
               THEN "answer" ELSE "insert")
    /\ UNCHANGED <<jobs, now>>

\* The instants of a row matter only to its key.
Row(s) ==
    LET keyed == sub[s].key # None IN
    [status |-> IF sub[s].queued THEN "queued" ELSE "sync",
     source |-> sub[s].source, key |-> sub[s].key,
     expires |-> IF keyed THEN sub[s].now + Ttl ELSE 0,
     asked |-> sub[s].key, at |-> IF keyed THEN sub[s].now ELSE 0]

\* The insert; the unique index on (source, idempotency_key) refuses a second
\* holder of a key.
Insert(s) ==
    /\ sub[s].pc = "insert"
    /\ \/ /\ Holding(sub[s].source, sub[s].key) = {}
          /\ \E i \in JobIds :
                /\ jobs[i] = NoJob /\ \A k \in 1 .. i - 1 : jobs[k] # NoJob
                /\ jobs' = [jobs EXCEPT ![i] = Row(s)]
          /\ Goto(s, "answer")
       \/ /\ Holding(sub[s].source, sub[s].key) # {}
          /\ Goto(s, "again") /\ UNCHANGED jobs
    /\ UNCHANGED now

\* After an IntegrityError: attach to the row that won, or re-raise.
SecondLookUp(s) == sub[s].pc = "again" /\ LookUp(s, "error")

-----------------------------------------------------------------------------
(* The rest of the system.                                                 *)

Ended(job) ==
    [status |-> "over", source |-> job.source, key |-> job.key,
     expires |-> job.expires, asked |-> job.asked, at |-> job.at]

\* A job reaches a terminal state.
Finish(i) ==
    /\ i \in Active
    /\ jobs' = [jobs EXCEPT ![i] = Ended(jobs[i])]
    /\ UNCHANGED <<sub, now>>

\* Time passes; no request takes longer than Duration.
Tick ==
    /\ now < MaxTime
    /\ \A s \in Submitters :
          sub[s].pc \notin {"idle", "error"} => now < sub[s].now + Duration
    /\ now' = now + 1
    /\ UNCHANGED <<jobs, sub>>

Step(s) ==
    \/ \E source \in Sources, key \in Keys \cup {None}, queued \in BOOLEAN :
          Arrive(s, source, key, queued)
    \/ FirstLookUp(s) \/ CountAll(s) \/ CountSource(s)
    \/ Insert(s) \/ SecondLookUp(s)

Next ==
    \/ \E s \in Submitters : Step(s)
    \/ \E i \in JobIds : Finish(i)
    \/ Tick

Spec == Init /\ [][Next]_vars

-----------------------------------------------------------------------------
(* Properties.                                                             *)

Job == [status : {"none", "queued", "sync", "over"},
        source : Sources \cup {None}, key : Keys \cup {None},
        expires : 0 .. MaxTime + Ttl, asked : Keys \cup {None}, at : 0 .. MaxTime]

PC == {"idle", "lookup", "count", "count_source", "insert", "again", "error"}

Request == [pc : PC, source : Sources \cup {None}, key : Keys \cup {None},
            now : 0 .. MaxTime, queued : BOOLEAN]

\* Rows and requests keep their types.
TypeOK ==
    /\ jobs \in [JobIds -> Job]
    /\ sub \in [Submitters -> Request]
    /\ now \in 0 .. MaxTime

\* Two jobs of one caller under the same key were submitted at least
\* idempotency_ttl_hours apart, less the time one request takes: within that
\* time a repeated submission gets the first job, whichever requests raced and
\* whether they were queued or synchronous.  (A request that arrives before
\* the expiry may look the key up after a later one has released it.)
KeyReserved ==
    \A i, k \in JobIds :
        /\ i # k /\ jobs[i].asked # None
        /\ jobs[i].asked = jobs[k].asked /\ jobs[i].source = jobs[k].source
        => \/ jobs[i].at + Duration >= jobs[k].at + Ttl
           \/ jobs[k].at + Duration >= jobs[i].at + Ttl

\* A request that lost the race on a key finds the row that won: "the row that
\* won cannot have vanished".
WinnerFound == \A s \in Submitters : sub[s].pc # "error"

\* A key names one job while it lives, and whoever loses the race for it is
\* given that job (enqueue, reserve_sync_job, existing_job_for_key).
KeyedOnce == TypeOK /\ KeyReserved /\ WinnerFound

Queued == {i \in JobIds : jobs[i].status = "queued"}

\* Requests that have passed the depth count but not inserted yet.
Admitted == {s \in Submitters :
               sub[s].queued /\ sub[s].pc \in {"count_source", "insert"}}

\* The count and the insert are separate transactions, so max_depth can be
\* passed; requests under way at the same time are all it can be passed by,
\* whatever finishes or is submitted in between: those that are past the count
\* are included.
DepthBounded ==
    Cardinality(Queued) + Cardinality(Admitted)
        < MaxDepth + Cardinality(Submitters)

QueuedOf(source) == {i \in Queued : jobs[i].source = source}

\* Likewise for the share of one caller, against its own burst.
ShareBounded ==
    PerSource > 0 =>
        \A source \in Sources :
            Cardinality(QueuedOf(source)) < PerSource + Cardinality(Submitters)

-----------------------------------------------------------------------------
(* The inductive invariants behind KeyedOnce and ShareBounded              *)
(* (IntakeProofs).                                                         *)

\* A row with a key was submitted under it and keeps it for the full time; a
\* row that lost its key had kept it that long.
KeyLife ==
    \A i \in JobIds :
        /\ jobs[i].key # None => /\ jobs[i].asked = jobs[i].key
                                 /\ jobs[i].expires = jobs[i].at + Ttl
        /\ jobs[i].key = None /\ jobs[i].asked # None => jobs[i].at + Ttl <= now

\* A request under way is at most Duration old.
Timely ==
    \A s \in Submitters :
        sub[s].pc \notin {"idle", "error"} =>
            sub[s].now <= now /\ now <= sub[s].now + Duration

\* A request past its lookup competes only with rows inserted since: the row
\* it loses to is too young to expire before the second lookup.
Contended ==
    \A s \in Submitters :
        LET holding == Holding(sub[s].source, sub[s].key) IN
        /\ sub[s].pc \in {"count", "count_source", "insert", "again"} =>
              \A i \in holding : sub[s].now <= jobs[i].at + Duration
        /\ sub[s].pc = "again" => holding # {}

\* What every step preserves, of the keys ...
KeyInv == KeyedOnce /\ KeyLife /\ Timely /\ Contended

\* ... and of one caller's share: its queued jobs, and its requests that have
\* passed both counts.
PassedOf(source) ==
    {s \in Submitters :
        sub[s].queued /\ sub[s].pc = "insert" /\ sub[s].source = source}

ShareInv ==
    PerSource > 0 =>
        \A source \in Sources :
            Cardinality(QueuedOf(source)) + Cardinality(PassedOf(source))
                < PerSource + Cardinality(Submitters)
=============================================================================

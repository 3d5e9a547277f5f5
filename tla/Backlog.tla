------------------------------ MODULE Backlog -------------------------------
(***************************************************************************)
(* A job's way through the table as far as its turn and its text are       *)
(* concerned: it is queued, aged, claimed in order, given back or deferred *)
(* and woken, finished, and its text removed by the retention sweep.       *)
(* Leases, fences and crashes are in JobQueue; here a worker only holds a  *)
(* job or not.                                                             *)
(*                                                                         *)
(* The table is kept in two parts, since nothing reads the order columns   *)
(* of a finished job or the text of an active one.  The scheduler reads    *)
(* the clock once per tick and hands that instant to every sweep of the    *)
(* tick (Scheduler.tick), so a sweep may be older than what others have    *)
(* written since.  retain_content, which turns the retention sweep off, is *)
(* false.                                                                  *)
(***************************************************************************)
EXTENDS ClaimOrder, Retention, Functions

CONSTANTS Workers,
          Models,           \* what may be resident
          Kinds,            \* submissions: class, priority asked for, pin
          MaxWait,          \* max_wait_seconds
          MaxJobs, MaxTime  \* bounds on the rows and on the clock

ASSUME BacklogAssumption ==
    /\ IsFiniteSet(Workers) /\ None \notin Workers
    /\ \A k \in Kinds : k.class \in DOMAIN Bands /\ k.model \in Models \cup {None}
    /\ MaxJobs \in Nat /\ MaxTime \in Nat

VARIABLES
    now,       \* the clock
    tick,      \* the instant of the scheduler's tick
    jobs,      \* the active rows of the jobs table
    ended,     \* its finished rows
    streak,    \* Worker._streak
    returned,  \* jobs given back since the last ageing sweep
    bypassed   \* claims in a row that did not take the job first in line

vars == <<now, tick, jobs, ended, streak, returned, bypassed>>

Jobs == 1 .. MaxJobs

EmptyTable == [j \in {} |-> 0]

Init ==
    /\ now = 0 /\ tick = 0
    /\ jobs = EmptyTable /\ ended = EmptyTable
    /\ streak = [w \in Workers |-> 0]
    /\ returned = {}
    /\ bypassed = 0

Held        == {j \in DOMAIN jobs : jobs[j].state = "leased"}
WaitingJobs == DOMAIN jobs \ Held

-----------------------------------------------------------------------------
(* Submitters and workers.                                                 *)

\* The row enqueue inserts.
NewJob(k) ==
    LET base == base_priority(k.class, k.priority)
    IN  [state |-> "queued", class |-> k.class, base |-> base,
         effective |-> base, queued |-> now, model |-> k.model, owner |-> None]

Enqueue(k) ==
    LET id == Cardinality(DOMAIN jobs \cup DOMAIN ended) + 1
    IN  /\ id \in Jobs
        /\ InBand(k.class, k.priority)
        /\ jobs' = [j \in DOMAIN jobs \cup {id} |->
                      IF j = id THEN NewJob(k) ELSE jobs[j]]
        /\ UNCHANGED <<now, tick, ended, streak, returned, bypassed>>

\* A claim in order ends the streak.
NextStreak(old, affine) == IF affine THEN old + 1 ELSE 0

\* Worker._claim: the resident models are read, then the claim is one
\* statement.
Claim(w, resident) ==
    LET S      == Eligible(jobs)
        affine == ByAffinity(jobs, S, resident, streak[w])
    IN  /\ \A j \in Held : jobs[j].owner # w
        /\ \E j \in Claimable(jobs, resident, streak[w]) :
              /\ jobs' = [jobs EXCEPT ![j].state = "leased", ![j].owner = w]
              /\ bypassed' = IF j \in FirstOf(jobs, S) THEN 0 ELSE bypassed + 1
        /\ streak' = [streak EXCEPT ![w] = NextStreak(@, affine)]
        /\ UNCHANGED <<now, tick, ended, returned>>

\* A held job goes back to a waiting state with the model it was routed to;
\* queued_at and the priority it was claimed with stay.
Returned(j, state, m) ==
    /\ j \in Held
    /\ jobs' = [jobs EXCEPT ![j].state = state, ![j].owner = None, ![j].model = m]
    /\ returned' = returned \cup {j}
    /\ UNCHANGED <<now, tick, ended, streak, bypassed>>

\* A probe in flight elsewhere, an expired lease or a restart puts it back.
GiveBack(j, m) == Returned(j, "queued", m)

\* No memory: the job waits for it, out of the queue, ...
Defer(j, m) == Returned(j, "waiting_resources", m)

\* ... until the scheduler finds that it can proceed.
Reevaluate(j) ==
    /\ jobs[j].state = "waiting_resources"
    /\ jobs' = [jobs EXCEPT ![j].state = "queued"]
    /\ UNCHANGED <<now, tick, ended, streak, returned, bypassed>>

\* transition() of some jobs to a terminal state.
End(S, at) ==
    /\ jobs' = Restrict(jobs, DOMAIN jobs \ S)
    /\ ended' = [j \in DOMAIN ended \cup S |->
                   IF j \in S THEN [completed |-> at, scrubbed |-> FALSE]
                              ELSE ended[j]]
    /\ returned' = returned \ S
    /\ UNCHANGED <<now, tick, streak, bypassed>>

\* The worker finishes its job, or a waiting one is cancelled.
Finish(j) == End({j}, now)

-----------------------------------------------------------------------------
(* The scheduler's sweeps.                                                 *)

StartTick ==
    /\ tick # now /\ tick' = now
    /\ UNCHANGED <<now, jobs, ended, streak, returned, bypassed>>

\* Mutant: a job that waits for memory does not age.
AgedQueued(j) ==
    IF jobs[j].state = "queued"
    THEN effective_priority(jobs[j].base, jobs[j].class, tick - jobs[j].queued)
    ELSE jobs[j].effective

\* One row of the UPDATE: queued_at is the origin, so time in
\* waiting_resources and time under a worker count.
Aged(j) ==
    IF j \in WaitingJobs
    THEN effective_priority(jobs[j].base, jobs[j].class, tick - jobs[j].queued)
    ELSE jobs[j].effective

AgeingSweep ==
    /\ jobs' = [j \in DOMAIN jobs |-> [jobs[j] EXCEPT !.effective = Aged(j)]]
    /\ returned' = {}
    /\ UNCHANGED <<now, tick, ended, streak, bypassed>>

ExpireMaxWait ==
    LET late == {j \in WaitingJobs : tick - jobs[j].queued > MaxWait}
    IN  late # {} /\ End(late, tick)

ScrubContent ==
    /\ \E T \in Batches(ended, tick) :
          ended' = [j \in DOMAIN ended |-> [ended[j] EXCEPT !.scrubbed = @ \/ j \in T]]
    /\ UNCHANGED <<now, tick, jobs, streak, returned, bypassed>>

TimePasses ==
    /\ now < MaxTime /\ now' = now + 1
    /\ UNCHANGED <<tick, jobs, ended, streak, returned, bypassed>>

Next ==
    \/ \E k \in Kinds : Enqueue(k)
    \/ \E w \in Workers, resident \in SUBSET Models : Claim(w, resident)
    \/ \E j \in DOMAIN jobs :
          \/ \E m \in Models : GiveBack(j, m) \/ Defer(j, m)
          \/ Reevaluate(j) \/ Finish(j)
    \/ StartTick \/ AgeingSweep \/ ExpireMaxWait \/ ScrubContent \/ TimePasses

Spec == Init /\ [][Next]_vars

-----------------------------------------------------------------------------
(* Properties.                                                             *)

\* A priority stays between the one asked for and the cap of its class, and
\* text is gone only after its time.
TypeOK ==
    /\ now \in 0 .. MaxTime /\ tick \in 0 .. now
    /\ DOMAIN jobs \cup DOMAIN ended \subseteq Jobs
    /\ DOMAIN jobs \cap DOMAIN ended = {}
    /\ returned \subseteq DOMAIN jobs
    /\ streak \in [Workers -> 0 .. MaxStreak]
    /\ \A j \in DOMAIN jobs :
          /\ jobs[j].state \in {"queued", "waiting_resources", "leased"}
          /\ jobs[j].effective \in jobs[j].base .. ageing_cap(jobs[j].class)
          /\ jobs[j].owner \in IF j \in Held THEN Workers ELSE {None}
    /\ \A j \in DOMAIN ended :
          ended[j].scrubbed => ended[j].completed + RetentionTime <= now

\* Among waiting jobs of one class and base priority the one queued earlier
\* never ranks below the other, however sweeps, claims and deferrals are
\* interleaved, unless a worker gave it back since the last sweep (claim:
\* "FIFO among equals, which the starvation bound depends on").
OlderFirst ==
    \A i \in WaitingJobs \ returned, k \in WaitingJobs :
        /\ jobs[i].class = jobs[k].class /\ jobs[i].base = jobs[k].base
        /\ jobs[i].queued <= jobs[k].queued
        => jobs[i].effective >= jobs[k].effective

\* The job first in line is passed over a bounded number of times in a row,
\* whatever is resident and however many workers claim (claim: affinity
\* "cannot become a starvation source").
BypassBounded == bypassed <= Cardinality(Workers) * MaxStreak

\* The order of claims is fair (claim, ageing_sweep, Worker._claim).
OrderSafe == TypeOK /\ OlderFirst /\ BypassBounded

\* Fewer jobs finished before it, or with it, than one sweep reads.
InReach(j) ==
    Cardinality({k \in DOMAIN ended \ {j} :
                    ended[k].completed <= ended[j].completed}) < ScanLimit

\* As long as a job within the reach of a sweep still has its text after its
\* time, every sweep takes the text of one more, however ties are ordered and
\* whatever was scrubbed before (scrub_content: "the next sweep continues").
\* The text is therefore gone after finitely many sweeps.
SweepContinues ==
    (\E j \in Expired(ended, now) : ~ended[j].scrubbed /\ InReach(j)) =>
        \A T \in Batches(ended, now) : Unscrubbed(ended, T) # {}

-----------------------------------------------------------------------------
(* The inductive invariant (BacklogProofs).                                *)

\* The columns of an active and of a finished row.
JobRow ==
    [state : {"queued", "waiting_resources", "leased"}, class : DOMAIN Bands,
     base : Nat, effective : Nat, queued : Nat, model : Models \cup {None},
     owner : Workers \cup {None}]
EndedRow == [completed : Nat, scrubbed : BOOLEAN]

\* No instant of a row lies ahead; rows are numbered as they come and none is
\* ever deleted.
Tables ==
    /\ jobs \in [DOMAIN jobs -> JobRow] /\ ended \in [DOMAIN ended -> EndedRow]
    /\ \A j \in DOMAIN jobs :
          /\ jobs[j].queued <= now
          /\ jobs[j].base \in Bands[jobs[j].class][1] .. Bands[jobs[j].class][2]
    /\ \A j \in DOMAIN ended : ended[j].completed <= now
    /\ \E n \in 0 .. MaxJobs : DOMAIN jobs \cup DOMAIN ended = 1 .. n

\* Behind OlderFirst: all priorities date from one sweep, those of jobs held
\* or given back since from no later one.
AgedAt(at) ==
    \A j \in DOMAIN jobs :
        LET aged == effective_priority(jobs[j].base, jobs[j].class, at - jobs[j].queued)
        IN  /\ jobs[j].effective <= aged
            /\ j \in WaitingJobs \ returned => jobs[j].effective = aged

\* Behind BypassBounded: the claims by affinity in the current streaks.
Affine == {claim \in Workers \X (1 .. MaxStreak) : claim[2] <= streak[claim[1]]}

BacklogInv ==
    /\ TypeOK /\ Tables
    /\ \E at \in 0 .. tick : AgedAt(at)
    /\ bypassed \in 0 .. Cardinality(Affine)
=============================================================================

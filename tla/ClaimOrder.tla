----------------------------- MODULE ClaimOrder -----------------------------
(***************************************************************************)
(* The order in which queued jobs are taken: the bands and the ageing      *)
(* arithmetic of domain/priority.py and the two claim statements of        *)
(* services/queue.py, as operators on a table of jobs.  No variables.      *)
(*                                                                         *)
(* Time is in whole minutes.  RateNum / RateDen is                         *)
(* ageing_priority_per_minute; AGEING_EPSILON_POINTS only undoes the error *)
(* of floating point, which integers do not have.  scheduled_for is always *)
(* the instant of the write that queues the row, so the gate of a claim    *)
(* (scheduled_for <= now) hides a row only from a clock read before that   *)
(* write; it is left out.                                                  *)
(***************************************************************************)
EXTENDS Integers, FiniteSetsExt

CONSTANTS None,             \* NULL, and a priority the caller did not give
          Bands,            \* class -> its inclusive <<bottom, top>>
          Overflow,         \* queue.overflow_allowance
          RateNum, RateDen, \* queue.ageing_priority_per_minute
          MaxStreak         \* queue.max_affinity_streak

ASSUME OrderAssumption ==
    /\ \A c \in DOMAIN Bands :
          Bands[c][1] \in Nat /\ Bands[c][2] \in Nat /\ Bands[c][1] <= Bands[c][2]
    /\ {Overflow, RateNum} \subseteq Nat
    /\ {RateDen, MaxStreak} \subseteq Nat \ {0}

-----------------------------------------------------------------------------
(* domain/priority.py.                                                     *)

\* The band is not escapable: a priority outside it is a ValidationError.
InBand(class, requested) ==
    requested = None \/ requested \in Bands[class][1] .. Bands[class][2]

base_priority(class, requested) ==
    IF requested = None THEN Bands[class][1] ELSE requested

ageing_cap(class) == Bands[class][2] + Overflow

\* A clock that stepped backwards ages nothing.
effective_priority(base, class, waiting) ==
    Min({base + (Max({waiting, 0}) * RateNum) \div RateDen, ageing_cap(class)})

-----------------------------------------------------------------------------
(* claim().                                                                *)

Eligible(jobs) == {j \in DOMAIN jobs : jobs[j].state = "queued"}

TopPriority(jobs, S) == Max({jobs[j].effective : j \in S})

\* ORDER BY effective_priority DESC, created_at ASC LIMIT 1: any of those that
\* tie on both.
FirstOf(jobs, S) ==
    {j \in S : \A k \in S :
        \/ jobs[j].effective > jobs[k].effective
        \/ /\ jobs[j].effective = jobs[k].effective
           /\ jobs[j].queued <= jobs[k].queued}

\* The tie group of the highest priority, the jobs of a resident model.
Matching(jobs, S, resident) ==
    {j \in S : /\ jobs[j].effective = TopPriority(jobs, S)
               /\ jobs[j].model \in resident}

\* Whether the affinity statement is run and finds a job.
ByAffinity(jobs, S, resident, streak) ==
    /\ resident # {} /\ streak < MaxStreak /\ S # {}
    /\ Matching(jobs, S, resident) # {}

\* The jobs a claim may return.
Claimable(jobs, resident, streak) ==
    LET S == Eligible(jobs)
    IN  IF ByAffinity(jobs, S, resident, streak)
        THEN FirstOf(jobs, Matching(jobs, S, resident)) ELSE FirstOf(jobs, S)
=============================================================================

---------------------------- MODULE LeaseKeeper -----------------------------
(***************************************************************************)
(* The time behind the leases of module JobQueue: the scheduler thread's   *)
(* tick runs the lease keeper when it is due and then the reaper when it   *)
(* is due (services/worker.py Scheduler), over the expiry times claim,     *)
(* renew_leases and reap_expired_leases write (services/queue.py).         *)
(*                                                                         *)
(* `_due` records the attempt before the work is done, and an exception    *)
(* leaves the tick: a keeper pass that fails is not repeated before the    *)
(* next interval, while the reaper is back at the next tick.  That, and    *)
(* how late a tick may be, decides whether a live worker can lose its      *)
(* lease; the margin between the two intervals is what                     *)
(* QueueSettings._check_lease_renewal_margin is for.                       *)
(***************************************************************************)
EXTENDS Integers

CONSTANTS Workers,
          Lease,      \* queue.lease_seconds
          Renewal,    \* queue.lease_renewal_interval_seconds
          ReapEvery,  \* _REAPER_INTERVAL_SECONDS
          Gap,        \* the longest time from one tick's start to the next's
          Tolerated,  \* missed renewals a live hold is expected to survive
          MaxTime     \* bound: the clock stops here

\* The settings the validator accepts.
ASSUME LeaseKeeperAssumption ==
    /\ {Lease, Renewal, ReapEvery, Gap} \subseteq Nat \ {0}
    /\ {Tolerated, MaxTime} \subseteq Nat
    /\ Lease >= 3 * Renewal

VARIABLES
    now,      \* the wall clock
    tick,     \* the tick that runs, or ran last: where it stands, its instant
    last,     \* Scheduler._last for the keeper and the reaper
    hold,     \* each worker's claim, as the row and the registry know it
    expires,  \* its lease_expires_at
    renewed,  \* whether the keeper has renewed it
    missed    \* keeper passes that failed to renew it, since the last that did

keeperVars == <<now, tick, last, hold, expires, renewed, missed>>

\* claimed: leased and not yet in the registry; dead: the thread ended and the
\* lease stayed behind; lost: the reaper took the lease from a live worker.
Hold == {"none", "claimed", "registered", "dead", "lost"}

KeeperInit ==
    /\ now = 0
    /\ tick = [at |-> "idle", now |-> 0]
    /\ last = [keeper |-> -Renewal, reaper |-> -ReapEvery]   \* None: due
    /\ hold = [w \in Workers |-> "none"]
    /\ expires = [w \in Workers |-> 0]
    /\ renewed = [w \in Workers |-> FALSE]
    /\ missed = [w \in Workers |-> 0]

-----------------------------------------------------------------------------
(* Time and the workers.                                                   *)

\* The scheduler thread may be late, by what Gap allows.
Advance ==
    /\ now < MaxTime
    /\ now - tick.now < Gap
    /\ now' = now + 1
    /\ UNCHANGED <<tick, last, hold, expires, renewed, missed>>

Claim(w) ==
    /\ hold[w] = "none"
    /\ hold' = [hold EXCEPT ![w] = "claimed"]
    /\ expires' = [expires EXCEPT ![w] = now + Lease]
    /\ renewed' = [renewed EXCEPT ![w] = FALSE]
    /\ missed' = [missed EXCEPT ![w] = 0]
    /\ UNCHANGED <<now, tick, last>>

Register(w) ==
    /\ hold[w] = "claimed"
    /\ hold' = [hold EXCEPT ![w] = "registered"]
    /\ UNCHANGED <<now, tick, last, expires, renewed, missed>>

\* The job reaches a state without a lease, or the worker notices its loss.
Finish(w) ==
    /\ hold[w] \in {"registered", "lost"}
    /\ hold' = [hold EXCEPT ![w] = "none"]
    /\ UNCHANGED <<now, tick, last, expires, renewed, missed>>

\* The thread dies: its entry is removed, its lease is not.
Die(w) ==
    /\ hold[w] = "registered"
    /\ hold' = [hold EXCEPT ![w] = "dead"]
    /\ UNCHANGED <<now, tick, last, expires, renewed, missed>>

-----------------------------------------------------------------------------
(* The scheduler thread.                                                   *)

StartTick ==
    /\ tick.at = "idle"
    /\ tick' = [at |-> "keeper", now |-> now]
    /\ UNCHANGED <<now, last, hold, expires, renewed, missed>>

Due(name, interval) == tick.now - last[name] >= interval

Registered == {w \in Workers : hold[w] = "registered"}

\* Mutant: the lease is renewed for one renewal interval.
RenewShort(S) ==
    /\ expires' = [w \in Workers |-> IF w \in S THEN tick.now + Renewal
                                               ELSE expires[w]]
    /\ renewed' = [w \in Workers |-> renewed[w] \/ w \in S]
    /\ missed' = [w \in Workers |->
                    IF w \in S THEN 0
                    ELSE IF hold[w] = "registered" THEN missed[w] + 1
                    ELSE missed[w]]

\* The leases of S are renewed in this pass, those of the other holds are not.
Renew(S) ==
    /\ expires' = [w \in Workers |-> IF w \in S THEN tick.now + Lease
                                               ELSE expires[w]]
    /\ renewed' = [w \in Workers |-> renewed[w] \/ w \in S]
    /\ missed' = [w \in Workers |->
                    IF w \in S THEN 0
                    ELSE IF hold[w] = "registered" THEN missed[w] + 1
                    ELSE missed[w]]

KeepLeases ==
    /\ tick.at = "keeper" /\ Due("keeper", Renewal)
    /\ last' = [last EXCEPT !.keeper = tick.now]
    /\ Renew(Registered)
    /\ tick' = [tick EXCEPT !.at = "reaper"]
    /\ UNCHANGED <<now, hold>>

\* renew_leases raises for some worker: those before it are renewed, and the
\* exception ends the tick.
KeeperFails ==
    /\ tick.at = "keeper" /\ Due("keeper", Renewal)
    /\ last' = [last EXCEPT !.keeper = tick.now]
    /\ \E S \in SUBSET Registered : S # Registered /\ Renew(S)
    /\ tick' = [tick EXCEPT !.at = "idle"]
    /\ UNCHANGED <<now, hold>>

KeeperNotDue ==
    /\ tick.at = "keeper" /\ ~Due("keeper", Renewal)
    /\ tick' = [tick EXCEPT !.at = "reaper"]
    /\ UNCHANGED <<now, last, hold, expires, renewed, missed>>

\* Mutant: the reaper looks at the jobs of the registry only.
ExpiredRegistered(w) == hold[w] = "registered" /\ expires[w] < tick.now

Expired(w) ==
    /\ hold[w] \in {"claimed", "registered", "dead"}
    /\ expires[w] < tick.now

\* A dead worker's row is recovered; a live one has lost its lease.
ReapExpiredLeases ==
    /\ tick.at = "reaper" /\ Due("reaper", ReapEvery)
    /\ last' = [last EXCEPT !.reaper = tick.now]
    /\ hold' = [w \in Workers |->
                  IF ~Expired(w) THEN hold[w]
                  ELSE IF hold[w] = "dead" THEN "none" ELSE "lost"]
    /\ tick' = [tick EXCEPT !.at = "idle"]
    /\ UNCHANGED <<now, expires, renewed, missed>>

ReaperNotDue ==
    /\ tick.at = "reaper" /\ ~Due("reaper", ReapEvery)
    /\ tick' = [tick EXCEPT !.at = "idle"]
    /\ UNCHANGED <<now, last, hold, expires, renewed, missed>>

KeeperNext ==
    \/ Advance
    \/ \E w \in Workers : Claim(w) \/ Register(w) \/ Finish(w) \/ Die(w)
    \/ StartTick \/ KeepLeases \/ KeeperFails \/ KeeperNotDue
    \/ ReapExpiredLeases \/ ReaperNotDue

KeeperSpec == KeeperInit /\ [][KeeperNext]_keeperVars

-----------------------------------------------------------------------------
(* Properties.                                                             *)

\* Instants never run ahead of the clock and every variable has its type.
KeeperTypeOK ==
    /\ now \in 0 .. MaxTime
    /\ tick \in [at : {"idle", "keeper", "reaper"}, now : 0 .. now]
    /\ last \in [keeper : Int, reaper : Int]
    /\ last.keeper <= tick.now /\ last.reaper <= tick.now
    /\ hold \in [Workers -> Hold]
    /\ expires \in [Workers -> Nat]
    /\ renewed \in [Workers -> BOOLEAN]
    /\ missed \in [Workers -> Nat]

\* The reaper takes a lease the keeper has renewed away from a live worker only
\* after more than Tolerated keeper passes in a row failed for it, however the
\* ticks are timed.
SurvivesMisses ==
    [][\A w \in Workers :
        hold[w] = "registered" /\ hold'[w] = "lost" /\ renewed[w] =>
            missed[w] > Tolerated]_keeperVars

\* A lease whose thread is dead is recovered within one reaper interval and two
\* ticks of its expiry, even when a keeper failure cuts a tick short.
DeadLeaseReaped ==
    \A w \in Workers :
        hold[w] = "dead" /\ tick.at = "idle" =>
            now <= expires[w] + ReapEvery + 2 * Gap

\* The keeper's and the reaper's instants are well ordered, and a lease nobody
\* renews any more does not outlive its expiry by more than the ticks explain
\* (Scheduler.tick, _due, reap_expired_leases).
KeeperSafe == KeeperTypeOK /\ DeadLeaseReaped

-----------------------------------------------------------------------------
(* The inductive invariant behind SurvivesMisses (RuntimeProofs).          *)

\* The keeper's last pass is at most Renewal + Gap after the pass before it,
\* so the misses of a hold bound how old its lease can be.
Fresh(w) ==
    renewed[w] =>
        /\ tick.now < last.keeper + Renewal + Gap
        /\ tick.at # "keeper" => tick.now < last.keeper + Renewal
        /\ hold[w] = "registered" =>
              last.keeper + Lease <= expires[w] + missed[w] * (Renewal + Gap)

\* What every step of the keeper, the reaper and the workers preserves.
KeeperInv ==
    /\ KeeperTypeOK
    /\ now <= tick.now + Gap
    /\ \A w \in Workers :
          Fresh(w) /\ (hold[w] = "claimed" => ~renewed[w])

-----------------------------------------------------------------------------
(* The inductive invariant behind DeadLeaseReaped (RuntimeProofs).         *)

\* A lease in the table has outlived every reaper pass so far.  The tick that
\* ended last came before the reaper could be due for it, or was cut short by
\* the keeper; the tick that runs is then not due to run the keeper again.
Lapse(w) ==
    hold[w] \in {"claimed", "registered", "dead"} =>
        /\ last.reaper <= expires[w]
        /\ tick.at = "idle" =>
              \/ tick.now <= expires[w] + ReapEvery
              \/ /\ tick.now = last.keeper
                 /\ tick.now <= expires[w] + ReapEvery + Gap
        /\ tick.at = "keeper" =>
              \/ tick.now <= expires[w] + ReapEvery + Gap
              \/ ~Due("keeper", Renewal)

\* What every step preserves when a tick follows the last sooner than the
\* keeper is due again.
ReapInv == KeeperInv /\ \A w \in Workers : Lapse(w)
=============================================================================

------------------------------ MODULE JobQueue ------------------------------
(***************************************************************************)
(* The lifecycle of queued jobs: services/queue.py (the jobs table),       *)
(* services/worker.py (worker threads, the scheduler thread with its lease *)
(* keeper, reaper and watchdog) and services/recovery.py (startup), as     *)
(* they interleave.                                                        *)
(*                                                                         *)
(* One action is one committed write transaction, or one local step of a   *)
(* thread between two transactions; `sink.write` commits the row and its   *)
(* event together and rolls both back on any exception.  Worker labels     *)
(* follow the order of Worker.process/_run/_attempts.                      *)
(*                                                                         *)
(* Time is left out: a lease may expire whenever its row has one, a        *)
(* max-wait bound may pass whenever a job waits.  The timed argument for   *)
(* when that can happen to a live worker is in LeaseKeeper.  The order in  *)
(* which queued jobs are claimed is left open too.                         *)
(***************************************************************************)
EXTENDS JobTable, Naturals

CONSTANTS Jobs,         \* job identifiers
          Workers,      \* the worker threads, by their lease owner string
          MaxAttempts   \* execution.max_attempts, copied to every job

ASSUME JobQueueAssumption ==
    /\ MaxAttempts \in Nat \ {0}
    /\ None \notin Workers \cup Jobs
    /\ None \notin JobState \cup {Absent}

VARIABLES
    jobs,     \* the jobs table
    pc,       \* where each worker thread stands
    wjob,     \* the job each worker is processing
    wst,      \* the local variable `state` of Worker._attempts
    watt,     \* the local variable `attempt_number`
    out,      \* the outcome of the worker's last provider call
    entry,    \* its InFlightEntry: registered, cancellation token, lost flag
    keeper,   \* where the scheduler thread stands in keep_leases
    up        \* whether the serving process runs

worker == <<pc, wjob, wst, watt, out>>
vars   == <<jobs, pc, wjob, wst, watt, out, entry, keeper, up>>

-----------------------------------------------------------------------------
(* Initial state and types.                                                *)

NoRow == [state |-> Absent, lease_owner |-> None, attempt |-> 0,
          cancel_requested |-> FALSE, idempotent |-> FALSE]

NoEntry == [held |-> FALSE, cancel |-> FALSE, lost |-> FALSE]

NewEntry == [NoEntry EXCEPT !.held = TRUE]

KeeperIdle == [at |-> "idle", who |-> None, job |-> None]

Row == [state : JobState \cup {Absent}, lease_owner : Workers \cup {None},
        attempt : 0 .. MaxAttempts, cancel_requested : BOOLEAN,
        idempotent : BOOLEAN]

Entry == [held : BOOLEAN, cancel : BOOLEAN, lost : BOOLEAN]

Outcome == {"passed", "invalid", "failed", "cancelled"}

\* Labels at which a worker holds a registered entry and may still write.
Running == {"start", "routing", "admitted", "candidate", "attempt", "loading",
            "starting", "calling", "answered", "passed", "deciding", "retry",
            "backoff", "readmit", "cancel", "failing", "crashing"}

Label == Running \cup {"idle", "claimed", "ending", "dead"}

Init ==
    /\ jobs = [j \in Jobs |-> NoRow]
    /\ pc = [w \in Workers |-> "idle"]
    /\ wjob = [w \in Workers |-> None]
    /\ wst = [w \in Workers |-> None]
    /\ watt = [w \in Workers |-> 0]
    /\ out = [w \in Workers |-> None]
    /\ entry = [w \in Workers |-> NoEntry]
    /\ keeper = KeeperIdle
    /\ up = TRUE

-----------------------------------------------------------------------------
(* Callers: the API and the command line, in any process.                  *)

Queued(idempotent) ==
    [state |-> "queued", lease_owner |-> None, attempt |-> 0,
     cancel_requested |-> FALSE, idempotent |-> idempotent]

\* The insert of enqueue.  The idempotency key and the depth bounds, which
\* decide whether a submission gets this far, are in Intake.
Enqueue(j, idempotent) ==
    /\ jobs[j].state = Absent
    /\ jobs' = [jobs EXCEPT ![j] = Queued(idempotent)]
    /\ UNCHANGED <<worker, entry, keeper, up>>

Flagged(row) == [row EXCEPT !.cancel_requested = TRUE]

\* cancel_job's transaction.  A terminal job answers 409 and a job already
\* cancelling is left as it is.
CancelJob(j) ==
    LET row == jobs[j]
        target == cancel_target(row.state)
    IN  /\ row.state \in Active
        /\ target # None
        /\ CanMove(row, row.state, target)
        /\ jobs' = [jobs EXCEPT ![j] = Flagged(Moved(row, target))]
        /\ UNCHANGED <<worker, entry, keeper, up>>

\* An entry whose token is cancelled, and one the keeper found to be lost.
Signalled(e) == [e EXCEPT !.cancel = TRUE]

MarkedLost(e) == [e EXCEPT !.lost = TRUE, !.cancel = TRUE]

\* The entries request_cancel cancels: every hold on j in this process.
Cancelled(j) ==
    [w \in Workers |-> IF entry[w].held /\ wjob[w] = j
                       THEN Signalled(entry[w]) ELSE entry[w]]

\* The token reaches the workers after the flag is committed: by cancel_job's
\* on_request hook in this process, by the keeper for any other process.
DeliverCancel(j) ==
    /\ up
    /\ jobs[j].cancel_requested
    /\ \E w \in Workers : entry[w].held /\ wjob[w] = j /\ ~entry[w].cancel
    /\ entry' = Cancelled(j)
    /\ UNCHANGED <<jobs, worker, keeper, up>>

-----------------------------------------------------------------------------
(* Worker steps: the two shapes every step has.                            *)

At(w, label) == up /\ pc[w] = label

\* A step between transactions: only the program counter moves.
Goto(w, label) ==
    /\ pc' = [pc EXCEPT ![w] = label]
    /\ UNCHANGED <<jobs, wjob, wst, watt, out, entry, keeper, up>>

\* A refused transition or attempt: the transaction rolls back and process()
\* cancels its token and stops touching the job.
Refused(w) ==
    /\ pc' = [pc EXCEPT ![w] = "ending"]
    /\ entry' = [entry EXCEPT ![w] = Signalled(entry[w])]
    /\ UNCHANGED <<jobs, wjob, wst, watt, out, keeper, up>>

\* A committed transition of the worker's row, after which it believes `target`.
Committed(w, row, target, then) ==
    /\ jobs' = [jobs EXCEPT ![wjob[w]] = Moved(row, target)]
    /\ pc' = [pc EXCEPT ![w] = then]
    /\ wst' = [wst EXCEPT ![w] = target]
    /\ UNCHANGED <<wjob, watt, out, entry, keeper, up>>

\* `transition` from the state the worker believes in, fenced on its lease.
Fenced(w, target, then) ==
    LET row == jobs[wjob[w]] IN
    \/ /\ CanMoveAs(row, wst[w], target, w)
       /\ Committed(w, row, target, then)
    \/ /\ ~CanMoveAs(row, wst[w], target, w)
       /\ Refused(w)

\* write_attempt: the counter moves, provided the lease is ours and the number
\* it yields is the one this attempt was started with.
CanWrite(w) ==
    /\ jobs[wjob[w]].lease_owner = w
    /\ jobs[wjob[w]].attempt + 1 = watt[w]

Written(row) == [row EXCEPT !.attempt = @ + 1]

\* write_attempt and the transition out of executing, in one transaction.
RecordAttempt(w, target, then) ==
    LET row == jobs[wjob[w]] IN
    \/ /\ CanWrite(w) /\ CanMoveAs(row, "executing", target, w)
       /\ Committed(w, Written(row), target, then)
    \/ /\ ~(CanWrite(w) /\ CanMoveAs(row, "executing", target, w))
       /\ Refused(w)

-----------------------------------------------------------------------------
(* Claiming and admission.                                                 *)

LeasedTo(row, w) == [Moved(row, "leased") EXCEPT !.lease_owner = w]

\* claim(): one UPDATE ... RETURNING over the queued rows.
Claim(w, j) ==
    /\ At(w, "idle")
    /\ CanMove(jobs[j], "queued", "leased")
    /\ jobs' = [jobs EXCEPT ![j] = LeasedTo(jobs[j], w)]
    /\ pc' = [pc EXCEPT ![w] = "claimed"]
    /\ wjob' = [wjob EXCEPT ![w] = j]
    /\ wst' = [wst EXCEPT ![w] = "leased"]
    /\ watt' = [watt EXCEPT ![w] = jobs[j].attempt]
    /\ UNCHANGED <<out, entry, keeper, up>>

\* process(): the entry is registered after the claim has committed.
Register(w) ==
    /\ At(w, "claimed")
    /\ entry' = [entry EXCEPT ![w] = NewEntry]
    /\ pc' = [pc EXCEPT ![w] = "start"]
    /\ UNCHANGED <<jobs, wjob, wst, watt, out, keeper, up>>

\* _run: the flag is read before routing and again after admission.
CheckFlag(w, label, next) ==
    /\ At(w, label)
    /\ Goto(w, IF jobs[wjob[w]].cancel_requested THEN "cancel" ELSE next)

\* _route: a candidate is admitted, the job is deferred, or it fails.
Admit(w) == At(w, "routing") /\ Fenced(w, "admitted", "admitted")

Defer(w) == At(w, "routing") /\ Fenced(w, "waiting_resources", "ending")

FailAdmission(w) == At(w, "routing") /\ Fenced(w, "failed", "ending")

-----------------------------------------------------------------------------
(* The attempt loop.                                                       *)

\* Mutant: _readmit always starts with the transition to retrying.
ReentryAlways(w) == "retry"

\* Where a candidate is entered: the first one is admitted already, a later
\* one goes through _readmit, whose first transaction a row that is already
\* retrying skips.
Reentry(w) == IF wst[w] = "retrying" THEN "backoff" ELSE "retry"

\* The breaker gate lets the worker run a candidate, now or after skipping.
EnterCandidate(w) ==
    /\ At(w, "candidate")
    /\ Goto(w, IF wst[w] = "admitted" THEN "attempt" ELSE Reentry(w))

\* Every remaining candidate is half-open with another probe out.
RequeueForProbe(w) == At(w, "candidate") /\ Fenced(w, "queued", "ending")

\* The exhaustion check and the next attempt number.
TakeNumber(w) ==
    /\ At(w, "attempt")
    /\ pc' = [pc EXCEPT ![w] =
                 IF watt[w] >= MaxAttempts THEN "failing" ELSE "loading"]
    /\ watt' = [watt EXCEPT ![w] =
                   IF watt[w] >= MaxAttempts THEN @ ELSE @ + 1]
    /\ UNCHANGED <<jobs, wjob, wst, out, entry, keeper, up>>

\* After the model is resident: token, lost flag and row are consulted.
CheckBeforeCall(w) ==
    /\ At(w, "loading")
    /\ Goto(w, IF \/ entry[w].cancel \/ entry[w].lost
                  \/ jobs[wjob[w]].cancel_requested
               THEN "cancel" ELSE "starting")

StartExecuting(w) == At(w, "starting") /\ Fenced(w, "executing", "calling")

\* run_attempt returns.  Only a cancelled token makes the provider raise
\* GenerationCancelled; a provider that ignores its token answers as usual.
ProviderReturns(w) ==
    /\ At(w, "calling")
    /\ \E o \in Outcome :
          /\ o = "cancelled" => entry[w].cancel
          /\ out' = [out EXCEPT ![w] = o]
    /\ pc' = [pc EXCEPT ![w] = "answered"]
    /\ UNCHANGED <<jobs, wjob, wst, watt, entry, keeper, up>>

StopCancelled(w) ==
    /\ At(w, "answered")
    /\ out[w] = "cancelled" \/ entry[w].cancel
    /\ Goto(w, "cancel")

RecordFailedAttempt(w) ==
    /\ At(w, "answered") /\ ~entry[w].cancel
    /\ out[w] = "failed"
    /\ RecordAttempt(w, "retrying", "deciding")

ValidateAttempt(w) ==
    /\ At(w, "answered") /\ ~entry[w].cancel
    /\ out[w] \in {"passed", "invalid"}
    /\ RecordAttempt(w, "validating",
                     IF out[w] = "passed" THEN "passed" ELSE "deciding")

Complete(w) == At(w, "passed") /\ Fenced(w, "completed", "ending")

\* next_action: retry here, fall back, or no candidate is left.
RetrySame(w) ==
    /\ At(w, "deciding")
    /\ Goto(w, IF watt[w] >= MaxAttempts THEN "failing" ELSE Reentry(w))

FallBack(w) ==
    /\ At(w, "deciding")
    /\ \E next \in {"candidate", "failing"} : Goto(w, next)

\* _readmit: to retrying; then, after the backoff, the token; then admitted.
BeginRetry(w) == At(w, "retry") /\ Fenced(w, "retrying", "backoff")

CheckAfterBackoff(w) ==
    /\ At(w, "backoff")
    /\ Goto(w, IF entry[w].cancel \/ entry[w].lost THEN "cancel" ELSE "readmit")

Readmit(w) == At(w, "readmit") /\ Fenced(w, "admitted", "attempt")

-----------------------------------------------------------------------------
(* Endings.                                                                *)

Fail(w) == At(w, "failing") /\ Fenced(w, "failed", "ending")

\* Mutant: the row is not re-read, so a lost lease goes unnoticed.
CancelFromBlind(w) ==
    /\ At(w, "cancel")
    /\ jobs' = [jobs EXCEPT ![wjob[w]] =
                   Flagged(Moved(jobs[wjob[w]], "cancelled"))]
    /\ pc' = [pc EXCEPT ![w] = "ending"]
    /\ UNCHANGED <<wjob, wst, watt, out, entry, keeper, up>>

\* _cancel_from: whatever state the row is in, provided the lease is ours, in
\* one transaction to cancelling (unless it is there) and on to cancelled,
\* with the attempt row of a call that ended by cancellation.
CancelFrom(w) ==
    LET row == jobs[wjob[w]]
        partial == out[w] = "cancelled"
        may == /\ row.lease_owner = w
               /\ partial => CanWrite(w)
               /\ row.state # "cancelling" => is_legal(row.state, "cancelling")
    IN  /\ At(w, "cancel")
        /\ \/ /\ may
              /\ jobs' = [jobs EXCEPT ![wjob[w]] = Flagged(
                    Moved(IF partial THEN Written(row) ELSE row, "cancelled"))]
              /\ pc' = [pc EXCEPT ![w] = "ending"]
              /\ UNCHANGED <<wjob, wst, watt, out, entry, keeper, up>>
           \/ ~may /\ Refused(w)

\* Any other exception below process(): a bug, a database error, a provider
\* raising something ModelRack does not name.
WorkerError(w) ==
    /\ up /\ pc[w] \in Running \ {"crashing"}
    /\ Goto(w, "crashing")

\* _fail_after_crash: from whatever state the row is in under our lease; an
\* IllegalTransition (the row is cancelling) is logged and swallowed.
FailAfterCrash(w) ==
    LET row == jobs[wjob[w]] IN
    /\ At(w, "crashing")
    /\ jobs' = IF CanMoveAs(row, row.state, "failed", w)
               THEN [jobs EXCEPT ![wjob[w]] = Moved(row, "failed")] ELSE jobs
    /\ pc' = [pc EXCEPT ![w] = "ending"]
    /\ UNCHANGED <<wjob, wst, watt, out, entry, keeper, up>>

\* The worker forgets its job: the `finally` of process().
Forget(w, label) ==
    /\ pc' = [pc EXCEPT ![w] = label]
    /\ wjob' = [wjob EXCEPT ![w] = None]
    /\ wst' = [wst EXCEPT ![w] = None]
    /\ watt' = [watt EXCEPT ![w] = 0]
    /\ out' = [out EXCEPT ![w] = None]
    /\ entry' = [entry EXCEPT ![w] = NoEntry]
    /\ UNCHANGED <<jobs, keeper, up>>

Finish(w) == At(w, "ending") /\ Forget(w, "idle")

\* _fail_after_crash catches SuiteError only and run() guards only the claim:
\* a second database error ends the thread, after the same `finally`.
ThreadDies(w) == At(w, "crashing") /\ Forget(w, "dead")

-----------------------------------------------------------------------------
(* The scheduler thread.  Its sub-steps run one after another, so none of  *)
(* them falls inside keep_leases.                                          *)

SchedulerFree == up /\ keeper.at = "idle"

\* keep_leases, for one worker: which job the registry says it holds, ...
KeeperReads(w) ==
    /\ SchedulerFree
    /\ entry[w].held
    /\ keeper' = [at |-> "renew", who |-> w, job |-> wjob[w]]
    /\ UNCHANGED <<jobs, worker, entry, up>>

\* ... renew_leases in a transaction of its own, ...
KeeperRenews ==
    /\ up /\ keeper.at = "renew"
    /\ keeper' = IF /\ jobs[keeper.job].lease_owner = keeper.who
                    /\ jobs[keeper.job].state \in InFlight
                 THEN KeeperIdle ELSE [keeper EXCEPT !.at = "mark"]
    /\ UNCHANGED <<jobs, worker, entry, up>>

\* Mutant: mark_lost waits for an entry that may be gone for good.
KeeperMarksLostStrict ==
    LET w == keeper.who IN
    /\ up /\ keeper.at = "mark"
    /\ entry[w].held /\ wjob[w] = keeper.job
    /\ entry' = [entry EXCEPT ![w] = MarkedLost(entry[w])]
    /\ keeper' = KeeperIdle
    /\ UNCHANGED <<jobs, worker, up>>

\* ... and mark_lost, on the entry that is under that key by then.
KeeperMarksLost ==
    LET w == keeper.who IN
    /\ up /\ keeper.at = "mark"
    /\ entry' = IF entry[w].held /\ wjob[w] = keeper.job
                THEN [entry EXCEPT ![w] = MarkedLost(entry[w])] ELSE entry
    /\ keeper' = KeeperIdle
    /\ UNCHANGED <<jobs, worker, up>>

\* Mutant: a requeued row forgets its attempts.
RecoverRowsAfresh(S) ==
    jobs' = [j \in Jobs |-> IF j \in S
                            THEN [Recovered(jobs[j]) EXCEPT !.attempt = 0]
                            ELSE jobs[j]]

\* The rows of S, moved where recovery_target says.
RecoverRows(S) ==
    jobs' = [j \in Jobs |-> IF j \in S THEN Recovered(jobs[j]) ELSE jobs[j]]

\* The reaper: S is the set of rows whose lease_expires_at has passed.
ReapExpiredLeases(S) ==
    /\ SchedulerFree
    /\ S # {} /\ \A j \in S : jobs[j].lease_owner # None
    /\ RecoverRows(S)
    /\ UNCHANGED <<worker, entry, keeper, up>>

\* expire_max_wait: S is the set of waiting rows past their bound.
ExpireMaxWait(S) ==
    /\ SchedulerFree
    /\ S # {} /\ \A j \in S : jobs[j].state \in Waiting
    /\ jobs' = [j \in Jobs |-> IF j \in S THEN Moved(jobs[j], "failed")
                                          ELSE jobs[j]]
    /\ UNCHANGED <<worker, entry, keeper, up>>

\* reevaluate_waiting, for one job that could be admitted now.
ReevaluateWaiting(j) ==
    /\ SchedulerFree
    /\ CanMove(jobs[j], "waiting_resources", "queued")
    /\ jobs' = [jobs EXCEPT ![j] = Moved(jobs[j], "queued")]
    /\ UNCHANGED <<worker, entry, keeper, up>>

\* The watchdog, for one job that has been cancelling for too long.
Watchdog(j) ==
    /\ SchedulerFree
    /\ CanMove(jobs[j], "cancelling", "cancelled")
    /\ jobs' = [jobs EXCEPT ![j] = Moved(jobs[j], "cancelled")]
    /\ entry' = Cancelled(j)
    /\ UNCHANGED <<worker, keeper, up>>

-----------------------------------------------------------------------------
(* The process dies at any point and is started again.                     *)

Crash ==
    /\ up /\ up' = FALSE
    /\ pc' = [w \in Workers |-> "idle"]
    /\ wjob' = [w \in Workers |-> None]
    /\ wst' = [w \in Workers |-> None]
    /\ watt' = [w \in Workers |-> 0]
    /\ out' = [w \in Workers |-> None]
    /\ entry' = [w \in Workers |-> NoEntry]
    /\ keeper' = KeeperIdle
    /\ UNCHANGED jobs

\* QueueRuntime.start: recover() before any thread exists.  The owners of the
\* dead process are not this one's, so every in-flight row is recovered.  The
\* re-evaluation that follows is ReevaluateWaiting.
Recover ==
    /\ ~up /\ up' = TRUE
    /\ RecoverRows({j \in Jobs : jobs[j].state \in InFlight})
    /\ UNCHANGED <<worker, entry, keeper>>

-----------------------------------------------------------------------------
\* What a worker thread does once it has claimed.
Step(w) ==
    \/ Register(w)
    \/ CheckFlag(w, "start", "routing") \/ CheckFlag(w, "admitted", "candidate")
    \/ Admit(w) \/ Defer(w) \/ FailAdmission(w)
    \/ EnterCandidate(w) \/ RequeueForProbe(w) \/ TakeNumber(w)
    \/ CheckBeforeCall(w) \/ StartExecuting(w) \/ ProviderReturns(w)
    \/ StopCancelled(w) \/ RecordFailedAttempt(w) \/ ValidateAttempt(w)
    \/ Complete(w) \/ RetrySame(w) \/ FallBack(w) \/ BeginRetry(w)
    \/ CheckAfterBackoff(w) \/ Readmit(w) \/ Fail(w) \/ CancelFrom(w)
    \/ FailAfterCrash(w) \/ Finish(w)

Scheduler ==
    \/ \E w \in Workers : KeeperReads(w)
    \/ KeeperRenews \/ KeeperMarksLost
    \/ \E S \in SUBSET Jobs : ReapExpiredLeases(S) \/ ExpireMaxWait(S)
    \/ \E j \in Jobs : ReevaluateWaiting(j) \/ Watchdog(j)

Next ==
    \/ \E j \in Jobs, i \in BOOLEAN : Enqueue(j, i)
    \/ \E j \in Jobs : CancelJob(j) \/ DeliverCancel(j)
    \/ \E w \in Workers, j \in Jobs : Claim(w, j)
    \/ \E w \in Workers : Step(w) \/ WorkerError(w) \/ ThreadDies(w)
    \/ Scheduler \/ Crash \/ Recover

Spec == Init /\ [][Next]_vars

(***************************************************************************)
(* Fairness.  A thread of a live process keeps running, and a provider     *)
(* call returns by its timeout: weak fairness of every worker step after a *)
(* claim (claiming itself may be paused for ever).  `tick` runs every      *)
(* sub-step each time it is due and none waits on a provider, so a         *)
(* sub-step with work to do again and again is taken in the end: strong    *)
(* fairness of the watchdog and of the reaper for a lease nobody renews.   *)
(* A process that died is started again.                                   *)
(***************************************************************************)
Held(j) == \E w \in Workers : entry[w].held /\ wjob[w] = j

ReapAbandoned(j) ==
    ~Held(j) /\ \E S \in SUBSET Jobs : j \in S /\ ReapExpiredLeases(S)

Fairness ==
    /\ \A w \in Workers : WF_vars(Step(w))
    /\ WF_vars(KeeperRenews) /\ WF_vars(KeeperMarksLost)
    /\ \A j \in Jobs : SF_vars(Watchdog(j)) /\ SF_vars(ReapAbandoned(j))
    /\ WF_vars(Recover)

FairSpec == Spec /\ Fairness

-----------------------------------------------------------------------------
(* Properties.                                                             *)

\* Every column and every local variable has its type; in particular
\* jobs.attempt never passes max_attempts.
TypeOK ==
    /\ jobs \in [Jobs -> Row]
    /\ pc \in [Workers -> Label]
    /\ wjob \in [Workers -> Jobs \cup {None}]
    /\ wst \in [Workers -> JobState \cup {None}]
    /\ watt \in [Workers -> 0 .. MaxAttempts]
    /\ out \in [Workers -> Outcome \cup {None}]
    /\ entry \in [Workers -> Entry]
    /\ keeper \in [at : {"idle", "renew", "mark"}, who : Workers \cup {None},
                   job : Jobs \cup {None}]
    /\ up \in BOOLEAN

\* The worker's lease on the job it is processing is still its own.
Mine(w) == wjob[w] \in Jobs /\ jobs[wjob[w]].lease_owner = w

\* A row carries a lease exactly while it is in flight: the invariant the
\* reaper relies on when it selects on lease_expires_at alone
\* (reap_expired_leases, "every row with a lease is in a lease-holding state
\* by invariant").
LeaseIffInFlight ==
    \A j \in Jobs : jobs[j].lease_owner # None <=> jobs[j].state \in InFlight

\* While a worker's lease is its own, the row is in the state the worker
\* believes or a cancel request has moved it to cancelling; a worker that is
\* letting go keeps a lease on a cancelling row only.  So a compare-and-set
\* of the lease owner is refused for a cancel and for nothing else.
HolderView ==
    \A w \in Workers :
        Mine(w) => \/ jobs[wjob[w]].state = "cancelling"
                   \/ pc[w] # "ending" /\ jobs[wjob[w]].state = wst[w]

\* In a live process every lease is accounted for: its owner is processing
\* that job, or its thread has died (the reaper recovers the row), or the row
\* is cancelling (the watchdog ends it).
LeaseAccounted ==
    \A j \in Jobs, w \in Workers :
        up /\ jobs[j].lease_owner = w =>
            wjob[w] = j \/ pc[w] = "dead" \/ jobs[j].state = "cancelling"

\* The states a worker's next fenced transition at a label moves to.
Targets(label) ==
    CASE label = "routing"   -> {"admitted", "waiting_resources", "failed"}
      [] label = "candidate" -> {"queued"}
      [] label = "starting"  -> {"executing"}
      [] label = "answered"  -> {"retrying", "validating"}
      [] label = "passed"    -> {"completed"}
      [] label = "retry"     -> {"retrying"}
      [] label = "readmit"   -> {"admitted"}
      [] label = "failing"   -> {"failed"}
      [] OTHER               -> {}

\* No worker ever attempts a transition that is not in the table: the
\* IllegalTransition of check_transition is never raised by Worker._run.
NeverIllegal ==
    \A w \in Workers : \A target \in Targets(pc[w]) : is_legal(wst[w], target)

\* The attempt number a worker took before its provider call is the one the
\* counter yields when the attempt is written, across retries, fallbacks,
\* requeues and reclaims: write_attempt's "numbering diverged" refusal is
\* never met by a lease holder.
NumberingAgrees ==
    \A w \in Workers :
        Mine(w) /\ pc[w] \in {"loading", "starting", "calling", "answered"} =>
            jobs[wjob[w]].attempt + 1 = watt[w]

\* Neither check inside a lease holder's own transaction ever refuses it: not
\* the transition table (check_transition) and not the numbering of attempts
\* (write_attempt).  A refused write is always somebody else's doing.
WritesAccepted == NeverIllegal /\ NumberingAgrees

\* An accepted cancel is final: such a job is cancelling or cancelled, and no
\* worker, reaper, sweep, crash or restart makes it anything else.
CancelWins ==
    \A j \in Jobs :
        jobs[j].cancel_requested => jobs[j].state \in {"cancelling", "cancelled"}

\* Non-idempotent work is inside at most one provider call, whatever leases
\* expire while its worker is in the call.
NoDuplicateSideEffect ==
    \A j \in Jobs : ~jobs[j].idempotent =>
        \A v, w \in {x \in Workers : wjob[x] = j /\ pc[x] = "calling"} : v = w

\* A terminal job is immutable: no column of its row changes again.
TerminalImmutable ==
    [][\A j \in Jobs : jobs[j].state \in Terminal => jobs'[j] = jobs[j]]_vars

\* Every committed change of a row's state is in the transition table, or is
\* the two moves _cancel_from makes in one transaction.
Moves(current, target) ==
    \/ current = target
    \/ is_legal(current, target)
    \/ current = Absent /\ target = "queued"
    \/ is_legal(current, "cancelling") /\ target = "cancelled"

LegalMoves ==
    [][\A j \in Jobs : Moves(jobs[j].state, jobs'[j].state)]_vars

\* A job completes only by the worker that owns its lease, with a provider
\* answer that passed validation and whose attempt is already recorded: a
\* worker that lost its lease never completes the reclaimer's job.
CompletedByHolder ==
    [][\A j \in Jobs :
        jobs'[j].state = "completed" /\ jobs[j].state # "completed" =>
            \E w \in Workers :
                /\ jobs[j].lease_owner = w /\ wjob[w] = j
                /\ out[w] = "passed" /\ jobs[j].attempt = watt[w]]_vars

\* The row of a job as its caller sees it.
Phase(s) == CASE s = Absent -> "unborn" [] s \in Waiting -> "waiting"
              [] s \in InFlight -> "held" [] OTHER -> s

Life == [j \in Jobs |-> [phase |-> Phase(jobs[j].state),
                         holder |-> jobs[j].lease_owner,
                         attempts |-> jobs[j].attempt,
                         asked |-> jobs[j].cancel_requested]]

Lifecycle == INSTANCE JobLifecycle WITH life <- Life

\* Workers, keeper, reaper, sweeps, crashes and restarts together implement
\* the lifecycle a caller is promised.
ImplementsLifecycle == Lifecycle!Spec

\* No job stays in cancelling: the worker, the watchdog, the reaper or the
\* next startup ends it.
CancellingEnds ==
    \A j \in Jobs : jobs[j].state = "cancelling" ~> jobs[j].state = "cancelled"

\* No job stays in flight for ever: workers may crash, threads may die and
\* the process may restart, and every row still leaves the in-flight states.
EveryHoldEnds ==
    \A j \in Jobs : jobs[j].state \in InFlight ~> jobs[j].state \notin InFlight

-----------------------------------------------------------------------------
(* The inductive invariant behind the safety properties (JobQueueProofs).  *)

\* What each label says about the worker's own variables.
Believes(w) ==
    /\ pc[w] \in {"claimed", "start", "routing"} => wst[w] = "leased"
    /\ pc[w] \in {"admitted", "attempt", "loading", "starting"} =>
            wst[w] = "admitted"
    /\ pc[w] \in {"calling", "answered"} => wst[w] = "executing"
    /\ pc[w] \in {"passed", "retry"} => wst[w] = "validating"
    /\ pc[w] \in {"backoff", "readmit"} => wst[w] = "retrying"
    /\ pc[w] = "deciding" => wst[w] \in {"validating", "retrying"}
    /\ pc[w] \in {"candidate", "failing"} =>
            wst[w] \in {"admitted", "validating", "retrying"}

Remembers(w) ==
    /\ wjob[w] = None <=> pc[w] \in {"idle", "dead"}
    /\ entry[w].held <=> pc[w] \in Running \cup {"ending"}
    /\ pc[w] \in {"idle", "dead", "claimed"} => out[w] = None
    /\ pc[w] = "passed" => out[w] = "passed"
    /\ out[w] = "cancelled" =>
            pc[w] \in {"answered", "cancel", "crashing", "ending"}

\* What a lease holder's attempt number says about the counter.
Numbers(w) ==
    LET attempt == jobs[wjob[w]].attempt IN
    Mine(w) =>
        /\ pc[w] \in {"loading", "starting", "calling", "answered"} =>
               attempt + 1 = watt[w]
        /\ pc[w] \in {"claimed", "start", "routing", "admitted", "candidate",
                      "attempt", "passed", "deciding", "retry", "backoff",
                      "readmit"} => attempt = watt[w]
        /\ pc[w] = "passed" => attempt > 0
        /\ pc[w] = "cancel" /\ out[w] = "cancelled" => attempt + 1 = watt[w]

\* A worker still at a non-idempotent job owns it, or the job is over.
Excludes(w) ==
    wjob[w] \in Jobs /\ pc[w] # "ending" =>
        /\ jobs[wjob[w]].state # Absent
        /\ \/ Mine(w) \/ jobs[wjob[w]].idempotent
           \/ jobs[wjob[w]].state \in Terminal

\* The conjunction that every step preserves: what the lease columns, the
\* threads' local variables and the registry say about each other while
\* leases are reaped, cancels arrive and the process restarts.
IInv ==
    /\ TypeOK
    /\ LeaseIffInFlight
    /\ CancelWins
    /\ HolderView
    /\ LeaseAccounted
    /\ \A w \in Workers :
          Believes(w) /\ Remembers(w) /\ Numbers(w) /\ Excludes(w)
    /\ ~up => \A w \in Workers : pc[w] = "idle"
=============================================================================

--------------------------- MODULE JobQueueProofs ---------------------------
(***************************************************************************)
(* Proofs about JobQueue for any number of jobs, workers and attempts: IInv *)
(* is inductive, so the safety properties of the specification hold.       *)
(*                                                                         *)
(* First what the row and entry operators return, then one lemma for each  *)
(* shape of worker step (a local step, a refused transaction, a committed  *)
(* one that keeps the lease, one that gives it up), then one per action.   *)
(* From IInv, Allowed says what one step may write to a row: the action    *)
(* properties follow from it, and that JobQueue implements JobLifecycle.   *)
(***************************************************************************)
EXTENDS JobQueue, TLAPS

USE JobQueueAssumption

-----------------------------------------------------------------------------
(* Rows, entries and the transition table.                                 *)

\* `transition` changes the state and, for a waiting or terminal target, the
\* lease; every other column is kept.
LEMMA MovedRow ==
    ASSUME NEW row \in Row, NEW target \in JobState
    PROVE  /\ Moved(row, target) \in Row
           /\ Moved(row, target).state = target
           /\ Moved(row, target).lease_owner =
                 IF target \in Waiting \cup Terminal THEN None ELSE row.lease_owner
           /\ Moved(row, target).attempt = row.attempt
           /\ Moved(row, target).cancel_requested = row.cancel_requested
           /\ Moved(row, target).idempotent = row.idempotent
  <1> DEFINE owner == IF target \in Waiting \cup Terminal THEN None
                                                         ELSE row.lease_owner
             mid == [row EXCEPT !.state = target]
  <1>1. /\ mid \in Row /\ mid.state = target
        /\ mid.lease_owner = row.lease_owner /\ mid.attempt = row.attempt
        /\ mid.cancel_requested = row.cancel_requested
        /\ mid.idempotent = row.idempotent
    BY DEF Row
  <1>2. Moved(row, target) = [mid EXCEPT !.lease_owner = owner]
    BY Zenon DEF Moved
  <1>3. owner \in Workers \cup {None}
    BY DEF Row
  <1> HIDE DEF owner, mid
  <1>4. /\ Moved(row, target) \in Row
        /\ Moved(row, target).lease_owner = owner
        /\ Moved(row, target).state = mid.state
        /\ Moved(row, target).attempt = mid.attempt
        /\ Moved(row, target).cancel_requested = mid.cancel_requested
        /\ Moved(row, target).idempotent = mid.idempotent
    BY <1>1, <1>2, <1>3 DEF Row
  <1> QED BY <1>1, <1>4 DEF owner

\* cancel_job sets cancel_requested and keeps every other column.
LEMMA FlaggedRow ==
    ASSUME NEW row \in Row
    PROVE  /\ Flagged(row) \in Row
           /\ Flagged(row).state = row.state
           /\ Flagged(row).lease_owner = row.lease_owner
           /\ Flagged(row).attempt = row.attempt
           /\ Flagged(row).cancel_requested = TRUE
           /\ Flagged(row).idempotent = row.idempotent
  BY DEF Flagged, Row

\* write_attempt moves the counter by one; it stays in bounds when the number
\* it yields was taken under the exhaustion check.
LEMMA WrittenRow ==
    ASSUME NEW row \in Row, row.attempt + 1 \in 0 .. MaxAttempts
    PROVE  /\ Written(row) \in Row
           /\ Written(row).state = row.state
           /\ Written(row).lease_owner = row.lease_owner
           /\ Written(row).attempt = row.attempt + 1
           /\ Written(row).cancel_requested = row.cancel_requested
           /\ Written(row).idempotent = row.idempotent
  BY DEF Written, Row

\* A claim moves the row to leased under the claimer's name.
LEMMA LeasedRow ==
    ASSUME NEW row \in Row, NEW w \in Workers
    PROVE  /\ LeasedTo(row, w) \in Row
           /\ LeasedTo(row, w).state = "leased"
           /\ LeasedTo(row, w).lease_owner = w
           /\ LeasedTo(row, w).attempt = row.attempt
           /\ LeasedTo(row, w).cancel_requested = row.cancel_requested
           /\ LeasedTo(row, w).idempotent = row.idempotent
  <1> DEFINE mid == Moved(row, "leased")
  <1>1. "leased" \in JobState
    BY DEF JobState, Active, InFlight, LeaseHolding
  <1>2. /\ mid \in Row /\ mid.state = "leased" /\ mid.attempt = row.attempt
        /\ mid.cancel_requested = row.cancel_requested
        /\ mid.idempotent = row.idempotent
    BY <1>1, MovedRow
  <1>3. LeasedTo(row, w) = [mid EXCEPT !.lease_owner = w]
    BY DEF LeasedTo
  <1> HIDE DEF mid
  <1> QED BY <1>2, <1>3 DEF Row

\* Cancelling a token, or marking a hold lost, never unregisters an entry.
LEMMA EntryFacts ==
    /\ NoEntry \in Entry /\ ~NoEntry.held
    /\ NewEntry \in Entry /\ NewEntry.held
    /\ \A e \in Entry : /\ Signalled(e) \in Entry /\ Signalled(e).held = e.held
                        /\ MarkedLost(e) \in Entry /\ MarkedLost(e).held = e.held
  <1>1. \A e \in Entry : Signalled(e) \in Entry /\ Signalled(e).held = e.held
    BY DEF Entry, Signalled
  <1>2. \A e \in Entry : MarkedLost(e) \in Entry /\ MarkedLost(e).held = e.held
    <2> TAKE e \in Entry
    <2> DEFINE mid == [e EXCEPT !.lost = TRUE]
    <2>1. mid \in Entry /\ mid.held = e.held
      BY DEF Entry
    <2>2. MarkedLost(e) = [mid EXCEPT !.cancel = TRUE]
      BY Zenon DEF MarkedLost
    <2> HIDE DEF mid
    <2> QED BY <2>1, <2>2 DEF Entry
  <1>3. NoEntry \in Entry /\ ~NoEntry.held /\ NewEntry \in Entry /\ NewEntry.held
    BY DEF NoEntry, NewEntry, Entry
  <1> QED BY <1>1, <1>2, <1>3

\* The pairs of the table that the worker's own transitions use, and the one
\* _fail_after_crash runs into on a cancelling row.
LEMMA LegalFacts ==
    /\ is_legal("leased", "admitted") /\ is_legal("leased", "waiting_resources")
    /\ is_legal("leased", "failed") /\ is_legal("admitted", "executing")
    /\ is_legal("executing", "retrying") /\ is_legal("executing", "validating")
    /\ is_legal("validating", "completed") /\ is_legal("validating", "retrying")
    /\ is_legal("retrying", "admitted")
    /\ \A s \in {"admitted", "validating", "retrying"} :
          is_legal(s, "queued") /\ is_legal(s, "failed")
    /\ \A s \in LeaseHolding : is_legal(s, "cancelling")
    /\ ~is_legal("cancelling", "failed")
  BY DEF is_legal, TRANSITIONS, LeaseHolding

\* The reaper and startup recovery move a lease-holding row to queued or
\* failed by its idempotency, a cancelling row to cancelled, no other row.
LEMMA RecoveredRow ==
    ASSUME NEW row \in Row
    PROVE  /\ row.state \in LeaseHolding /\ row.idempotent =>
                 Recovered(row) = Moved(row, "queued")
           /\ row.state \in LeaseHolding /\ ~row.idempotent =>
                 Recovered(row) = Moved(row, "failed")
           /\ row.state = "cancelling" => Recovered(row) = Moved(row, "cancelled")
           /\ row.state \notin InFlight => Recovered(row) = row
  <1>1. \A s \in LeaseHolding : is_legal(s, "queued") /\ is_legal(s, "failed")
    BY DEF is_legal, TRANSITIONS, LeaseHolding
  <1>2. is_legal("cancelling", "cancelled")
    BY DEF is_legal, TRANSITIONS
  <1>3. None # "queued" /\ None # "failed" /\ None # "cancelled"
    BY DEF JobState, Active, Waiting, Terminal
  <1> QED BY <1>1, <1>2, <1>3 DEF Recovered, recovery_target, InFlight, LeaseHolding
-----------------------------------------------------------------------------
(* The shapes of a worker step.                                            *)

\* A step that changes no row preserves the invariant when the worker's own
\* variables fit its new label.
LEMMA LocalStep ==
    ASSUME IInv, NEW w \in Workers, NEW label \in Running,
           pc[w] \in Running, Goto(w, label),
           (Believes(w) /\ Remembers(w) /\ Numbers(w))'
    PROVE  IInv'
  <1>1. TypeOK' /\ LeaseIffInFlight' /\ CancelWins'
    BY DEF IInv, Goto, TypeOK, LeaseIffInFlight, CancelWins, Label
  <1>2. HolderView' /\ LeaseAccounted'
    BY DEF IInv, Goto, TypeOK, HolderView, LeaseAccounted, Mine, Running, Label
  <1>3. \A v \in Workers : (Believes(v) /\ Remembers(v) /\ Numbers(v))'
    BY DEF IInv, Goto, TypeOK, Believes, Remembers, Numbers, Mine
  <1>4. \A v \in Workers : Excludes(v)'
    BY DEF IInv, Goto, TypeOK, Excludes, Mine, Running
  <1>5. (~up => \A v \in Workers : pc[v] = "idle")'
    BY DEF IInv, Goto, TypeOK, Running
  <1> QED BY <1>1, <1>2, <1>3, <1>4, <1>5 DEF IInv

\* A refused transaction: the worker lets go of a job it no longer owns, or
\* that a cancel request took from under it.
LEMMA RefusedStep ==
    ASSUME IInv, NEW w \in Workers, pc[w] \in Running, Refused(w),
           ~Mine(w) \/ jobs[wjob[w]].state = "cancelling"
    PROVE  IInv'
  <1>1. entry[w] \in Entry
    BY DEF IInv, TypeOK
  <1>2. Signalled(entry[w]) \in Entry /\ Signalled(entry[w]).held = entry[w].held
    BY <1>1, EntryFacts
  <1>3. TypeOK' /\ LeaseIffInFlight' /\ CancelWins'
    BY <1>2 DEF IInv, Refused, TypeOK, LeaseIffInFlight, CancelWins, Label
  <1>4. HolderView' /\ LeaseAccounted'
    BY DEF IInv, Refused, TypeOK, HolderView, LeaseAccounted, Mine, Running, Label
  <1>5. \A v \in Workers : (Believes(v) /\ Remembers(v) /\ Numbers(v))'
    BY <1>2 DEF IInv, Refused, TypeOK, Believes, Remembers, Numbers, Mine, Running
  <1>6. \A v \in Workers : Excludes(v)'
    BY DEF IInv, Refused, TypeOK, Excludes, Mine
  <1>7. (~up => \A v \in Workers : pc[v] = "idle")'
    BY DEF IInv, Refused, TypeOK, Running
  <1> QED BY <1>3, <1>4, <1>5, <1>6, <1>7 DEF IInv

\* A committed transition that keeps the lease.
LEMMA KeepingStep ==
    ASSUME IInv, NEW w \in Workers, NEW row \in Row, NEW target \in LeaseHolding,
           NEW label \in Running, pc[w] \in Running, Mine(w),
           jobs[wjob[w]].state # "cancelling",
           row.lease_owner = w,
           row.cancel_requested = jobs[wjob[w]].cancel_requested,
           row.idempotent = jobs[wjob[w]].idempotent,
           Committed(w, row, target, label),
           (Believes(w) /\ Remembers(w) /\ Numbers(w))'
    PROVE  IInv'
  <1> DEFINE j == wjob[w]
             new == Moved(row, target)
  <1>1. /\ new \in Row /\ new.state = target /\ new.lease_owner = w
        /\ new.cancel_requested = row.cancel_requested
        /\ new.idempotent = row.idempotent
    BY MovedRow DEF LeaseHolding, Waiting, Terminal, JobState, Active, InFlight
  <1>2. j \in Jobs /\ jobs[j].lease_owner = w
    BY DEF Mine
  <1>3. jobs[j].state \in InFlight /\ ~jobs[j].cancel_requested
    BY <1>2 DEF IInv, CancelWins, LeaseIffInFlight, InFlight, LeaseHolding
  <1>4. /\ jobs' = [jobs EXCEPT ![j] = new] /\ wjob' = wjob
        /\ pc' = [pc EXCEPT ![w] = label] /\ wst' = [wst EXCEPT ![w] = target]
        /\ UNCHANGED <<watt, out, entry, keeper, up>>
    BY DEF Committed
  <1> HIDE DEF new
  <1>5. TypeOK'
    BY <1>1, <1>4 DEF IInv, TypeOK, Label, JobState, Active, InFlight
  <1>6. LeaseIffInFlight' /\ CancelWins'
    BY <1>1, <1>2, <1>3, <1>4
       DEF IInv, TypeOK, LeaseIffInFlight, CancelWins, InFlight
  <1>7. HolderView' /\ LeaseAccounted'
    BY <1>1, <1>2, <1>4
       DEF IInv, TypeOK, HolderView, LeaseAccounted, Mine, Running
  <1>8. \A v \in Workers : (Believes(v) /\ Remembers(v) /\ Numbers(v))'
    BY <1>1, <1>2, <1>4 DEF IInv, TypeOK, Believes, Remembers, Numbers, Mine
  <1>9. \A v \in Workers : Excludes(v)'
    <2> SUFFICES ASSUME NEW v \in Workers, v # w PROVE Excludes(v)'
      BY <1>1, <1>2, <1>4 DEF IInv, TypeOK, Excludes, Mine, LeaseHolding, Absent
    <2>1. CASE wjob[v] = j
      BY <1>1, <1>2, <1>3, <1>4, <2>1
         DEF IInv, TypeOK, Excludes, Mine, Terminal, InFlight, LeaseHolding, Absent
    <2>2. CASE wjob[v] # j
      BY <1>4, <2>2 DEF IInv, TypeOK, Excludes, Mine
    <2> QED BY <2>1, <2>2
  <1>10. (~up => \A v \in Workers : pc[v] = "idle")'
    BY <1>4 DEF IInv, TypeOK, Running
  <1> QED BY <1>5, <1>6, <1>7, <1>8, <1>9, <1>10 DEF IInv

\* A committed transition that gives the lease up, after which the worker
\* only has its `finally` left.
LEMMA LeavingStep ==
    ASSUME IInv, NEW w \in Workers, NEW row \in Row, NEW target \in JobState,
           target \in Waiting \cup Terminal, pc[w] \in Running, Mine(w),
           target # "cancelled" => jobs[wjob[w]].state # "cancelling",
           row.state = target, row.lease_owner = None,
           row.cancel_requested => target = "cancelled",
           row.idempotent = jobs[wjob[w]].idempotent,
           jobs' = [jobs EXCEPT ![wjob[w]] = row],
           pc' = [pc EXCEPT ![w] = "ending"],
           wst' \in [Workers -> JobState \cup {None}],
           \A v \in Workers \ {w} : wst'[v] = wst[v],
           UNCHANGED <<wjob, watt, out, entry, keeper, up>>
    PROVE  IInv'
  <1> DEFINE j == wjob[w]
  <1>1. j \in Jobs /\ jobs[j].lease_owner = w
    BY DEF Mine
  <1>2. jobs[j].state \in InFlight
    BY <1>1 DEF IInv, LeaseIffInFlight
  <1>3. TypeOK'
    BY DEF IInv, TypeOK, Label
  <1>4. LeaseIffInFlight' /\ CancelWins'
    BY <1>1 DEF IInv, TypeOK, LeaseIffInFlight, CancelWins, InFlight,
                LeaseHolding, Waiting, Terminal
  <1>5. HolderView' /\ LeaseAccounted'
    BY <1>1 DEF IInv, TypeOK, HolderView, LeaseAccounted, Mine, Running
  <1>6. \A v \in Workers : (Believes(v) /\ Remembers(v) /\ Numbers(v))'
    BY <1>1 DEF IInv, TypeOK, Believes, Remembers, Numbers, Mine, Running
  <1>7. \A v \in Workers : Excludes(v)'
    <2> SUFFICES ASSUME NEW v \in Workers, v # w PROVE Excludes(v)'
      BY DEF IInv, TypeOK, Excludes
    <2>1. CASE wjob[v] = j
      BY <1>1, <1>2, <2>1 DEF IInv, TypeOK, Excludes, Mine, Terminal, Waiting,
                              InFlight, LeaseHolding, Absent
    <2>2. CASE wjob[v] # j
      BY <2>2 DEF IInv, TypeOK, Excludes, Mine
    <2> QED BY <2>1, <2>2
  <1>8. (~up => \A v \in Workers : pc[v] = "idle")'
    BY DEF IInv, TypeOK, Running
  <1> QED BY <1>3, <1>4, <1>5, <1>6, <1>7, <1>8 DEF IInv

\* A worker between start and its ending is processing some job.
LEMMA RunningJob ==
    ASSUME IInv, NEW w \in Workers, pc[w] \in Running
    PROVE  wjob[w] \in Jobs /\ jobs[wjob[w]] \in Row /\ up
  <1>1. wjob[w] # None
    BY DEF IInv, Remembers, Running
  <1>2. up
    BY DEF IInv, TypeOK, Running
  <1> QED BY <1>1, <1>2 DEF IInv, TypeOK

\* A fenced transition of the lease holder is refused for a cancel only, so
\* both of its outcomes preserve the invariant: keeping the lease ...
LEMMA FencedKeeps ==
    ASSUME IInv, NEW w \in Workers, NEW target \in LeaseHolding,
           NEW label \in Running, pc[w] \in Running,
           wst[w] \in LeaseHolding, is_legal(wst[w], target),
           Fenced(w, target, label),
           Mine(w) /\ Committed(w, jobs[wjob[w]], target, label) =>
               (Believes(w) /\ Remembers(w) /\ Numbers(w))'
    PROVE  IInv'
  <1> DEFINE row == jobs[wjob[w]]
  <1>1. wjob[w] \in Jobs /\ row \in Row
    BY RunningJob
  <1>2. CASE CanMoveAs(row, wst[w], target, w) /\ Committed(w, row, target, label)
    <2>1. Mine(w) /\ row.lease_owner = w /\ row.state # "cancelling"
      BY <1>1, <1>2 DEF CanMoveAs, CanMove, Mine, LeaseHolding
    <2> QED BY <1>1, <1>2, <2>1, KeepingStep
  <1>3. CASE ~CanMoveAs(row, wst[w], target, w) /\ Refused(w)
    <2>1. ~Mine(w) \/ row.state = "cancelling"
      BY <1>1, <1>3 DEF CanMoveAs, CanMove, Mine, IInv, HolderView
    <2> QED BY <1>3, <2>1, RefusedStep
  <1> QED BY <1>2, <1>3 DEF Fenced

\* ... and giving it up.
LEMMA FencedLeaves ==
    ASSUME IInv, NEW w \in Workers, NEW target \in JobState,
           target \in Waiting \cup Terminal, target # "cancelled",
           pc[w] \in Running, wst[w] \in LeaseHolding, is_legal(wst[w], target),
           Fenced(w, target, "ending")
    PROVE  IInv'
  <1> DEFINE row == jobs[wjob[w]]
  <1>1. wjob[w] \in Jobs /\ row \in Row
    BY RunningJob
  <1>2. CASE CanMoveAs(row, wst[w], target, w) /\ Committed(w, row, target, "ending")
    <2>1. Mine(w) /\ row.lease_owner = w /\ row.state \in LeaseHolding
      BY <1>1, <1>2 DEF CanMoveAs, CanMove, Mine
    <2>2. row.state # "cancelling" /\ ~row.cancel_requested
      BY <1>1, <2>1 DEF IInv, CancelWins, LeaseHolding
    <2>3. /\ Moved(row, target) \in Row /\ Moved(row, target).state = target
          /\ Moved(row, target).lease_owner = None
          /\ ~Moved(row, target).cancel_requested
          /\ Moved(row, target).idempotent = row.idempotent
      BY <1>1, <2>2, MovedRow DEF Row
    <2>4. /\ wst' \in [Workers -> JobState \cup {None}]
          /\ \A v \in Workers \ {w} : wst'[v] = wst[v]
      BY <1>2 DEF IInv, TypeOK, Committed
    <2> QED BY <1>2, <2>1, <2>2, <2>3, <2>4, LeavingStep DEF Committed
  <1>3. CASE ~CanMoveAs(row, wst[w], target, w) /\ Refused(w)
    <2>1. ~Mine(w) \/ row.state = "cancelling"
      BY <1>1, <1>3 DEF CanMoveAs, CanMove, Mine, IInv, HolderView
    <2> QED BY <1>3, <2>1, RefusedStep
  <1> QED BY <1>2, <1>3 DEF Fenced

\* write_attempt with a transition out of executing: the counter and the
\* worker's number meet.
LEMMA RecordStep ==
    ASSUME IInv, NEW w \in Workers, NEW target \in {"retrying", "validating"},
           NEW label \in {"passed", "deciding"}, pc[w] = "answered",
           label = "passed" => target = "validating" /\ out[w] = "passed",
           out[w] # "cancelled", RecordAttempt(w, target, label)
    PROVE  IInv'
  <1> DEFINE row == jobs[wjob[w]]
             new == Moved(Written(row), target)
             may == CanWrite(w) /\ CanMoveAs(row, "executing", target, w)
  <1>1. wjob[w] \in Jobs /\ row \in Row /\ pc[w] \in Running
    BY RunningJob DEF Running
  <1>2. CASE may /\ Committed(w, Written(row), target, label)
    <2>1. Mine(w) /\ row.lease_owner = w /\ row.state = "executing"
      BY <1>1, <1>2 DEF CanMoveAs, CanMove, Mine
    <2>2. row.attempt + 1 = watt[w] /\ row.attempt + 1 \in 0 .. MaxAttempts
      BY <1>2 DEF CanWrite, IInv, TypeOK
    <2>3. /\ Written(row) \in Row /\ Written(row).lease_owner = w
          /\ Written(row).attempt = watt[w]
          /\ Written(row).cancel_requested = row.cancel_requested
          /\ Written(row).idempotent = row.idempotent
      BY <1>1, <2>1, <2>2, WrittenRow
    <2>4. target \in LeaseHolding /\ target \in JobState /\ label \in Running
      BY DEF LeaseHolding, Running, JobState, Active, InFlight
    <2>5. new.attempt = watt[w]
      BY <2>3, <2>4, MovedRow
    <2>6. (Believes(w) /\ Remembers(w))'
      BY <1>1, <1>2 DEF Committed, IInv, TypeOK, Believes, Remembers, Running
    <2>7. Numbers(w)'
      <3>1. jobs'[wjob[w]'].attempt = watt[w]
        BY <1>1, <1>2, <2>5 DEF Committed, IInv, TypeOK
      <3>2. watt[w] > 0
        BY <1>1, <2>2 DEF Row
      <3>3. pc'[w] = label /\ watt'[w] = watt[w]
        BY <1>2 DEF Committed, IInv, TypeOK
      <3> QED BY <3>1, <3>2, <3>3 DEF Numbers
    <2> QED BY <1>1, <1>2, <2>1, <2>3, <2>4, <2>6, <2>7, KeepingStep
  <1>3. CASE ~may /\ Refused(w)
    <2>1. is_legal("executing", target)
      BY LegalFacts
    <2>2. ~Mine(w) \/ row.state = "cancelling"
      BY <1>1, <1>3, <2>1
         DEF CanMoveAs, CanMove, CanWrite, Mine, IInv, HolderView, Believes, Numbers
    <2> QED BY <1>1, <1>3, <2>2, RefusedStep
  <1> QED BY <1>2, <1>3 DEF RecordAttempt

-----------------------------------------------------------------------------
(* One lemma for each group of actions: every one preserves IInv.          *)

\* The worker's steps between transactions.
LEMMA LocalActions ==
    ASSUME IInv, NEW w \in Workers,
           \/ CheckFlag(w, "start", "routing")
           \/ CheckFlag(w, "admitted", "candidate")
           \/ EnterCandidate(w) \/ CheckBeforeCall(w) \/ StopCancelled(w)
           \/ RetrySame(w) \/ FallBack(w) \/ CheckAfterBackoff(w) \/ WorkerError(w)
    PROVE  IInv'
  <1> DEFINE Fits == (Believes(w) /\ Remembers(w) /\ Numbers(w))'
  <1>1. CASE CheckFlag(w, "start", "routing") \/ CheckFlag(w, "admitted", "candidate")
    <2>1. PICK label \in {"routing", "candidate", "cancel"} :
            /\ Goto(w, label)
            /\ pc[w] \in {"start", "admitted"}
            /\ label = "routing" => pc[w] = "start"
            /\ label = "candidate" => pc[w] = "admitted"
      BY <1>1 DEF CheckFlag, At
    <2>2. Fits
      BY <2>1 DEF Goto, IInv, TypeOK, Believes, Remembers, Numbers, Mine, Running
    <2> QED BY <2>1, <2>2, LocalStep DEF Running
  <1>2. CASE EnterCandidate(w)
    <2>1. PICK label \in {"attempt", "retry", "backoff"} :
            /\ Goto(w, label) /\ pc[w] = "candidate"
            /\ label = "attempt" => wst[w] = "admitted"
            /\ label = "backoff" => wst[w] = "retrying"
            /\ label = "retry" => wst[w] \notin {"admitted", "retrying"}
      BY <1>2 DEF EnterCandidate, Reentry, At
    <2>2. Fits
      BY <2>1 DEF Goto, IInv, TypeOK, Believes, Remembers, Numbers, Mine, Running
    <2> QED BY <2>1, <2>2, LocalStep DEF Running
  <1>3. CASE CheckBeforeCall(w)
    <2>1. PICK label \in {"cancel", "starting"} : Goto(w, label) /\ pc[w] = "loading"
      BY <1>3 DEF CheckBeforeCall, At
    <2>2. Fits
      BY <2>1 DEF Goto, IInv, TypeOK, Believes, Remembers, Numbers, Mine, Running
    <2> QED BY <2>1, <2>2, LocalStep DEF Running
  <1>4. CASE StopCancelled(w)
    <2>1. Goto(w, "cancel") /\ pc[w] = "answered"
      BY <1>4 DEF StopCancelled, At
    <2>2. Fits
      BY <2>1 DEF Goto, IInv, TypeOK, Believes, Remembers, Numbers, Mine, Running
    <2> QED BY <2>1, <2>2, LocalStep DEF Running
  <1>5. CASE RetrySame(w) \/ FallBack(w)
    <2>1. PICK label \in {"failing", "candidate", "retry", "backoff"} :
            /\ Goto(w, label) /\ pc[w] = "deciding"
            /\ label = "backoff" => wst[w] = "retrying"
            /\ label = "retry" => wst[w] # "retrying"
      BY <1>5 DEF RetrySame, FallBack, Reentry, At
    <2>2. Fits
      BY <2>1 DEF Goto, IInv, TypeOK, Believes, Remembers, Numbers, Mine, Running
    <2> QED BY <2>1, <2>2, LocalStep DEF Running
  <1>6. CASE CheckAfterBackoff(w)
    <2>1. PICK label \in {"cancel", "readmit"} : Goto(w, label) /\ pc[w] = "backoff"
      BY <1>6 DEF CheckAfterBackoff, At
    <2>2. Fits
      BY <2>1 DEF Goto, IInv, TypeOK, Believes, Remembers, Numbers, Mine, Running
    <2> QED BY <2>1, <2>2, LocalStep DEF Running
  <1>7. CASE WorkerError(w)
    <2>1. Goto(w, "crashing") /\ pc[w] \in Running
      BY <1>7 DEF WorkerError
    <2>2. Fits
      BY <2>1 DEF Goto, IInv, TypeOK, Believes, Remembers, Numbers, Mine, Running
    <2> QED BY <2>1, <2>2, LocalStep DEF Running
  <1> QED BY <1>1, <1>2, <1>3, <1>4, <1>5, <1>6, <1>7

\* The fenced transitions of the worker that keep its lease.
LEMMA KeepingActions ==
    ASSUME IInv, NEW w \in Workers,
           Admit(w) \/ StartExecuting(w) \/ BeginRetry(w) \/ Readmit(w)
    PROVE  IInv'
  <1> DEFINE row == jobs[wjob[w]]
             Fits == (Believes(w) /\ Remembers(w) /\ Numbers(w))'
  <1>1. ASSUME NEW target \in {"admitted", "executing", "retrying"},
               NEW label \in {"admitted", "calling", "backoff", "attempt"},
               pc[w] \in {"routing", "starting", "retry", "readmit"},
               Fenced(w, target, label), is_legal(wst[w], target),
               label \in {"admitted", "attempt"} => target = "admitted",
               label = "calling" => target = "executing" /\ pc[w] = "starting",
               label # "calling" => pc[w] # "starting",
               label = "backoff" => target = "retrying"
        PROVE  IInv'
    <2>1. /\ target \in LeaseHolding /\ label \in Running /\ pc[w] \in Running
          /\ wst[w] \in LeaseHolding /\ target \in JobState
      BY <1>1 DEF LeaseHolding, Running, JobState, Active, InFlight, IInv, Believes
    <2>2. row \in Row /\ wjob[w] \in Jobs
      BY <2>1, RunningJob
    <2>3. ASSUME Mine(w), Committed(w, row, target, label) PROVE Fits
      <3>1. Moved(row, target).attempt = row.attempt
        BY <2>1, <2>2, MovedRow
      <3>2. jobs'[wjob[w]'].attempt = row.attempt
        BY <2>2, <2>3, <3>1 DEF Committed, IInv, TypeOK
      <3>3. (Believes(w) /\ Remembers(w))'
        BY <1>1, <2>3 DEF Committed, IInv, TypeOK, Believes, Remembers, Running
      <3>4. Numbers(w)'
        BY <1>1, <2>3, <3>2 DEF Committed, IInv, TypeOK, Numbers, Remembers
      <3> QED BY <3>3, <3>4
    <2> QED BY <1>1, <2>1, <2>3, FencedKeeps
  <1>2. CASE Admit(w)
    <2>1. wst[w] = "leased" /\ pc[w] = "routing"
      BY <1>2 DEF Admit, At, IInv, Believes
    <2> QED BY <1>1, <1>2, <2>1, LegalFacts DEF Admit
  <1>3. CASE StartExecuting(w)
    <2>1. wst[w] = "admitted" /\ pc[w] = "starting"
      BY <1>3 DEF StartExecuting, At, IInv, Believes
    <2> QED BY <1>1, <1>3, <2>1, LegalFacts DEF StartExecuting
  <1>4. CASE BeginRetry(w)
    <2>1. wst[w] = "validating" /\ pc[w] = "retry"
      BY <1>4 DEF BeginRetry, At, IInv, Believes
    <2> QED BY <1>1, <1>4, <2>1, LegalFacts DEF BeginRetry
  <1>5. CASE Readmit(w)
    <2>1. wst[w] = "retrying" /\ pc[w] = "readmit"
      BY <1>5 DEF Readmit, At, IInv, Believes
    <2> QED BY <1>1, <1>5, <2>1, LegalFacts DEF Readmit
  <1> QED BY <1>2, <1>3, <1>4, <1>5

\* The fenced transitions of the worker that give its lease up.
LEMMA LeavingActions ==
    ASSUME IInv, NEW w \in Workers,
           \/ Defer(w) \/ FailAdmission(w) \/ RequeueForProbe(w)
           \/ Complete(w) \/ Fail(w)
    PROVE  IInv'
  <1>1. PICK target \in {"waiting_resources", "failed", "queued", "completed"} :
          /\ Fenced(w, target, "ending")
          /\ pc[w] \in {"routing", "candidate", "passed", "failing"}
          /\ target = "waiting_resources" => pc[w] = "routing"
          /\ target = "queued" => pc[w] = "candidate"
          /\ target = "completed" => pc[w] = "passed"
          /\ target = "failed" => pc[w] \in {"routing", "failing"}
    BY DEF Defer, FailAdmission, RequeueForProbe, Complete, Fail, At
  <1>2. /\ target \in Waiting \cup Terminal /\ target \in JobState
        /\ target # "cancelled" /\ pc[w] \in Running
    BY <1>1 DEF Waiting, Terminal, JobState, Active, Running
  <1>3. wst[w] \in LeaseHolding /\ is_legal(wst[w], target)
    BY <1>1, LegalFacts DEF IInv, Believes, LeaseHolding
  <1> QED BY <1>1, <1>2, <1>3, FencedLeaves

\* The steps around the provider call and the records of its outcome.
LEMMA AttemptActions ==
    ASSUME IInv, NEW w \in Workers,
           \/ TakeNumber(w) \/ ProviderReturns(w)
           \/ RecordFailedAttempt(w) \/ ValidateAttempt(w)
    PROVE  IInv'
  <1>1. CASE TakeNumber(w)
    <2>1. PICK label \in {"failing", "loading"} :
            /\ pc[w] = "attempt" /\ pc' = [pc EXCEPT ![w] = label]
            /\ label = "failing" => watt' = watt
            /\ label = "loading" => /\ watt[w] < MaxAttempts
                                    /\ watt' = [watt EXCEPT ![w] = watt[w] + 1]
            /\ UNCHANGED <<jobs, wjob, wst, out, entry, keeper, up>>
      <3>1. CASE watt[w] >= MaxAttempts
        <4>1. watt' = watt
          BY <1>1, <3>1 DEF TakeNumber, IInv, TypeOK
        <4> QED BY <1>1, <3>1, <4>1 DEF TakeNumber, At
      <3>2. CASE ~(watt[w] >= MaxAttempts)
        <4>1. watt[w] \in 0 .. MaxAttempts
          BY DEF IInv, TypeOK
        <4>2. watt[w] < MaxAttempts
          BY <3>2, <4>1
        <4>3. /\ pc' = [pc EXCEPT ![w] = "loading"]
              /\ watt' = [watt EXCEPT ![w] = watt[w] + 1]
          BY <1>1, <3>2 DEF TakeNumber
        <4> QED BY <1>1, <4>2, <4>3 DEF TakeNumber, At
      <3> QED BY <3>1, <3>2
    <2>2. watt' \in [Workers -> 0 .. MaxAttempts]
      BY <2>1 DEF IInv, TypeOK
    <2>3. TypeOK' /\ LeaseIffInFlight' /\ CancelWins'
      BY <2>1, <2>2 DEF IInv, TypeOK, LeaseIffInFlight, CancelWins, Label, Running
    <2>4. HolderView' /\ LeaseAccounted'
      BY <2>1 DEF IInv, TypeOK, HolderView, LeaseAccounted, Mine
    <2>5. \A v \in Workers : (Believes(v) /\ Remembers(v) /\ Numbers(v))'
      BY <2>1 DEF IInv, TypeOK, Believes, Remembers, Numbers, Mine, Running
    <2>6. \A v \in Workers : Excludes(v)'
      BY <2>1 DEF IInv, TypeOK, Excludes, Mine
    <2>7. (~up => \A v \in Workers : pc[v] = "idle")'
      BY <2>1 DEF IInv, TypeOK
    <2> QED BY <2>3, <2>4, <2>5, <2>6, <2>7 DEF IInv
  <1>2. CASE ProviderReturns(w)
    <2>1. PICK o \in Outcome :
            /\ pc[w] = "calling" /\ pc' = [pc EXCEPT ![w] = "answered"]
            /\ out' = [out EXCEPT ![w] = o]
            /\ UNCHANGED <<jobs, wjob, wst, watt, entry, keeper, up>>
      BY <1>2 DEF ProviderReturns, At
    <2>2. TypeOK' /\ LeaseIffInFlight' /\ CancelWins'
      BY <2>1 DEF IInv, TypeOK, LeaseIffInFlight, CancelWins, Label, Running
    <2>3. HolderView' /\ LeaseAccounted'
      BY <2>1 DEF IInv, TypeOK, HolderView, LeaseAccounted, Mine
    <2>4. \A v \in Workers : (Believes(v) /\ Remembers(v) /\ Numbers(v))'
      BY <2>1 DEF IInv, TypeOK, Believes, Remembers, Numbers, Mine, Running
    <2>5. \A v \in Workers : Excludes(v)'
      BY <2>1 DEF IInv, TypeOK, Excludes, Mine
    <2>6. (~up => \A v \in Workers : pc[v] = "idle")'
      BY <2>1 DEF IInv, TypeOK
    <2> QED BY <2>2, <2>3, <2>4, <2>5, <2>6 DEF IInv
  <1>3. CASE RecordFailedAttempt(w)
    BY <1>3, RecordStep DEF RecordFailedAttempt, At
  <1>4. CASE ValidateAttempt(w)
    BY <1>4, RecordStep DEF ValidateAttempt, At
  <1> QED BY <1>1, <1>2, <1>3, <1>4

\* _cancel_from, from any state of the row under our lease.
LEMMA CancelFromAction ==
    ASSUME IInv, NEW w \in Workers, CancelFrom(w)
    PROVE  IInv'
  <1> DEFINE row == jobs[wjob[w]]
             partial == out[w] = "cancelled"
             kept == IF partial THEN Written(row) ELSE row
             new == Flagged(Moved(kept, "cancelled"))
             may == /\ row.lease_owner = w
                    /\ partial => CanWrite(w)
                    /\ row.state # "cancelling" => is_legal(row.state, "cancelling")
  <1>1. wjob[w] \in Jobs /\ row \in Row /\ pc[w] = "cancel" /\ pc[w] \in Running
    BY RunningJob DEF CancelFrom, At, Running
  <1>2. CASE /\ may /\ jobs' = [jobs EXCEPT ![wjob[w]] = new]
             /\ pc' = [pc EXCEPT ![w] = "ending"]
             /\ UNCHANGED <<wjob, wst, watt, out, entry, keeper, up>>
    <2>1. kept \in Row /\ kept.idempotent = row.idempotent
      <3>1. CASE partial
        <4>1. row.attempt + 1 \in 0 .. MaxAttempts
          BY <1>2, <3>1 DEF CanWrite, IInv, TypeOK
        <4> QED BY <1>1, <3>1, <4>1, WrittenRow
      <3>2. CASE ~partial
        BY <1>1, <3>2
      <3> QED BY <3>1, <3>2
    <2>2. "cancelled" \in JobState /\ "cancelled" \in Waiting \cup Terminal
      BY DEF JobState, Terminal
    <2> HIDE DEF kept
    <2>3. /\ Moved(kept, "cancelled") \in Row
          /\ Moved(kept, "cancelled").state = "cancelled"
          /\ Moved(kept, "cancelled").lease_owner = None
          /\ Moved(kept, "cancelled").idempotent = row.idempotent
      BY <2>1, <2>2, MovedRow
    <2>4. /\ new \in Row /\ new.state = "cancelled" /\ new.lease_owner = None
          /\ new.idempotent = row.idempotent
      BY <2>3, FlaggedRow
    <2>5. Mine(w)
      BY <1>1, <1>2 DEF Mine
    <2>6. /\ wst' \in [Workers -> JobState \cup {None}]
          /\ \A v \in Workers \ {w} : wst'[v] = wst[v]
      BY <1>2 DEF IInv, TypeOK
    <2> HIDE DEF new
    <2> QED BY <1>1, <1>2, <2>2, <2>4, <2>5, <2>6, LeavingStep
  <1>3. CASE ~may /\ Refused(w)
    <2>1. ~Mine(w)
      <3> SUFFICES ASSUME Mine(w) PROVE FALSE
        OBVIOUS
      <3>1. row.lease_owner = w /\ row.state \in InFlight
        BY DEF Mine, IInv, LeaseIffInFlight
      <3>2. row.state # "cancelling" => is_legal(row.state, "cancelling")
        BY <3>1, LegalFacts DEF InFlight
      <3>3. partial => CanWrite(w)
        BY <1>1, <3>1 DEF IInv, Numbers, CanWrite
      <3> QED BY <1>3, <3>1, <3>2, <3>3
    <2> QED BY <1>1, <1>3, <2>1, RefusedStep
  <1> QED BY <1>2, <1>3 DEF CancelFrom

\* _fail_after_crash, and the two ways a worker forgets its job.
LEMMA EndingActions ==
    ASSUME IInv, NEW w \in Workers, FailAfterCrash(w) \/ Finish(w) \/ ThreadDies(w)
    PROVE  IInv'
  <1>1. CASE FailAfterCrash(w)
    <2> DEFINE row == jobs[wjob[w]]
    <2>1. wjob[w] \in Jobs /\ row \in Row /\ pc[w] = "crashing" /\ pc[w] \in Running
      BY <1>1, RunningJob DEF FailAfterCrash, At, Running
    <2>2. CASE CanMoveAs(row, row.state, "failed", w)
      <3>1. /\ jobs' = [jobs EXCEPT ![wjob[w]] = Moved(row, "failed")]
            /\ pc' = [pc EXCEPT ![w] = "ending"]
            /\ UNCHANGED <<wjob, wst, watt, out, entry, keeper, up>>
        BY <1>1, <2>2 DEF FailAfterCrash
      <3>2. Mine(w) /\ row.state # "cancelling"
        BY <2>1, <2>2, LegalFacts DEF CanMoveAs, CanMove, Mine
      <3>3. ~row.cancel_requested
        BY <2>1, <3>2
           DEF Mine, IInv, CancelWins, LeaseIffInFlight, InFlight, LeaseHolding
      <3>4. "failed" \in JobState /\ "failed" \in Waiting \cup Terminal
        BY DEF JobState, Terminal
      <3>5. /\ Moved(row, "failed") \in Row /\ Moved(row, "failed").state = "failed"
            /\ Moved(row, "failed").lease_owner = None
            /\ ~Moved(row, "failed").cancel_requested
            /\ Moved(row, "failed").idempotent = row.idempotent
        BY <2>1, <3>3, <3>4, MovedRow DEF Row
      <3>6. /\ wst' \in [Workers -> JobState \cup {None}]
            /\ \A v \in Workers \ {w} : wst'[v] = wst[v]
        BY <3>1 DEF IInv, TypeOK
      <3> QED BY <2>1, <3>1, <3>2, <3>4, <3>5, <3>6, LeavingStep
    <2>3. CASE ~CanMoveAs(row, row.state, "failed", w)
      <3>1. /\ pc' = [pc EXCEPT ![w] = "ending"]
            /\ UNCHANGED <<jobs, wjob, wst, watt, out, entry, keeper, up>>
        BY <1>1, <2>3 DEF FailAfterCrash
      <3>2. ~Mine(w) \/ row.state = "cancelling"
        <4>1. \A s \in LeaseHolding : is_legal(s, "failed")
          BY DEF is_legal, TRANSITIONS, LeaseHolding
        <4> QED BY <2>1, <2>3, <4>1
                   DEF Mine, CanMoveAs, CanMove, IInv, LeaseIffInFlight, InFlight
      <3>3. TypeOK' /\ LeaseIffInFlight' /\ CancelWins'
        BY <3>1 DEF IInv, TypeOK, LeaseIffInFlight, CancelWins, Label
      <3>4. HolderView' /\ LeaseAccounted'
        BY <2>1, <3>1, <3>2 DEF IInv, TypeOK, HolderView, LeaseAccounted, Mine
      <3>5. \A v \in Workers : (Believes(v) /\ Remembers(v) /\ Numbers(v))'
        BY <2>1, <3>1 DEF IInv, TypeOK, Believes, Remembers, Numbers, Mine, Running
      <3>6. \A v \in Workers : Excludes(v)'
        BY <3>1 DEF IInv, TypeOK, Excludes, Mine
      <3>7. (~up => \A v \in Workers : pc[v] = "idle")'
        BY <2>1, <3>1 DEF IInv, TypeOK
      <3> QED BY <3>3, <3>4, <3>5, <3>6, <3>7 DEF IInv
    <2> QED BY <2>2, <2>3
  <1>2. CASE Finish(w) \/ ThreadDies(w)
    <2>1. PICK label \in {"idle", "dead"} :
            /\ Forget(w, label)
            /\ label = "idle" => pc[w] = "ending"
            /\ label = "dead" => pc[w] = "crashing"
            /\ up
      BY <1>2 DEF Finish, ThreadDies, At
    <2>2. TypeOK' /\ LeaseIffInFlight' /\ CancelWins'
      BY <2>1, EntryFacts
         DEF Forget, IInv, TypeOK, LeaseIffInFlight, CancelWins, Label
    <2>3. HolderView' /\ LeaseAccounted'
      BY <2>1 DEF Forget, IInv, TypeOK, HolderView, LeaseAccounted, Mine
    <2>4. \A v \in Workers : (Believes(v) /\ Remembers(v) /\ Numbers(v))'
      <3>1. None # "cancelled"
        BY DEF JobState, Terminal
      <3> QED BY <2>1, <3>1, EntryFacts
                 DEF Forget, IInv, TypeOK, Believes, Remembers, Numbers, Mine, Running
    <2>5. \A v \in Workers : Excludes(v)'
      BY <2>1 DEF Forget, IInv, TypeOK, Excludes, Mine
    <2>6. (~up => \A v \in Workers : pc[v] = "idle")'
      BY <2>1 DEF Forget
    <2> QED BY <2>2, <2>3, <2>4, <2>5, <2>6 DEF IInv
  <1> QED BY <1>1, <1>2

-----------------------------------------------------------------------------
(* Steps of everyone but a worker.                                         *)

\* What callers, the scheduler and recovery may do to a row: no new owner, a
\* lease kept only with the counter and the state or by a cancel, and no
\* non-idempotent job released except to a verdict.
Permitted(old, new) ==
    \/ new = old
    \/ /\ new \in Row
       /\ new.state \in InFlight <=> new.lease_owner # None
       /\ new.cancel_requested => new.state \in {"cancelling", "cancelled"}
       /\ new.lease_owner # None =>
             /\ new.lease_owner = old.lease_owner /\ new.attempt = old.attempt
             /\ new.state = "cancelling"
       /\ old.state \notin Terminal /\ new.state # Absent
       /\ old.state # Absent => new.idempotent = old.idempotent
       /\ old.lease_owner # None /\ new.lease_owner = None =>
             old.idempotent \/ new.state \in Terminal

\* A step of that kind preserves the invariant.
LEMMA OutsideStep ==
    ASSUME IInv, UNCHANGED <<worker, up>>,
           jobs' \in [Jobs -> Row], \A j \in Jobs : Permitted(jobs[j], jobs'[j]),
           entry' \in [Workers -> Entry],
           \A w \in Workers : entry'[w].held = entry[w].held,
           keeper' \in [at : {"idle", "renew", "mark"}, who : Workers \cup {None},
                        job : Jobs \cup {None}]
    PROVE  IInv'
  <1>1. UNCHANGED <<pc, wjob, wst, watt, out>>
    BY DEF worker
  <1>2. TypeOK'
    BY <1>1 DEF IInv, TypeOK
  <1>3. LeaseIffInFlight' /\ CancelWins'
    BY DEF IInv, LeaseIffInFlight, CancelWins, Permitted
  <1>4. HolderView'
    BY <1>1 DEF IInv, TypeOK, HolderView, Mine, Permitted
  <1>5. LeaseAccounted'
    BY <1>1 DEF IInv, TypeOK, LeaseAccounted, Permitted
  <1>6. \A w \in Workers : (Believes(w) /\ Remembers(w))'
    BY <1>1 DEF IInv, Believes, Remembers
  <1>7. \A w \in Workers : Numbers(w)'
    BY <1>1 DEF IInv, TypeOK, Numbers, Mine, Permitted
  <1>8. \A w \in Workers : Excludes(w)'
    <2> SUFFICES ASSUME NEW w \in Workers, wjob[w] \in Jobs, pc[w] # "ending"
                 PROVE  Excludes(w)'
      BY <1>1 DEF Excludes
    <2>1. jobs[wjob[w]].state # Absent /\ Permitted(jobs[wjob[w]], jobs'[wjob[w]])
      BY DEF IInv, Excludes
    <2>2. \/ Mine(w) \/ jobs[wjob[w]].idempotent
          \/ jobs[wjob[w]].state \in Terminal
      BY DEF IInv, Excludes
    <2>3. jobs'[wjob[w]].state # Absent
      BY <2>1 DEF Permitted
    <2>4. \/ jobs'[wjob[w]].lease_owner = w \/ jobs'[wjob[w]].idempotent
          \/ jobs'[wjob[w]].state \in Terminal
      BY <2>1, <2>2 DEF Permitted, Mine
    <2> QED BY <1>1, <2>3, <2>4 DEF Excludes, Mine
  <1>9. (~up => \A w \in Workers : pc[w] = "idle")'
    BY <1>1 DEF IInv
  <1> QED BY <1>2, <1>3, <1>4, <1>5, <1>6, <1>7, <1>8, <1>9 DEF IInv

\* The scheduler's and recovery's treatment of one in-flight row.
LEMMA RecoveredPermitted ==
    ASSUME IInv, NEW j \in Jobs
    PROVE  /\ Recovered(jobs[j]) \in Row
           /\ Permitted(jobs[j], Recovered(jobs[j]))
           /\ Recovered(jobs[j]).lease_owner = None
           /\ Recovered(jobs[j]).state \notin InFlight
  <1> DEFINE row == jobs[j]
  <1>1. /\ row \in Row
        /\ row.state \in InFlight <=> row.lease_owner # None
        /\ row.cancel_requested => row.state \in {"cancelling", "cancelled"}
    BY DEF IInv, TypeOK, LeaseIffInFlight, CancelWins
  <1>2. "queued" \in JobState /\ "failed" \in JobState /\ "cancelled" \in JobState
    BY DEF JobState, Active, Waiting, Terminal
  <1>3. CASE row.state \in LeaseHolding
    <2>1. ~row.cancel_requested
      BY <1>1, <1>3 DEF LeaseHolding
    <2>2. PICK target \in {"queued", "failed"} :
            /\ Recovered(row) = Moved(row, target)
            /\ target = "queued" => row.idempotent
      BY <1>1, <1>3, RecoveredRow DEF Row
    <2>3. /\ Recovered(row) \in Row /\ Recovered(row).state = target
          /\ Recovered(row).lease_owner = None
          /\ ~Recovered(row).cancel_requested
          /\ Recovered(row).idempotent = row.idempotent
      BY <1>1, <1>2, <2>1, <2>2, MovedRow DEF Waiting, Terminal, Row
    <2> QED BY <1>3, <2>2, <2>3
               DEF Permitted, InFlight, LeaseHolding, Terminal, Absent
  <1>4. CASE row.state = "cancelling"
    <2>1. Recovered(row) = Moved(row, "cancelled")
      BY <1>1, <1>4, RecoveredRow
    <2>2. /\ Recovered(row) \in Row /\ Recovered(row).state = "cancelled"
          /\ Recovered(row).lease_owner = None
          /\ Recovered(row).idempotent = row.idempotent
      BY <1>1, <1>2, <2>1, MovedRow DEF Terminal
    <2> QED BY <1>4, <2>2 DEF Permitted, InFlight, LeaseHolding, Terminal, Absent
  <1>5. CASE row.state \notin InFlight
    BY <1>1, <1>5, RecoveredRow DEF Permitted
  <1> QED BY <1>3, <1>4, <1>5 DEF InFlight

\* enqueue and cancel_job.
LEMMA CallerActions ==
    ASSUME IInv, NEW j \in Jobs,
           \/ \E i \in BOOLEAN : Enqueue(j, i)
           \/ CancelJob(j) \/ DeliverCancel(j)
    PROVE  IInv'
  <1> DEFINE row == jobs[j]
  <1>1. /\ row \in Row
        /\ row.state \in InFlight <=> row.lease_owner # None
        /\ row.cancel_requested => row.state \in {"cancelling", "cancelled"}
        /\ jobs \in [Jobs -> Row] /\ entry \in [Workers -> Entry]
        /\ keeper \in [at : {"idle", "renew", "mark"}, who : Workers \cup {None},
                       job : Jobs \cup {None}]
    BY DEF IInv, TypeOK, LeaseIffInFlight, CancelWins
  <1>2. CASE \E i \in BOOLEAN : Enqueue(j, i)
    <2>1. PICK i \in BOOLEAN : Enqueue(j, i)
      BY <1>2
    <2>2. /\ Queued(i) \in Row /\ Queued(i).state = "queued"
          /\ Queued(i).lease_owner = None /\ ~Queued(i).cancel_requested
      BY DEF Queued, Row, JobState, Active, Waiting
    <2>3. Permitted(row, Queued(i))
      BY <1>1, <2>1, <2>2
         DEF Enqueue, Permitted, InFlight, LeaseHolding, Terminal, Absent
    <2>4. jobs' = [jobs EXCEPT ![j] = Queued(i)] /\ UNCHANGED <<worker, entry, keeper, up>>
      BY <2>1 DEF Enqueue
    <2>5. /\ jobs' \in [Jobs -> Row]
          /\ \A k \in Jobs : Permitted(jobs[k], jobs'[k])
      BY <1>1, <2>2, <2>3, <2>4 DEF Permitted
    <2> QED BY <1>1, <2>4, <2>5, OutsideStep
  <1>3. CASE CancelJob(j)
    <2>1. PICK target \in {"cancelled", "cancelling"} :
            /\ jobs' = [jobs EXCEPT ![j] = Flagged(Moved(row, target))]
            /\ target = "cancelled" => row.state \in Waiting
            /\ target = "cancelling" => row.state \in LeaseHolding
            /\ UNCHANGED <<worker, entry, keeper, up>>
      <3>1. row.state \in Waiting => cancel_target(row.state) = "cancelled"
        BY DEF cancel_target, Waiting, LeaseHolding
      <3>2. row.state \in LeaseHolding => cancel_target(row.state) = "cancelling"
        BY DEF cancel_target, Waiting, LeaseHolding
      <3>3. row.state \in Waiting \cup LeaseHolding
        BY <1>3 DEF CancelJob, Active, InFlight, cancel_target, Waiting, LeaseHolding
      <3> QED BY <1>3, <3>1, <3>2, <3>3 DEF CancelJob
    <2>2. target \in JobState
      BY DEF JobState, Active, InFlight, Terminal
    <2> DEFINE new == Flagged(Moved(row, target))
    <2>3. /\ new \in Row /\ new.state = target /\ new.attempt = row.attempt
          /\ new.lease_owner = IF target \in Waiting \cup Terminal
                               THEN None ELSE row.lease_owner
          /\ new.idempotent = row.idempotent
      <3> DEFINE mid == Moved(row, target)
      <3>1. /\ mid \in Row /\ mid.state = target /\ mid.attempt = row.attempt
            /\ mid.lease_owner = IF target \in Waiting \cup Terminal
                                 THEN None ELSE row.lease_owner
            /\ mid.idempotent = row.idempotent
        BY <1>1, <2>2, MovedRow
      <3> HIDE DEF mid
      <3>2. /\ Flagged(mid) \in Row /\ Flagged(mid).state = mid.state
            /\ Flagged(mid).attempt = mid.attempt
            /\ Flagged(mid).lease_owner = mid.lease_owner
            /\ Flagged(mid).idempotent = mid.idempotent
        BY <3>1, FlaggedRow
      <3> QED BY <3>1, <3>2 DEF mid
    <2> HIDE DEF new
    <2>4. Permitted(row, new)
      <3>1. CASE target = "cancelled"
        BY <1>1, <2>1, <2>3, <3>1
           DEF Permitted, InFlight, LeaseHolding, Waiting, Terminal, Absent
      <3>2. CASE target = "cancelling"
        BY <1>1, <2>1, <2>3, <3>2
           DEF Permitted, InFlight, LeaseHolding, Waiting, Terminal, Absent
      <3> QED BY <2>1, <3>1, <3>2
    <2>5. /\ jobs' \in [Jobs -> Row]
          /\ \A k \in Jobs : Permitted(jobs[k], jobs'[k])
      BY <1>1, <2>1, <2>3, <2>4 DEF Permitted, new
    <2> QED BY <1>1, <2>1, <2>5, OutsideStep
  <1>4. CASE DeliverCancel(j)
    <2>1. entry' = Cancelled(j) /\ UNCHANGED <<jobs, worker, keeper, up>>
      BY <1>4 DEF DeliverCancel
    <2>2. /\ entry' \in [Workers -> Entry]
          /\ \A w \in Workers : entry'[w].held = entry[w].held
      BY <1>1, <2>1, EntryFacts DEF Cancelled
    <2> QED BY <1>1, <2>1, <2>2, OutsideStep DEF Permitted
  <1> QED BY <1>2, <1>3, <1>4

\* The lease keeper, the reaper, the sweeps and the watchdog.
LEMMA SchedulerActions ==
    ASSUME IInv, Scheduler
    PROVE  IInv'
  <1> DEFINE KeeperType == [at : {"idle", "renew", "mark"},
                            who : Workers \cup {None}, job : Jobs \cup {None}]
  <1>1. /\ jobs \in [Jobs -> Row] /\ entry \in [Workers -> Entry]
        /\ keeper \in KeeperType
        /\ \A j \in Jobs : jobs[j].state \in InFlight <=> jobs[j].lease_owner # None
    BY DEF IInv, TypeOK, LeaseIffInFlight
  <1>2. ASSUME NEW w \in Workers, KeeperReads(w) PROVE IInv'
    <2>1. wjob[w] \in Jobs \cup {None}
      BY DEF IInv, TypeOK
    <2> QED BY <1>1, <1>2, <2>1, OutsideStep DEF KeeperReads, Permitted
  <1>3. CASE KeeperRenews
    <2>1. keeper' \in KeeperType
      BY <1>1, <1>3 DEF KeeperRenews, KeeperIdle
    <2> QED BY <1>1, <1>3, <2>1, OutsideStep DEF KeeperRenews, Permitted
  <1>4. CASE KeeperMarksLost
    <2>1. /\ entry' \in [Workers -> Entry]
          /\ \A w \in Workers : entry'[w].held = entry[w].held
      BY <1>1, <1>4, EntryFacts DEF KeeperMarksLost
    <2>2. keeper' \in KeeperType
      BY <1>4 DEF KeeperMarksLost, KeeperIdle
    <2> QED BY <1>1, <1>4, <2>1, <2>2, OutsideStep DEF KeeperMarksLost, Permitted
  <1>5. ASSUME NEW S \in SUBSET Jobs, ReapExpiredLeases(S) PROVE IInv'
    <2>1. /\ jobs' \in [Jobs -> Row]
          /\ \A j \in Jobs : Permitted(jobs[j], jobs'[j])
      BY <1>1, <1>5, RecoveredPermitted
         DEF ReapExpiredLeases, RecoverRows, Permitted
    <2> QED BY <1>1, <1>5, <2>1, OutsideStep DEF ReapExpiredLeases
  <1>6. ASSUME NEW j \in Jobs, jobs[j].state \in Waiting,
               NEW target \in {"failed", "queued"}
        PROVE  Moved(jobs[j], target) \in Row /\ Permitted(jobs[j], Moved(jobs[j], target))
    <2>1. target \in JobState /\ target \in Waiting \cup Terminal
      BY DEF JobState, Active, Waiting, Terminal
    <2>2. jobs[j].lease_owner = None /\ ~jobs[j].cancel_requested
      BY <1>1, <1>6 DEF IInv, CancelWins, Waiting, InFlight, LeaseHolding
    <2>3. /\ Moved(jobs[j], target) \in Row /\ Moved(jobs[j], target).state = target
          /\ Moved(jobs[j], target).lease_owner = None
          /\ ~Moved(jobs[j], target).cancel_requested
          /\ Moved(jobs[j], target).idempotent = jobs[j].idempotent
      BY <1>1, <2>1, <2>2, MovedRow DEF Row
    <2> QED BY <1>6, <2>2, <2>3
               DEF Permitted, Waiting, InFlight, LeaseHolding, Terminal, Absent
  <1>7. ASSUME NEW S \in SUBSET Jobs, ExpireMaxWait(S) PROVE IInv'
    <2>1. /\ jobs' \in [Jobs -> Row]
          /\ \A j \in Jobs : Permitted(jobs[j], jobs'[j])
      BY <1>1, <1>6, <1>7 DEF ExpireMaxWait, Permitted
    <2> QED BY <1>1, <1>7, <2>1, OutsideStep DEF ExpireMaxWait
  <1>8. ASSUME NEW j \in Jobs, ReevaluateWaiting(j) PROVE IInv'
    <2>1. jobs[j].state \in Waiting
      BY <1>8 DEF ReevaluateWaiting, CanMove, Waiting
    <2>2. /\ jobs' \in [Jobs -> Row]
          /\ \A k \in Jobs : Permitted(jobs[k], jobs'[k])
      BY <1>1, <1>6, <1>8, <2>1 DEF ReevaluateWaiting, Permitted
    <2> QED BY <1>1, <1>8, <2>2, OutsideStep DEF ReevaluateWaiting
  <1>9. ASSUME NEW j \in Jobs, Watchdog(j) PROVE IInv'
    <2> DEFINE new == Moved(jobs[j], "cancelled")
    <2>1. jobs[j].state = "cancelling"
      BY <1>9 DEF Watchdog, CanMove
    <2>2. /\ new \in Row /\ new.state = "cancelled" /\ new.lease_owner = None
          /\ new.idempotent = jobs[j].idempotent
      BY <1>1, MovedRow DEF JobState, Terminal
    <2> HIDE DEF new
    <2>3. Permitted(jobs[j], new)
      BY <2>1, <2>2 DEF Permitted, InFlight, LeaseHolding, Terminal, Absent
    <2>4. /\ jobs' \in [Jobs -> Row]
          /\ \A k \in Jobs : Permitted(jobs[k], jobs'[k])
      BY <1>1, <1>9, <2>2, <2>3 DEF Watchdog, Permitted, new
    <2>5. /\ entry' \in [Workers -> Entry]
          /\ \A w \in Workers : entry'[w].held = entry[w].held
      BY <1>1, <1>9, EntryFacts DEF Watchdog, Cancelled
    <2> QED BY <1>1, <1>9, <2>4, <2>5, OutsideStep DEF Watchdog
  <1> QED BY <1>2, <1>3, <1>4, <1>5, <1>7, <1>8, <1>9 DEF Scheduler

\* A claim and the registration of its entry.
LEMMA ClaimActions ==
    ASSUME IInv, NEW w \in Workers,
           (\E j \in Jobs : Claim(w, j)) \/ Register(w)
    PROVE  IInv'
  <1>1. ASSUME NEW j \in Jobs, Claim(w, j) PROVE IInv'
    <2> DEFINE row == jobs[j]
               new == LeasedTo(row, w)
    <2>1. /\ up /\ pc[w] = "idle" /\ wjob[w] = None /\ out[w] = None
          /\ row \in Row /\ row.state = "queued" /\ row.lease_owner = None
          /\ ~row.cancel_requested
      BY <1>1 DEF Claim, At, CanMove, IInv, TypeOK, Remembers, LeaseIffInFlight,
                  CancelWins, InFlight, LeaseHolding
    <2>2. /\ new \in Row /\ new.state = "leased" /\ new.lease_owner = w
          /\ new.attempt = row.attempt /\ ~new.cancel_requested
          /\ new.idempotent = row.idempotent
      BY <2>1, LeasedRow
    <2>3. /\ jobs' = [jobs EXCEPT ![j] = new] /\ pc' = [pc EXCEPT ![w] = "claimed"]
          /\ wjob' = [wjob EXCEPT ![w] = j] /\ wst' = [wst EXCEPT ![w] = "leased"]
          /\ watt' = [watt EXCEPT ![w] = row.attempt]
          /\ UNCHANGED <<out, entry, keeper, up>>
      BY <1>1 DEF Claim
    <2> HIDE DEF new
    <2>4. TypeOK'
      BY <2>1, <2>2, <2>3
         DEF IInv, TypeOK, Label, JobState, Active, InFlight, LeaseHolding, Row
    <2>5. LeaseIffInFlight' /\ CancelWins'
      BY <2>1, <2>2, <2>3
         DEF IInv, TypeOK, LeaseIffInFlight, CancelWins, InFlight, LeaseHolding
    <2>6. HolderView'
      BY <2>1, <2>2, <2>3 DEF IInv, TypeOK, HolderView, Mine
    <2>7. LeaseAccounted'
      BY <2>1, <2>2, <2>3 DEF IInv, TypeOK, LeaseAccounted
    <2>8. \A v \in Workers : (Believes(v) /\ Remembers(v))'
      BY <2>1, <2>3 DEF IInv, TypeOK, Believes, Remembers, Running
    <2>9. \A v \in Workers : Numbers(v)'
      BY <2>1, <2>2, <2>3 DEF IInv, TypeOK, Numbers, Mine
    <2>10. \A v \in Workers : Excludes(v)'
      BY <2>1, <2>2, <2>3 DEF IInv, TypeOK, Excludes, Mine, Absent, Terminal
    <2>11. (~up => \A v \in Workers : pc[v] = "idle")'
      BY <2>1, <2>3
    <2> QED BY <2>4, <2>5, <2>6, <2>7, <2>8, <2>9, <2>10, <2>11 DEF IInv
  <1>2. CASE Register(w)
    <2>1. /\ up /\ pc[w] = "claimed" /\ pc' = [pc EXCEPT ![w] = "start"]
          /\ entry' = [entry EXCEPT ![w] = NewEntry]
          /\ UNCHANGED <<jobs, wjob, wst, watt, out, keeper, up>>
      BY <1>2 DEF Register, At
    <2>2. TypeOK' /\ LeaseIffInFlight' /\ CancelWins'
      BY <2>1, EntryFacts
         DEF IInv, TypeOK, LeaseIffInFlight, CancelWins, Label, Running
    <2>3. HolderView' /\ LeaseAccounted'
      BY <2>1 DEF IInv, TypeOK, HolderView, LeaseAccounted, Mine
    <2>4. \A v \in Workers : (Believes(v) /\ Remembers(v) /\ Numbers(v))'
      <3>1. None # "cancelled"
        BY DEF JobState, Terminal
      <3> QED BY <2>1, <3>1, EntryFacts
                 DEF IInv, TypeOK, Believes, Remembers, Numbers, Mine, Running
    <2>5. \A v \in Workers : Excludes(v)'
      BY <2>1 DEF IInv, TypeOK, Excludes, Mine
    <2>6. (~up => \A v \in Workers : pc[v] = "idle")'
      BY <2>1
    <2> QED BY <2>2, <2>3, <2>4, <2>5, <2>6 DEF IInv
  <1> QED BY <1>1, <1>2

\* The process dies and is started again.
LEMMA RestartActions ==
    ASSUME IInv, Crash \/ Recover
    PROVE  IInv'
  <1>0. None # "cancelled"
    BY DEF JobState, Terminal
  <1>1. CASE Crash
    <2>1. TypeOK' /\ LeaseIffInFlight' /\ CancelWins'
      <3>1. 0 \in 0 .. MaxAttempts
        OBVIOUS
      <3>2. KeeperIdle \in [at : {"idle", "renew", "mark"},
                            who : Workers \cup {None}, job : Jobs \cup {None}]
        BY DEF KeeperIdle
      <3>3. "idle" \in Label /\ NoEntry \in Entry
        BY EntryFacts DEF Label
      <3>4. TypeOK'
        BY <1>1, <3>1, <3>2, <3>3 DEF Crash, IInv, TypeOK
      <3> QED BY <1>1, <3>4 DEF Crash, IInv, LeaseIffInFlight, CancelWins
    <2>2. HolderView' /\ LeaseAccounted'
      BY <1>1 DEF Crash, HolderView, LeaseAccounted, Mine
    <2>3. \A v \in Workers : (Believes(v) /\ Remembers(v) /\ Numbers(v) /\ Excludes(v))'
      BY <1>0, <1>1, EntryFacts
         DEF Crash, Believes, Remembers, Numbers, Excludes, Mine, Running
    <2>4. (~up => \A v \in Workers : pc[v] = "idle")'
      BY <1>1 DEF Crash
    <2> QED BY <2>1, <2>2, <2>3, <2>4 DEF IInv
  <1>2. CASE Recover
    <2>1. /\ UNCHANGED <<pc, wjob, wst, watt, out, entry, keeper>>
          /\ up' = TRUE /\ \A v \in Workers : pc[v] = "idle" /\ wjob[v] = None
      BY <1>2 DEF Recover, worker, IInv, Remembers
    <2>2. \A j \in Jobs : /\ jobs[j].state \in InFlight =>
                                 jobs'[j] = Recovered(jobs[j])
                          /\ jobs[j].state \notin InFlight => jobs'[j] = jobs[j]
      BY <1>2 DEF Recover, RecoverRows
    <2>3. \A j \in Jobs : /\ jobs'[j] \in Row /\ jobs'[j].lease_owner = None
                          /\ jobs'[j].state \notin InFlight
                          /\ Permitted(jobs[j], jobs'[j])
      BY <2>2, RecoveredPermitted DEF IInv, TypeOK, LeaseIffInFlight, Permitted
    <2>4. jobs' \in [Jobs -> Row]
      BY <1>2, <2>3 DEF Recover, RecoverRows
    <2>5. TypeOK'
      BY <2>1, <2>4 DEF IInv, TypeOK
    <2>6. LeaseIffInFlight' /\ CancelWins'
      BY <2>3 DEF IInv, LeaseIffInFlight, CancelWins, Permitted
    <2>7. HolderView' /\ LeaseAccounted'
      BY <2>1, <2>3 DEF HolderView, LeaseAccounted, Mine
    <2>8. \A v \in Workers : (Believes(v) /\ Remembers(v) /\ Numbers(v) /\ Excludes(v))'
      BY <2>1 DEF IInv, Believes, Remembers, Numbers, Excludes, Mine
    <2> QED BY <2>1, <2>5, <2>6, <2>7, <2>8 DEF IInv
  <1> QED BY <1>1, <1>2

-----------------------------------------------------------------------------
(* The theorems.                                                           *)

\* The initial states satisfy the invariant.
LEMMA InitInv == Init => IInv
  <1> SUFFICES ASSUME Init PROVE IInv
    OBVIOUS
  <1>1. TypeOK /\ LeaseIffInFlight /\ CancelWins
    BY EntryFacts DEF Init, TypeOK, LeaseIffInFlight, CancelWins, NoRow, Row,
       KeeperIdle, Label, InFlight, LeaseHolding, Absent
  <1>2. HolderView /\ LeaseAccounted
    BY DEF Init, HolderView, LeaseAccounted, Mine, NoRow
  <1>3. \A w \in Workers : Believes(w) /\ Remembers(w) /\ Numbers(w) /\ Excludes(w)
    <2>1. None # "cancelled"
      BY DEF JobState, Terminal
    <2> QED BY <2>1, EntryFacts
               DEF Init, Believes, Remembers, Numbers, Excludes, Mine, Running
  <1> QED BY <1>1, <1>2, <1>3 DEF IInv, Init

\* Every step of every thread preserves the invariant.
LEMMA NextInv == IInv /\ [Next]_vars => IInv'
  <1> SUFFICES ASSUME IInv, [Next]_vars PROVE IInv'
    OBVIOUS
  <1>1. ASSUME NEW w \in Workers, Step(w) PROVE IInv'
    BY <1>1, LocalActions, KeepingActions, LeavingActions, AttemptActions,
       CancelFromAction, EndingActions, ClaimActions DEF Step
  <1>2. ASSUME NEW w \in Workers, WorkerError(w) \/ ThreadDies(w) PROVE IInv'
    BY <1>2, LocalActions, EndingActions
  <1>3. ASSUME NEW w \in Workers, NEW j \in Jobs, Claim(w, j) PROVE IInv'
    BY <1>3, ClaimActions
  <1>4. ASSUME NEW j \in Jobs, \/ \E i \in BOOLEAN : Enqueue(j, i)
                               \/ CancelJob(j) \/ DeliverCancel(j)
        PROVE  IInv'
    BY <1>4, CallerActions
  <1>5. CASE Scheduler \/ Crash \/ Recover
    BY <1>5, SchedulerActions, RestartActions
  <1>6. CASE UNCHANGED vars
    BY <1>6 DEF vars, IInv, TypeOK, LeaseIffInFlight, CancelWins, HolderView,
       LeaseAccounted, Believes, Remembers, Numbers, Excludes, Mine
  <1> QED BY <1>1, <1>2, <1>3, <1>4, <1>5, <1>6 DEF Next

\* The inductive invariant holds of every behaviour of the queue, for any
\* number of jobs and workers and any attempt bound.
THEOREM Invariance == Spec => []IInv
  BY InitInv, NextInv, PTL DEF Spec

\* jobs.attempt stays within max_attempts and every column and local variable
\* within its type.
THEOREM TypeCorrect == Spec => []TypeOK
  BY Invariance, PTL DEF IInv

\* The reaper may select on the lease alone: a lease is set exactly on rows
\* that are in flight (reap_expired_leases).
THEOREM LeaseSound == Spec => []LeaseIffInFlight
  BY Invariance, PTL DEF IInv

\* A fenced compare-and-set of the lease owner is refused for a cancel and for
\* nothing else (transition, Worker._run).
THEOREM HolderSound == Spec => []HolderView
  BY Invariance, PTL DEF IInv

\* No lease is orphaned in a live process other than by a dead thread or a
\* cancel the watchdog will end (process, keep_leases, watchdog).
THEOREM LeasesAccounted == Spec => []LeaseAccounted
  BY Invariance, PTL DEF IInv

\* An accepted cancel is final under every interleaving (cancel_job).
THEOREM CancelFinal == Spec => []CancelWins
  BY Invariance, PTL DEF IInv

\* The state a worker believes in always allows its next transition.
LEMMA BelievesLegal == IInv => NeverIllegal
  <1> SUFFICES ASSUME IInv, NEW w \in Workers, NEW target \in Targets(pc[w])
               PROVE  is_legal(wst[w], target)
    BY DEF NeverIllegal
  <1> QED BY DEF IInv, Believes, Targets, is_legal, TRANSITIONS

\* check_transition never raises IllegalTransition out of Worker._run, for any
\* number of workers.
THEOREM AlwaysLegal == Spec => []NeverIllegal
  BY Invariance, BelievesLegal, PTL

\* The numbering of a lease holder follows from what Numbers keeps.
LEMMA NumbersAgree == IInv => NumberingAgrees
  BY DEF IInv, Numbers, NumberingAgrees

\* write_attempt never meets its "numbering diverged" refusal in the hands of
\* a lease holder.
THEOREM NumberingSound == Spec => []NumberingAgrees
  BY Invariance, NumbersAgree, PTL

\* Every write a worker attempts is one the table accepts: check_transition
\* raises nothing out of Worker._run and write_attempt meets no number of
\* another attempt, for any number of workers and jobs.
THEOREM AllWritesAccepted == Spec => []WritesAccepted
  BY AlwaysLegal, NumberingSound, PTL DEF WritesAccepted

-----------------------------------------------------------------------------
(* What a step may do to a row: the action properties, that non-idempotent *)
(* work is inside one provider call at most, and the refinement.           *)

\* The lease holder of j has an answer that passed, and its attempt is on
\* record.
Earned(j) ==
    \E w \in Workers :
        /\ jobs[j].lease_owner = w /\ wjob[w] = j
        /\ out[w] = "passed" /\ jobs[j].attempt = watt[w]

\* What becomes of the other columns when a row that exists is moved: the
\* counter moves with a recorded attempt only, a lease that stays keeps its
\* owner, and a row enters the cancel states with its flag set.
Columns(old, new) ==
    /\ \/ new.attempt = old.attempt
       \/ /\ new.attempt = old.attempt + 1 /\ old.state \in InFlight
          /\ new.state \in {"retrying", "validating", "cancelled"}
    /\ old.state \in InFlight /\ new.state \in InFlight =>
          new.lease_owner = old.lease_owner
    /\ new.state \in {"cancelling", "cancelled"} =>
          \/ new.cancel_requested
          \/ old.state = "cancelling" /\ new.cancel_requested = old.cancel_requested

\* What a step may write to row j.
Allowed(j, new) ==
    \/ new = jobs[j]
    \/ /\ jobs[j].state \notin Terminal
       /\ Moves(jobs[j].state, new.state)
       /\ jobs[j].state = Absent => new.attempt = 0
       /\ jobs[j].state # Absent =>
             new.idempotent = jobs[j].idempotent /\ Columns(jobs[j], new)
       /\ new.state = "completed" => Earned(j) /\ jobs[j].attempt > 0

\* The table has no move out of a terminal state.
LEMMA TerminalIsFinal ==
    ASSUME NEW s, NEW t, is_legal(s, t)
    PROVE  s \notin Terminal /\ s # Absent
  BY DEF is_legal, TRANSITIONS, Terminal, Absent

\* A transition in the table, of a row that nothing else was done to than
\* counting an attempt, is allowed.
LEMMA MoveAllowed ==
    ASSUME NEW j \in Jobs, NEW row \in Row, NEW target \in JobState,
           jobs[j] \in Row, is_legal(jobs[j].state, target),
           row.idempotent = jobs[j].idempotent,
           row.lease_owner = jobs[j].lease_owner,
           row.cancel_requested = jobs[j].cancel_requested,
           \/ row.attempt = jobs[j].attempt
           \/ /\ row.attempt = jobs[j].attempt + 1 /\ jobs[j].state \in InFlight
              /\ target \in {"retrying", "validating"},
           target \in {"cancelling", "cancelled"} => jobs[j].state = "cancelling",
           target = "completed" => Earned(j) /\ jobs[j].attempt > 0
    PROVE  Allowed(j, Moved(row, target))
  <1>1. /\ Moved(row, target).state = target
        /\ Moved(row, target).idempotent = jobs[j].idempotent
        /\ Moved(row, target).attempt = row.attempt
        /\ Moved(row, target).cancel_requested = jobs[j].cancel_requested
        /\ Moved(row, target).lease_owner =
              IF target \in Waiting \cup Terminal THEN None ELSE jobs[j].lease_owner
    BY MovedRow
  <1>2. jobs[j].state \notin Terminal /\ jobs[j].state # Absent
    BY TerminalIsFinal
  <1>3. target \in InFlight => target \notin Waiting \cup Terminal
    BY DEF InFlight, LeaseHolding, Waiting, Terminal
  <1>4. Columns(jobs[j], Moved(row, target))
    BY <1>1, <1>3 DEF Columns
  <1> QED BY <1>1, <1>2, <1>4 DEF Allowed, Moves

\* One row is written.
LEMMA OneRow ==
    ASSUME IInv, NEW j \in Jobs, NEW row, Allowed(j, row),
           jobs' = [jobs EXCEPT ![j] = row]
    PROVE  \A k \in Jobs : Allowed(k, jobs'[k])
  BY DEF IInv, TypeOK, Allowed

\* No row is written.
LEMMA NoRowWritten ==
    ASSUME jobs' = jobs
    PROVE  \A k \in Jobs : Allowed(k, jobs'[k])
  BY DEF Allowed

-----------------------------------------------------------------------------
(* Transactions of a worker.                                               *)

\* A fenced transition.
LEMMA FencedAllowed ==
    ASSUME IInv, NEW w \in Workers, pc[w] \in Running,
           NEW target \in JobState \ {"cancelling", "cancelled"},
           NEW label, Fenced(w, target, label),
           target = "completed" => pc[w] = "passed"
    PROVE  \A k \in Jobs : Allowed(k, jobs'[k])
  <1> DEFINE row == jobs[wjob[w]]
  <1>1. wjob[w] \in Jobs /\ row \in Row
    BY RunningJob
  <1>2. CASE Refused(w)
    BY <1>2, NoRowWritten DEF Refused
  <1>3. CASE CanMoveAs(row, wst[w], target, w) /\ Committed(w, row, target, label)
    <2>1. /\ is_legal(row.state, target) /\ row.lease_owner = w
          /\ jobs' = [jobs EXCEPT ![wjob[w]] = Moved(row, target)]
          /\ row.state = wst[w]
      BY <1>3 DEF CanMoveAs, CanMove, Committed
    <2>2. target = "completed" => Earned(wjob[w]) /\ row.attempt > 0
      BY <1>1, <2>1 DEF IInv, Remembers, Numbers, Mine, Earned
    <2>3. Allowed(wjob[w], Moved(row, target))
      BY <1>1, <2>1, <2>2, MoveAllowed
    <2> HIDE DEF row
    <2> QED BY <1>1, <2>1, <2>3, OneRow
  <1> QED BY <1>2, <1>3 DEF Fenced

\* An attempt is recorded and its row moved on.
LEMMA RecordAllowed ==
    ASSUME IInv, NEW w \in Workers, pc[w] \in Running,
           NEW target \in {"retrying", "validating"}, NEW label,
           RecordAttempt(w, target, label)
    PROVE  \A k \in Jobs : Allowed(k, jobs'[k])
  <1> DEFINE row == jobs[wjob[w]]
  <1>1. wjob[w] \in Jobs /\ row \in Row
    BY RunningJob
  <1>2. CASE Refused(w)
    BY <1>2, NoRowWritten DEF Refused
  <1>3. CASE /\ CanWrite(w) /\ CanMoveAs(row, "executing", target, w)
             /\ Committed(w, Written(row), target, label)
    <2>1. /\ is_legal(row.state, target) /\ row.state = "executing"
          /\ jobs' = [jobs EXCEPT ![wjob[w]] = Moved(Written(row), target)]
          /\ row.attempt + 1 = watt[w]
      BY <1>3 DEF CanMoveAs, CanMove, Committed, CanWrite
    <2>2. row.attempt + 1 \in 0 .. MaxAttempts
      BY <2>1 DEF IInv, TypeOK
    <2>3. /\ Written(row) \in Row /\ Written(row).idempotent = row.idempotent
          /\ Written(row).lease_owner = row.lease_owner
          /\ Written(row).cancel_requested = row.cancel_requested
          /\ Written(row).attempt = row.attempt + 1
      BY <1>1, <2>2, WrittenRow
    <2>4. target \in JobState /\ row.state \in InFlight
      BY <2>1 DEF JobState, LeaseHolding, InFlight, Active
    <2>5. Allowed(wjob[w], Moved(Written(row), target))
      BY <1>1, <2>1, <2>3, <2>4, MoveAllowed
    <2> HIDE DEF row
    <2> QED BY <1>1, <2>1, <2>5, OneRow
  <1> QED BY <1>2, <1>3 DEF RecordAttempt
\* A worker cancels its job, with the attempt a cancel interrupted.
LEMMA CancelAllowed ==
    ASSUME IInv, NEW w \in Workers, CancelFrom(w)
    PROVE  \A k \in Jobs : Allowed(k, jobs'[k])
  <1> DEFINE row == jobs[wjob[w]]
             kept == IF out[w] = "cancelled" THEN Written(row) ELSE row
             new == Flagged(Moved(kept, "cancelled"))
  <1>1. wjob[w] \in Jobs /\ row \in Row
    BY RunningJob DEF CancelFrom, At, Running
  <1>2. CASE Refused(w)
    BY <1>2, NoRowWritten DEF Refused
  <1>3. CASE ~Refused(w)
    <2>1. /\ jobs' = [jobs EXCEPT ![wjob[w]] = new]
          /\ out[w] = "cancelled" => row.attempt + 1 = watt[w]
          /\ row.state # "cancelling" => is_legal(row.state, "cancelling")
      BY <1>3 DEF CancelFrom, CanWrite
    <2>2. out[w] = "cancelled" => row.attempt + 1 \in 0 .. MaxAttempts
      BY <2>1 DEF IInv, TypeOK
    <2>3. /\ kept \in Row /\ kept.idempotent = row.idempotent
          /\ kept.attempt \in {row.attempt, row.attempt + 1}
      BY <1>1, <2>2, WrittenRow
    <2>4. "cancelled" \in JobState
      BY DEF JobState, Terminal
    <2>5. /\ new.state = "cancelled" /\ new.idempotent = row.idempotent
          /\ new.attempt = kept.attempt /\ new.cancel_requested
      <3> HIDE DEF kept, row
      <3> QED BY <2>3, <2>4, MovedRow, FlaggedRow
    <2>6. /\ Moves(row.state, "cancelled") /\ row.state \notin Terminal
          /\ row.state \in InFlight /\ row.state # Absent
      BY <2>1, TerminalIsFinal DEF Moves, is_legal, TRANSITIONS, Terminal,
         InFlight, LeaseHolding, Absent
    <2>7. "cancelled" \notin InFlight
      BY DEF InFlight, LeaseHolding
    <2>8. Columns(row, new)
      <3> HIDE DEF new, kept, row
      <3> QED BY <2>3, <2>5, <2>6, <2>7 DEF Columns
    <2>9. Allowed(wjob[w], new)
      <3> HIDE DEF new
      <3> QED BY <2>5, <2>6, <2>8 DEF Allowed
    <2> HIDE DEF new
    <2> QED BY <1>1, <2>1, <2>9, OneRow
  <1> QED BY <1>2, <1>3

\* A crashed worker fails its job.
LEMMA CrashAllowed ==
    ASSUME IInv, NEW w \in Workers, FailAfterCrash(w)
    PROVE  \A k \in Jobs : Allowed(k, jobs'[k])
  <1> DEFINE row == jobs[wjob[w]]
  <1>1. wjob[w] \in Jobs /\ row \in Row
    BY RunningJob DEF FailAfterCrash, At, Running
  <1>2. CASE jobs' = jobs
    BY <1>2, NoRowWritten
  <1>3. CASE jobs' # jobs
    <2>1. /\ is_legal(row.state, "failed")
          /\ jobs' = [jobs EXCEPT ![wjob[w]] = Moved(row, "failed")]
      BY <1>3 DEF FailAfterCrash, CanMoveAs, CanMove
    <2>2. "failed" \in JobState
      BY DEF JobState, Terminal
    <2>3. Allowed(wjob[w], Moved(row, "failed"))
      BY <1>1, <2>1, <2>2, MoveAllowed
    <2> HIDE DEF row
    <2> QED BY <1>1, <2>1, <2>3, OneRow
  <1> QED BY <1>2, <1>3

\* A worker claims a queued row.
LEMMA ClaimAllowed ==
    ASSUME IInv, NEW w \in Workers, NEW j \in Jobs, Claim(w, j)
    PROVE  \A k \in Jobs : Allowed(k, jobs'[k])
  <1>1. /\ jobs[j] \in Row /\ jobs[j].state = "queued"
        /\ is_legal(jobs[j].state, "leased")
        /\ jobs' = [jobs EXCEPT ![j] = LeasedTo(jobs[j], w)]
    BY DEF IInv, TypeOK, Claim, CanMove
  <1>2. /\ LeasedTo(jobs[j], w).state = "leased"
        /\ LeasedTo(jobs[j], w).idempotent = jobs[j].idempotent
        /\ LeasedTo(jobs[j], w).attempt = jobs[j].attempt
    BY <1>1, LeasedRow
  <1>3. Columns(jobs[j], LeasedTo(jobs[j], w))
    BY <1>1, <1>2 DEF Columns, InFlight, LeaseHolding
  <1>4. Allowed(j, LeasedTo(jobs[j], w))
    BY <1>1, <1>2, <1>3, TerminalIsFinal DEF Allowed, Moves
  <1> QED BY <1>1, <1>4, OneRow

\* Every step of a worker thread.
LEMMA WorkerAllowed ==
    ASSUME IInv, NEW w \in Workers, Step(w) \/ WorkerError(w) \/ ThreadDies(w)
    PROVE  \A k \in Jobs : Allowed(k, jobs'[k])
  <1>1. \/ jobs' = jobs
        \/ \E target \in JobState \ {"cancelling", "cancelled"}, label \in Label :
              /\ pc[w] \in Running /\ Fenced(w, target, label)
              /\ target = "completed" => pc[w] = "passed"
        \/ \E target \in {"retrying", "validating"}, label \in Label :
              pc[w] \in Running /\ RecordAttempt(w, target, label)
        \/ CancelFrom(w) \/ FailAfterCrash(w)
    <2>1. CASE \/ Register(w) \/ CheckFlag(w, "start", "routing")
               \/ CheckFlag(w, "admitted", "candidate") \/ EnterCandidate(w)
               \/ TakeNumber(w) \/ CheckBeforeCall(w) \/ ProviderReturns(w)
               \/ StopCancelled(w) \/ RetrySame(w) \/ FallBack(w)
               \/ CheckAfterBackoff(w) \/ Finish(w)
               \/ WorkerError(w) \/ ThreadDies(w)
      BY <2>1 DEF Register, CheckFlag, EnterCandidate, TakeNumber, CheckBeforeCall,
         ProviderReturns, StopCancelled, RetrySame, FallBack, CheckAfterBackoff,
         Finish, WorkerError, ThreadDies, Forget, Goto
    <2>2. CASE \/ Admit(w) \/ Defer(w) \/ FailAdmission(w) \/ RequeueForProbe(w)
               \/ StartExecuting(w) \/ Complete(w) \/ BeginRetry(w)
               \/ Readmit(w) \/ Fail(w)
      BY <2>2 DEF Admit, Defer, FailAdmission, RequeueForProbe, StartExecuting,
         Complete, BeginRetry, Readmit, Fail, At, Running, Label, JobState,
         Active, Waiting, InFlight, LeaseHolding, Terminal
    <2>3. CASE RecordFailedAttempt(w) \/ ValidateAttempt(w)
      BY <2>3 DEF RecordFailedAttempt, ValidateAttempt, At, Running, Label
    <2> QED BY <2>1, <2>2, <2>3 DEF Step
  <1> QED BY <1>1, NoRowWritten, FencedAllowed, RecordAllowed, CancelAllowed,
             CrashAllowed
-----------------------------------------------------------------------------
(* Everybody else's transactions.                                          *)

\* A move of one row by a caller or the scheduler.
LEMMA SingleMove ==
    ASSUME IInv, NEW j \in Jobs, NEW current, NEW target \in JobState \ {"completed"},
           CanMove(jobs[j], current, target)
    PROVE  /\ jobs[j].state = "cancelling" \/ target \notin {"cancelling", "cancelled"}
                => Allowed(j, Moved(jobs[j], target))
           /\ Allowed(j, Flagged(Moved(jobs[j], target)))
  <1>1. jobs[j] \in Row /\ is_legal(jobs[j].state, target)
    BY DEF IInv, TypeOK, CanMove
  <1>2. jobs[j].state = "cancelling" \/ target \notin {"cancelling", "cancelled"}
          => Allowed(j, Moved(jobs[j], target))
    BY <1>1, MoveAllowed
  <1>3. /\ Moved(jobs[j], target) \in Row
        /\ Moved(jobs[j], target).state = target
        /\ Moved(jobs[j], target).idempotent = jobs[j].idempotent
        /\ Moved(jobs[j], target).attempt = jobs[j].attempt
        /\ Moved(jobs[j], target).lease_owner =
              IF target \in Waiting \cup Terminal THEN None ELSE jobs[j].lease_owner
    BY <1>1, MovedRow
  <1> DEFINE new == Flagged(Moved(jobs[j], target))
  <1>4. /\ new.state = target /\ new.idempotent = jobs[j].idempotent
        /\ new.attempt = jobs[j].attempt /\ new.cancel_requested
        /\ new.lease_owner = Moved(jobs[j], target).lease_owner
    BY <1>3, FlaggedRow
  <1> HIDE DEF new
  <1>5. jobs[j].state \notin Terminal /\ jobs[j].state # Absent
    BY <1>1, TerminalIsFinal
  <1>6. target \in InFlight => target \notin Waiting \cup Terminal
    BY DEF InFlight, LeaseHolding, Waiting, Terminal
  <1>7. Columns(jobs[j], new)
    BY <1>3, <1>4, <1>6 DEF Columns
  <1>8. Allowed(j, new)
    BY <1>1, <1>4, <1>5, <1>7 DEF Allowed, Moves
  <1> QED BY <1>2, <1>8 DEF new

\* Submissions and cancel requests.
LEMMA CallerAllowed ==
    ASSUME IInv, NEW j \in Jobs,
           \/ \E i \in BOOLEAN : Enqueue(j, i)
           \/ CancelJob(j) \/ DeliverCancel(j)
    PROVE  \A k \in Jobs : Allowed(k, jobs'[k])
  <1>1. ASSUME NEW i \in BOOLEAN, Enqueue(j, i)
        PROVE  \A k \in Jobs : Allowed(k, jobs'[k])
    <2>1. Allowed(j, Queued(i))
      BY <1>1 DEF Enqueue, Queued, Allowed, Moves, Absent, Terminal
    <2> QED BY <1>1, <2>1, OneRow DEF Enqueue
  <1>2. CASE CancelJob(j)
    <2> DEFINE target == cancel_target(jobs[j].state)
    <2>1. /\ target \in JobState \ {"completed"}
          /\ CanMove(jobs[j], jobs[j].state, target)
          /\ jobs' = [jobs EXCEPT ![j] = Flagged(Moved(jobs[j], target))]
      BY <1>2 DEF CancelJob, cancel_target, JobState, Active, InFlight, Waiting,
         LeaseHolding, Terminal
    <2>2. Allowed(j, Flagged(Moved(jobs[j], target)))
      <3> HIDE DEF target
      <3> QED BY <2>1, SingleMove
    <2> QED BY <2>1, <2>2, OneRow
  <1>3. CASE DeliverCancel(j)
    BY <1>3, NoRowWritten DEF DeliverCancel
  <1> QED BY <1>1, <1>2, <1>3

\* The reaper and startup recovery, on one row.
LEMMA RecoveredAllowed ==
    ASSUME IInv, NEW j \in Jobs
    PROVE  Allowed(j, Recovered(jobs[j]))
  <1> DEFINE target == recovery_target(jobs[j].state, jobs[j].idempotent)
  <1>1. CASE target # None /\ is_legal(jobs[j].state, target)
    <2>1. /\ target \in JobState \ {"completed"}
          /\ jobs[j].state = "cancelling" \/ target \notin {"cancelling", "cancelled"}
      BY <1>1 DEF recovery_target, JobState, Active, InFlight, Waiting,
         LeaseHolding, Terminal
    <2>2. CanMove(jobs[j], jobs[j].state, target)
      BY <1>1 DEF CanMove
    <2>3. Recovered(jobs[j]) = Moved(jobs[j], target)
      BY <1>1 DEF Recovered
    <2> HIDE DEF target
    <2> QED BY <2>1, <2>2, <2>3, SingleMove
  <1>2. CASE ~(target # None /\ is_legal(jobs[j].state, target))
    BY <1>2 DEF Recovered, Allowed
  <1> QED BY <1>1, <1>2

\* The scheduler thread: keeper, reaper, sweeps and watchdog.
LEMMA SchedulerAllowed ==
    ASSUME IInv, Scheduler
    PROVE  \A k \in Jobs : Allowed(k, jobs'[k])
  <1>1. ASSUME NEW S \in SUBSET Jobs, ReapExpiredLeases(S)
        PROVE  \A k \in Jobs : Allowed(k, jobs'[k])
    <2>1. \A k \in Jobs : jobs'[k] = jobs[k] \/ jobs'[k] = Recovered(jobs[k])
      BY <1>1 DEF ReapExpiredLeases, RecoverRows
    <2> QED BY <2>1, RecoveredAllowed DEF Allowed
  <1>2. ASSUME NEW S \in SUBSET Jobs, ExpireMaxWait(S)
        PROVE  \A k \in Jobs : Allowed(k, jobs'[k])
    <2>1. \A k \in Jobs : \/ jobs'[k] = jobs[k]
                         \/ /\ jobs'[k] = Moved(jobs[k], "failed")
                            /\ CanMove(jobs[k], jobs[k].state, "failed")
      BY <1>2 DEF ExpireMaxWait, Waiting, CanMove, is_legal, TRANSITIONS
    <2>2. "failed" \in JobState \ {"completed"}
      BY DEF JobState, Terminal
    <2> QED BY <2>1, <2>2, SingleMove DEF Allowed
  <1>3. ASSUME NEW j \in Jobs, ReevaluateWaiting(j) \/ Watchdog(j)
        PROVE  \A k \in Jobs : Allowed(k, jobs'[k])
    <2>1. PICK current \in {"waiting_resources", "cancelling"},
               target \in {"queued", "cancelled"} :
            /\ CanMove(jobs[j], current, target)
            /\ target = "cancelled" => jobs[j].state = "cancelling"
            /\ jobs' = [jobs EXCEPT ![j] = Moved(jobs[j], target)]
      BY <1>3 DEF ReevaluateWaiting, Watchdog, CanMove
    <2>2. target \in JobState \ {"completed"}
      BY DEF JobState, Active, Waiting, Terminal
    <2>3. Allowed(j, Moved(jobs[j], target))
      BY <2>1, <2>2, SingleMove
    <2> QED BY <2>1, <2>3, OneRow
  <1>4. CASE (\E w \in Workers : KeeperReads(w)) \/ KeeperRenews \/ KeeperMarksLost
    BY <1>4, NoRowWritten DEF KeeperReads, KeeperRenews, KeeperMarksLost
  <1> QED BY <1>1, <1>2, <1>3, <1>4 DEF Scheduler

\* Every step writes to every row what is allowed, or nothing.
LEMMA NextAllowed ==
    ASSUME IInv, [Next]_vars
    PROVE  \A k \in Jobs : Allowed(k, jobs'[k])
  <1>1. CASE Crash
    BY <1>1, NoRowWritten DEF Crash
  <1>2. CASE Recover
    <2>1. \A k \in Jobs : jobs'[k] = jobs[k] \/ jobs'[k] = Recovered(jobs[k])
      BY <1>2 DEF Recover, RecoverRows
    <2> QED BY <2>1, RecoveredAllowed DEF Allowed
  <1>3. CASE UNCHANGED vars
    BY <1>3, NoRowWritten DEF vars
  <1> QED BY <1>1, <1>2, <1>3, CallerAllowed, ClaimAllowed, WorkerAllowed,
             SchedulerAllowed DEF Next

\* A terminal job is immutable (queue_state.py TERMINAL_STATES): no worker,
\* sweep, cancel, crash or restart changes any column of its row.
THEOREM Immutable == Spec => TerminalImmutable
  <1>1. IInv /\ [Next]_vars =>
          [\A j \in Jobs : jobs[j].state \in Terminal => jobs'[j] = jobs[j]]_vars
    BY NextAllowed DEF Allowed
  <1> QED BY <1>1, Invariance, PTL DEF Spec, TerminalImmutable

\* Every committed change of state is in the transition table
\* (check_transition), or the cancel a worker commits in one transaction.
THEOREM OnlyLegalMoves == Spec => LegalMoves
  <1>1. IInv /\ [Next]_vars =>
          [\A j \in Jobs : Moves(jobs[j].state, jobs'[j].state)]_vars
    BY NextAllowed DEF Allowed, Moves
  <1> QED BY <1>1, Invariance, PTL DEF Spec, LegalMoves

\* A job completes only by the worker that owns its lease, with an answer that
\* passed and is on record (_complete): a worker whose lease was reaped never
\* completes the job of the worker that claimed it next.
THEOREM OnlyHolderCompletes == Spec => CompletedByHolder
  <1>1. IInv /\ [Next]_vars =>
          [\A j \in Jobs :
              jobs'[j].state = "completed" /\ jobs[j].state # "completed" =>
                  \E w \in Workers :
                      /\ jobs[j].lease_owner = w /\ wjob[w] = j
                      /\ out[w] = "passed" /\ jobs[j].attempt = watt[w]]_vars
    BY NextAllowed DEF Allowed, Earned
  <1> QED BY <1>1, Invariance, PTL DEF Spec, CompletedByHolder

-----------------------------------------------------------------------------
(* Non-idempotent work.                                                    *)

\* The worker is at the job and may still write to it or call a provider.
Engaged(w, j) == wjob[w] = j /\ pc[w] # "ending"

\* Only one worker is ever engaged with a non-idempotent job.
Sole ==
    \A j \in Jobs : \A v, w \in Workers :
        Engaged(v, j) /\ Engaged(w, j) /\ v # w => jobs[j].idempotent

\* A worker becomes engaged with a job by claiming it and in no other way.
LEMMA EngagedBefore ==
    ASSUME IInv, [Next]_vars, NEW w \in Workers, NEW j \in Jobs, Engaged(w, j)'
    PROVE  Engaged(w, j) \/ Claim(w, j)
  <1>0. pc \in [Workers -> Label] /\ wjob \in [Workers -> Jobs \cup {None}]
    BY DEF IInv, TypeOK
  <1>1. ASSUME NEW v \in Workers, NEW k \in Jobs, Claim(v, k)
        PROVE  Engaged(w, j) \/ Claim(w, j)
    BY <1>0, <1>1 DEF Claim, Engaged
  <1>2. ASSUME NEW v \in Workers, Finish(v) \/ ThreadDies(v)
        PROVE  Engaged(w, j)
    BY <1>0, <1>2 DEF Finish, ThreadDies, Forget, Engaged
  <1>3. ASSUME NEW v \in Workers, Step(v) \/ WorkerError(v), ~Finish(v)
        PROVE  Engaged(w, j)
    <2>1. wjob' = wjob /\ pc[v] # "ending" /\ \E label : pc' = [pc EXCEPT ![v] = label]
      <3>1. CASE \/ Register(v) \/ CheckFlag(v, "start", "routing")
                 \/ CheckFlag(v, "admitted", "candidate") \/ EnterCandidate(v)
                 \/ TakeNumber(v) \/ CheckBeforeCall(v) \/ ProviderReturns(v)
                 \/ StopCancelled(v) \/ RetrySame(v) \/ FallBack(v)
                 \/ CheckAfterBackoff(v) \/ WorkerError(v)
        BY <3>1 DEF Register, CheckFlag, EnterCandidate, TakeNumber,
           CheckBeforeCall, ProviderReturns, StopCancelled, RetrySame, FallBack,
           CheckAfterBackoff, WorkerError, Goto, At, Running
      <3>2. CASE \/ Admit(v) \/ Defer(v) \/ FailAdmission(v) \/ RequeueForProbe(v)
                 \/ StartExecuting(v) \/ Complete(v) \/ BeginRetry(v)
                 \/ Readmit(v) \/ Fail(v)
        BY <3>2 DEF Admit, Defer, FailAdmission, RequeueForProbe, StartExecuting,
           Complete, BeginRetry, Readmit, Fail, At, Fenced, Committed, Refused
      <3>3. CASE \/ RecordFailedAttempt(v) \/ ValidateAttempt(v)
                 \/ CancelFrom(v) \/ FailAfterCrash(v)
        BY <3>3 DEF RecordFailedAttempt, ValidateAttempt, CancelFrom,
           FailAfterCrash, At, RecordAttempt, Committed, Refused
      <3> QED BY <1>3, <3>1, <3>2, <3>3 DEF Step
    <2> QED BY <1>0, <2>1 DEF Engaged
  <1>4. CASE Crash
    BY <1>4 DEF Crash, Engaged
  <1>5. CASE UNCHANGED <<pc, wjob>>
    BY <1>5 DEF Engaged
  <1>6. CASE \/ \E k \in Jobs, i \in BOOLEAN : Enqueue(k, i)
             \/ \E k \in Jobs : CancelJob(k) \/ DeliverCancel(k)
             \/ Scheduler \/ Recover \/ UNCHANGED vars
    <2>1. UNCHANGED <<pc, wjob>>
      BY <1>6 DEF Enqueue, CancelJob, DeliverCancel, Scheduler, KeeperReads,
         KeeperRenews, KeeperMarksLost, ReapExpiredLeases, ExpireMaxWait,
         ReevaluateWaiting, Watchdog, Recover, vars, worker
    <2> QED BY <1>5, <2>1
  <1> QED BY <1>1, <1>2, <1>3, <1>4, <1>6 DEF Next

\* A queued row has nobody engaged with it unless it is idempotent.
LEMMA ClaimedAlone ==
    ASSUME IInv, NEW v \in Workers, NEW w \in Workers, NEW j \in Jobs,
           Claim(w, j), Engaged(v, j)
    PROVE  jobs[j].idempotent
  <1>1. jobs[j].state = "queued" /\ jobs[j].lease_owner = None
    BY DEF Claim, CanMove, IInv, LeaseIffInFlight, InFlight, LeaseHolding
  <1>2. ~Mine(v) /\ jobs[j].state \notin Terminal
    BY <1>1 DEF Mine, Engaged, Terminal
  <1> QED BY <1>2 DEF IInv, Excludes, Engaged

\* Every step preserves it.
LEMMA SoleStep ==
    ASSUME IInv, Sole, [Next]_vars
    PROVE  Sole'
  <1> SUFFICES ASSUME NEW j \in Jobs, NEW v \in Workers, NEW w \in Workers,
                      Engaged(v, j)', Engaged(w, j)', v # w
               PROVE  jobs'[j].idempotent
    BY DEF Sole
  <1>1. Engaged(v, j) \/ Claim(v, j)
    BY EngagedBefore
  <1>2. Engaged(w, j) \/ Claim(w, j)
    BY EngagedBefore
  <1>3. ~(Claim(v, j) /\ Claim(w, j))
    <2>1. pc \in [Workers -> Label] /\ pc[v] \in Label /\ "claimed" # "idle"
      BY DEF IInv, TypeOK
    <2> QED BY <2>1 DEF Claim, At
  <1>4. jobs[j].idempotent
    BY <1>1, <1>2, <1>3, ClaimedAlone DEF Sole
  <1>5. jobs[j].state # Absent
    BY <1>1, <1>2, <1>3 DEF IInv, Excludes, Engaged
  <1>6. Allowed(j, jobs'[j])
    BY NextAllowed
  <1> QED BY <1>4, <1>5, <1>6 DEF Allowed

\* Non-idempotent work is inside at most one provider call, for any number of
\* workers and however often leases expire (recovery_target fails such a job
\* instead of requeueing it).
THEOREM SingleCall == Spec => []NoDuplicateSideEffect
  <1>1. Init => Sole
    BY DEF Init, Sole, Engaged
  <1>2. IInv /\ Sole /\ [Next]_vars => Sole'
    BY SoleStep
  <1>3. Sole => NoDuplicateSideEffect
    BY DEF Sole, Engaged, NoDuplicateSideEffect
  <1> QED BY <1>1, <1>2, <1>3, Invariance, PTL DEF Spec

-----------------------------------------------------------------------------
(* The lifecycle a caller is promised.                                     *)

\* The columns the lifecycle reads and IInv does not bind: a row in the cancel
\* states was asked to cancel, and an identifier without a row has no attempts.
Marked ==
    \A j \in Jobs :
        /\ jobs[j].state \in {"cancelling", "cancelled"} => jobs[j].cancel_requested
        /\ jobs[j].state = Absent => jobs[j].attempt = 0

\* Every step preserves it.
LEMMA MarkedStep ==
    ASSUME IInv, Marked, [Next]_vars
    PROVE  Marked'
  <1> SUFFICES ASSUME NEW j \in Jobs
               PROVE  /\ jobs'[j].state \in {"cancelling", "cancelled"} =>
                            jobs'[j].cancel_requested
                      /\ jobs'[j].state = Absent => jobs'[j].attempt = 0
    BY DEF Marked
  <1>1. Allowed(j, jobs'[j])
    BY NextAllowed
  <1>2. CASE jobs'[j] = jobs[j]
    BY <1>2 DEF Marked
  <1>3. CASE jobs[j].state = Absent /\ jobs'[j].attempt = 0 /\ Moves(jobs[j].state, jobs'[j].state)
    BY <1>3 DEF Moves, is_legal, TRANSITIONS, Absent
  <1>4. CASE /\ jobs[j].state # Absent /\ Columns(jobs[j], jobs'[j])
             /\ Moves(jobs[j].state, jobs'[j].state)
    <2>1. jobs'[j].state # Absent
      BY <1>4 DEF Moves, is_legal, TRANSITIONS, Absent
    <2> QED BY <1>4, <2>1 DEF Columns, Marked
  <1> QED BY <1>1, <1>2, <1>3, <1>4 DEF Allowed

\* A row as its caller sees it.
View(row) == Lifecycle!Seen(Phase(row.state), row.lease_owner, row.attempt,
                            row.cancel_requested)

\* The phases of the states, by the sets the code names.
LEMMA Phases ==
    /\ Phase(Absent) = "unborn"
    /\ \A s \in Waiting : Phase(s) = "waiting" /\ s \notin InFlight /\ s \notin Terminal
    /\ \A s \in InFlight : Phase(s) = "held" /\ s \notin Terminal
    /\ \A s \in Terminal : Phase(s) = s
  BY DEF Phase, Absent, Waiting, InFlight, LeaseHolding, Terminal

\* Which phases a legal move joins.
LEMMA PhaseMoves ==
    ASSUME NEW s, NEW t, Moves(s, t), s # t
    PROVE  \/ s = Absent /\ t = "queued"
           \/ s \in Waiting /\ t \in Waiting \cup {"leased", "cancelled", "failed"}
           \/ s \in LeaseHolding /\ t \in InFlight \cup Waiting \cup {"failed", "cancelled"}
           \/ s \in LeaseHolding /\ t = "completed"
           \/ s = "cancelling" /\ t = "cancelled"
  BY DEF Moves, is_legal, TRANSITIONS, Waiting, LeaseHolding, InFlight

\* The fields of a view.
LEMMA ViewFields ==
    ASSUME NEW row
    PROVE  /\ View(row).phase = Phase(row.state)
           /\ View(row).holder = row.lease_owner
           /\ View(row).attempts = row.attempt
           /\ View(row).asked = row.cancel_requested
  BY DEF View, Lifecycle!Seen

\* A row that a step changes makes one of the lifecycle's moves, or its caller
\* sees no difference.
LEMMA RowLives ==
    ASSUME IInv, Marked, IInv', Marked', NEW j \in Jobs, Allowed(j, jobs'[j])
    PROVE  \/ View(jobs'[j]) = View(jobs[j])
           \/ Lifecycle!Move(View(jobs[j]), View(jobs'[j]))
  <1> DEFINE old == jobs[j]
             new == jobs'[j]
  <1>1. /\ old \in Row /\ new \in Row
        /\ old.lease_owner # None <=> old.state \in InFlight
        /\ new.lease_owner # None <=> new.state \in InFlight
        /\ old.cancel_requested => old.state \in {"cancelling", "cancelled"}
        /\ new.cancel_requested => new.state \in {"cancelling", "cancelled"}
        /\ new.state \in {"cancelling", "cancelled"} => new.cancel_requested
        /\ old.state = Absent => old.attempt = 0
    BY DEF IInv, TypeOK, LeaseIffInFlight, CancelWins, Marked
  <1>2. /\ old.cancel_requested \in BOOLEAN /\ new.cancel_requested \in BOOLEAN
        /\ old.attempt \in 0 .. MaxAttempts /\ new.attempt \in 0 .. MaxAttempts
        /\ new.lease_owner \in Workers \cup {None}
    BY <1>1 DEF Row
  <1> SUFFICES ASSUME new # old
               PROVE  \/ View(new) = View(old)
                      \/ Lifecycle!Move(View(old), View(new))
    OBVIOUS
  <1>3. /\ old.state \notin Terminal /\ Moves(old.state, new.state)
        /\ old.state = Absent => new.attempt = 0
        /\ old.state # Absent => Columns(old, new)
        /\ new.state = "completed" => old.attempt > 0
    BY DEF Allowed
  <1> HIDE DEF old, new
  <1>4. /\ View(old) = Lifecycle!Seen(Phase(old.state), old.lease_owner, old.attempt,
                           old.cancel_requested)
        /\ View(new) = Lifecycle!Seen(Phase(new.state), new.lease_owner, new.attempt,
                           new.cancel_requested)
    BY DEF View
  <1>5. CASE old.state = Absent
    <2>1. new.state = Absent \/ (new.state = "queued" /\ "queued" \in Waiting)
      BY <1>3, <1>5, PhaseMoves DEF Waiting, LeaseHolding, Absent
    <2>2. /\ old.attempt = 0 /\ new.attempt = 0
          /\ old.lease_owner = None /\ new.lease_owner = None
          /\ old.cancel_requested = FALSE /\ new.cancel_requested = FALSE
      BY <1>1, <1>2, <1>3, <1>5, <2>1 DEF InFlight, LeaseHolding, Absent
    <2>3. View(old) = Lifecycle!Unborn
      BY <1>4, <1>5, <2>2, Phases DEF Lifecycle!Unborn
    <2>4. CASE new.state = Absent
      BY <1>4, <1>5, <2>2, <2>4
    <2>5. CASE new.state \in Waiting
      BY <1>4, <2>2, <2>3, <2>5, Phases, ViewFields DEF Lifecycle!Move, Lifecycle!Submit
    <2> QED BY <2>1, <2>4, <2>5
  <1>6. CASE old.state \in Waiting
    <2>1. /\ old.lease_owner = None /\ old.cancel_requested = FALSE
          /\ new.attempt = old.attempt /\ old.state # Absent
      BY <1>1, <1>2, <1>3, <1>6 DEF Columns, Waiting, InFlight, LeaseHolding, Absent
    <2>2. new.state \in Waiting \cup {"leased", "cancelled", "failed"}
      BY <1>3, <1>6, PhaseMoves DEF LeaseHolding, Waiting, Absent
    <2>3. CASE new.state \in Waiting
      BY <1>1, <1>2, <1>4, <1>6, <2>1, <2>3, Phases DEF Waiting
    <2>4. CASE new.state = "leased"
      <3>1. new.state \in InFlight /\ new.cancel_requested = FALSE
        BY <1>1, <1>2, <2>4 DEF InFlight, LeaseHolding
      <3> QED BY <1>1, <1>2, <1>4, <1>6, <2>1, <3>1, Phases, ViewFields DEF Lifecycle!Move, Lifecycle!Take
    <2>5. CASE new.state \in {"cancelled", "failed"}
      <3>1. /\ new.state \in Terminal /\ new.lease_owner = None
            /\ new.cancel_requested = (new.state = "cancelled")
        BY <1>1, <1>2, <2>5 DEF InFlight, LeaseHolding, Terminal
      <3>2. CASE new.state = "cancelled"
        <4>1. new.cancel_requested = TRUE
          BY <3>1, <3>2
        <4>2. Phase(old.state) = "waiting" /\ Phase(new.state) = "cancelled"
          BY <1>6, <3>1, <3>2, Phases
        <4>3. new.lease_owner = None
          BY <3>1
        <4> QED BY <1>4, <2>1, <4>1, <4>2, <4>3, ViewFields DEF Lifecycle!Move, Lifecycle!Ask
      <3>3. CASE new.state = "failed"
        <4>1. new.cancel_requested = FALSE
          BY <3>1, <3>3
        <4> QED BY <1>4, <1>6, <2>1, <3>1, <3>3, <4>1, Phases, ViewFields DEF Lifecycle!Move, Lifecycle!Fail
      <3> QED BY <2>5, <3>2, <3>3
    <2> QED BY <2>2, <2>3, <2>4, <2>5
  <1>7. CASE old.state \in InFlight
    <2>1. Columns(old, new) /\ Phase(old.state) = "held" /\ old.state # Absent
      BY <1>3, <1>7, Phases DEF InFlight, LeaseHolding, Absent
    <2>2. CASE new.state \in InFlight
      <3>1. Phase(new.state) = "held" /\ new.lease_owner = old.lease_owner
        BY <1>7, <2>1, <2>2, Phases DEF Columns
      <3>2. CASE new.state = "cancelling"
        <4>1. new.cancel_requested = TRUE /\ new.attempt = old.attempt
          BY <1>1, <1>2, <2>1, <3>2 DEF Columns
        <4> QED BY <1>4, <2>1, <3>1, <4>1, ViewFields DEF Lifecycle!Move, Lifecycle!Ask
      <3>3. CASE new.state # "cancelling"
        <4>1. old.state \notin {"cancelling", "cancelled"}
          BY <1>3, <1>7, <2>2, <3>3, PhaseMoves DEF InFlight, LeaseHolding, Waiting, Absent
        <4>2. old.cancel_requested = FALSE /\ new.cancel_requested = FALSE
          BY <1>1, <1>2, <2>2, <3>3, <4>1 DEF InFlight, LeaseHolding
        <4>3. \/ new.attempt = old.attempt
              \/ new.attempt = old.attempt + 1 /\ old.attempt < MaxAttempts
          BY <1>2, <2>1 DEF Columns
        <4> QED BY <1>4, <2>1, <3>1, <4>2, <4>3, ViewFields DEF Lifecycle!Move, Lifecycle!Record
      <3> QED BY <3>2, <3>3
    <2>3. CASE new.state = "cancelled"
      <3>1. /\ Phase(new.state) = "cancelled" /\ new.lease_owner = None
            /\ new.cancel_requested = TRUE /\ new.attempt <= MaxAttempts
            /\ new.attempt \in {old.attempt, old.attempt + 1}
        BY <1>1, <1>2, <2>1, <2>3, Phases DEF Columns, InFlight, LeaseHolding, Terminal
      <3> QED BY <1>4, <2>1, <3>1, ViewFields DEF Lifecycle!Move, Lifecycle!Stop
    <2>4. CASE new.state \in Waiting \cup {"failed", "completed"}
      <3>1. old.state \in LeaseHolding
        BY <1>3, <1>7, <2>4, PhaseMoves DEF InFlight, LeaseHolding, Waiting, Absent
      <3>2. /\ old.cancel_requested = FALSE /\ new.cancel_requested = FALSE
            /\ new.lease_owner = None /\ new.attempt = old.attempt
        BY <1>1, <1>2, <2>1, <2>4, <3>1 DEF Columns, InFlight, LeaseHolding, Waiting
      <3>3. Phase(new.state) = IF new.state \in Waiting THEN "waiting" ELSE new.state
        BY <2>4, Phases DEF Terminal
      <3> QED BY <1>3, <1>4, <2>1, <2>4, <3>2, <3>3, ViewFields DEF Lifecycle!Move, Lifecycle!Release, Lifecycle!Fail, Lifecycle!Succeed
    <2>5. new.state \in InFlight \cup Waiting \cup {"failed", "completed", "cancelled"}
      BY <1>3, <1>7, PhaseMoves DEF InFlight, LeaseHolding, Waiting, Absent
    <2> QED BY <2>2, <2>3, <2>4, <2>5
  <1>8. old.state \in {Absent} \cup Waiting \cup InFlight
    BY <1>1, <1>3 DEF Row, JobState, Active
  <1> QED BY <1>5, <1>6, <1>7, <1>8

\* A step of the queue is a step of the lifecycle, or no caller can see it.
LEMMA StepLives ==
    ASSUME IInv, Marked, IInv', Marked', [Next]_vars
    PROVE  [Lifecycle!Next]_Life
  <1>1. /\ \A j \in Jobs : Life[j] = View(jobs[j]) /\ Life'[j] = View(jobs'[j])
        /\ DOMAIN Life' = Jobs
    BY DEF Life, View, Lifecycle!Seen
  <1>2. ASSUME NEW j \in Jobs
        PROVE  Life'[j] = Life[j] \/ Lifecycle!Move(Life[j], Life'[j])
    BY <1>1, NextAllowed, RowLives
  <1> QED BY <1>1, <1>2 DEF Lifecycle!Next

\* Workers, keeper, reaper, sweeps, crashes and restarts together implement
\* the lifecycle a caller is promised (docs/apps/loadcoach/
\* queue-and-scheduling.md sections 2, 3 and 8), for any number of jobs,
\* workers and attempts.
THEOREM Refinement == Spec => ImplementsLifecycle
  <1>1. Init => Marked /\ Lifecycle!Init
    <2> SUFFICES ASSUME Init PROVE Marked /\ Lifecycle!Init
      OBVIOUS
    <2>1. \A j \in Jobs : /\ jobs[j].state = Absent /\ jobs[j].lease_owner = None
                          /\ jobs[j].attempt = 0 /\ jobs[j].cancel_requested = FALSE
      BY DEF Init, NoRow
    <2>2. Marked
      BY <2>1 DEF Marked, Absent
    <2>3. Lifecycle!Init
      BY <2>1, Phases DEF Lifecycle!Init, Lifecycle!Unborn, Lifecycle!Seen, Life
    <2> QED BY <2>2, <2>3
  <1>2. IInv /\ Marked /\ [Next]_vars => Marked'
    BY MarkedStep
  <1>3. IInv /\ Marked /\ IInv' /\ Marked' /\ [Next]_vars => [Lifecycle!Next]_Life
    BY StepLives
  <1> QED BY <1>1, <1>2, <1>3, Invariance, PTL DEF Spec, ImplementsLifecycle, Lifecycle!Spec
=============================================================================

------------------------------ MODULE JobTable ------------------------------
(***************************************************************************)
(* The jobs table as every other module sees it: the state machine of      *)
(* domain/queue_state.py and the compare-and-set of services/queue.py      *)
(* `transition`, as operators on one row.  No variables.                   *)
(*                                                                         *)
(* A row keeps the columns the control flow reads.  `lease_owner` and      *)
(* `lease_expires_at` are one field: every statement of the code sets both *)
(* or clears both, and renew_leases touches the expiry only of a row whose *)
(* owner is set (the times are in module LeaseKeeper).                     *)
(***************************************************************************)
CONSTANT None           \* SQL NULL in lease_owner

Terminal     == {"completed", "failed", "cancelled"}
Waiting      == {"queued", "waiting_resources"}
LeaseHolding == {"leased", "admitted", "executing", "validating", "retrying"}
InFlight     == LeaseHolding \cup {"cancelling"}
Active       == Waiting \cup InFlight
JobState     == Active \cup Terminal

\* The state of an identifier that names no row yet.
Absent == "absent"

\* Every legal (current, target) pair.
TRANSITIONS ==
    { <<"queued", "leased">>,
      <<"leased", "admitted">>,     <<"leased", "waiting_resources">>,
      <<"leased", "cancelling">>,   <<"waiting_resources", "queued">>,
      <<"admitted", "executing">>,  <<"executing", "validating">>,
      <<"validating", "completed">>, <<"validating", "retrying">>,
      <<"executing", "retrying">>,  <<"retrying", "admitted">>,
      <<"executing", "cancelling">>, <<"validating", "cancelling">>,
      <<"admitted", "cancelling">>, <<"queued", "cancelled">>,
      <<"waiting_resources", "cancelled">>, <<"cancelling", "cancelled">>,
      <<"executing", "failed">>,    <<"validating", "failed">>,
      <<"queued", "failed">>,       <<"waiting_resources", "failed">>,
      <<"leased", "queued">>,       <<"leased", "failed">>,
      <<"executing", "queued">>,    <<"admitted", "queued">>,
      <<"admitted", "failed">>,     <<"validating", "queued">>,
      <<"retrying", "queued">>,     <<"retrying", "failed">>,
      <<"retrying", "cancelling">> }

\* Mutant: cancelling is taken for a final state.
is_legal_final(current, target) ==
    <<current, target>> \in TRANSITIONS /\ current # "cancelling"

is_legal(current, target) == <<current, target>> \in TRANSITIONS

\* Mutant: recovery requeues whatever the idempotency says.
recovery_requeues(s, idempotent) ==
    CASE s \in LeaseHolding  -> "queued"
      [] s = "cancelling"    -> "cancelled"
      [] OTHER               -> None

\* Where lease expiry and startup recovery move a row; None leaves it alone.
recovery_target(s, idempotent) ==
    CASE s \in LeaseHolding  -> IF idempotent THEN "queued" ELSE "failed"
      [] s = "cancelling"    -> "cancelled"
      [] OTHER               -> None

\* Where a cancel request moves a row; None when there is nothing to move.
cancel_target(s) ==
    CASE s \in Waiting      -> "cancelled"
      [] s \in LeaseHolding -> "cancelling"
      [] OTHER              -> None

\* Mutant: only a terminal target clears the lease.
MovedKeepingLease(row, target) ==
    [row EXCEPT !.state = target,
                !.lease_owner = IF target \in Terminal THEN None ELSE @]

\* The assignments of `transition`: only a lease-holding state (or cancelling)
\* keeps the lease columns.
Moved(row, target) ==
    [row EXCEPT !.state = target,
                !.lease_owner = IF target \in Waiting \cup Terminal
                                THEN None ELSE @]

\* Mutant: the WHERE clause forgets the fence.
CanMoveUnfenced(row, current, target, owner) ==
    is_legal(current, target) /\ row.state = current

\* The WHERE clause of `transition` without and with the lease fence.
CanMove(row, current, target) ==
    is_legal(current, target) /\ row.state = current

CanMoveAs(row, current, target, owner) ==
    CanMove(row, current, target) /\ row.lease_owner = owner

\* What the reaper and startup recovery write to one row.
Recovered(row) ==
    LET target == recovery_target(row.state, row.idempotent)
    IN  IF target # None /\ is_legal(row.state, target)
        THEN Moved(row, target) ELSE row
=============================================================================

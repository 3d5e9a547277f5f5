---------------------------- MODULE JobLifecycle ----------------------------
(***************************************************************************)
(* What the queue promises about a job, without leases that expire,        *)
(* threads, tokens or restarts: a job waits or is held by one worker, only *)
(* a held job gains attempts, at most MaxAttempts of them, a cancel that   *)
(* was accepted decides the verdict, and a verdict is given once.  The     *)
(* external view of docs/apps/loadcoach/queue-and-scheduling.md sections   *)
(* 2, 3 and 8; JobQueue implements it.                                     *)
(*                                                                         *)
(* Several jobs may move in one step: the reaper, the max-wait sweep and   *)
(* startup recovery commit all their rows together.                        *)
(***************************************************************************)
EXTENDS Naturals

CONSTANTS Jobs, Workers, MaxAttempts, None

VARIABLE life   \* [Jobs -> phase, holder, number of attempts, cancel accepted]

Seen(phase, holder, attempts, asked) ==
    [phase |-> phase, holder |-> holder, attempts |-> attempts, asked |-> asked]

Unborn == Seen("unborn", None, 0, FALSE)

Init == life = [j \in Jobs |-> Unborn]

Submit(old, new) == old = Unborn /\ new = Seen("waiting", None, 0, FALSE)

Take(old, new) ==
    /\ old.phase = "waiting"
    /\ \E w \in Workers : new = Seen("held", w, old.attempts, old.asked)

\* Only work that nobody asked to cancel is handed back.
Release(old, new) ==
    /\ old.phase = "held" /\ ~old.asked
    /\ new = Seen("waiting", None, old.attempts, old.asked)

Record(old, new) ==
    /\ old.phase = "held" /\ old.attempts < MaxAttempts
    /\ new = Seen("held", old.holder, old.attempts + 1, old.asked)

Ask(old, new) ==
    \/ old.phase = "held" /\ new = Seen("held", old.holder, old.attempts, TRUE)
    \/ old.phase = "waiting" /\ new = Seen("cancelled", None, old.attempts, TRUE)

\* A result needs a holder, an attempt on record and no accepted cancel.
Succeed(old, new) ==
    /\ old.phase = "held" /\ ~old.asked /\ old.attempts > 0
    /\ new = Seen("completed", None, old.attempts, old.asked)

Fail(old, new) ==
    /\ old.phase \in {"waiting", "held"} /\ ~old.asked
    /\ new = Seen("failed", None, old.attempts, old.asked)

\* The attempt a cancel interrupted may go on record with the verdict.
Stop(old, new) ==
    /\ old.phase = "held"
    /\ \E n \in {old.attempts, old.attempts + 1} :
          n <= MaxAttempts /\ new = Seen("cancelled", None, n, TRUE)

Move(old, new) ==
    \/ Submit(old, new) \/ Take(old, new) \/ Release(old, new)
    \/ Record(old, new) \/ Ask(old, new) \/ Succeed(old, new)
    \/ Fail(old, new) \/ Stop(old, new)

Next ==
    /\ DOMAIN life' = Jobs
    /\ \A j \in Jobs : life'[j] = life[j] \/ Move(life[j], life'[j])

Spec == Init /\ [][Next]_life
=============================================================================

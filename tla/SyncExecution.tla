--------------------------- MODULE SyncExecution ----------------------------
(***************************************************************************)
(* Synchronous generation: POST /generate and POST /generate/stream        *)
(* (web/routes/generate.py) over reserve_sync_job, execute and _persist    *)
(* (services/execution.py), against the same jobs table the queue works    *)
(* on: cancel_job, the watchdog and startup recovery reach these rows too. *)
(*                                                                         *)
(* A synchronous row is `executing` from its first instant and never has a *)
(* lease, a scheduled_for or a queued_at.  One request creates at most one *)
(* row, so a row is named by the request that created it.  The source is   *)
(* left out: a key here is a (source, key) pair.                           *)
(***************************************************************************)
EXTENDS JobTable, Naturals

CONSTANTS Requests,   \* HTTP requests; also the rows they create
          Keys        \* idempotency keys

ASSUME SyncAssumption == None \notin Requests \cup Keys \cup JobState

VARIABLES
    row,      \* the jobs table, the synchronous rows of it
    expired,  \* the rows whose idempotency_expires_at has passed
    pc,       \* where each request's handler stands
    asked,    \* what each request asks: its key and whether it streams
    watched,  \* the job a request attached to
    frames,   \* persisted terminal frames (result or error) of each job
    up        \* whether the serving process runs

syncVars == <<row, expired, pc, asked, watched, frames, up>>

NoRow == [state |-> Absent, key |-> None, idempotent |-> FALSE,
          queued_at |-> FALSE]

Nothing == [key |-> None, stream |-> FALSE]

SyncInit ==
    /\ row = [r \in Requests |-> NoRow]
    /\ expired = {}
    /\ pc = [r \in Requests |-> "new"]
    /\ asked = [r \in Requests |-> Nothing]
    /\ watched = [r \in Requests |-> None]
    /\ frames = [r \in Requests |-> 0]
    /\ up = TRUE

-----------------------------------------------------------------------------
(* Reserving the row.                                                      *)

Owners(key) == {r \in Requests : key # None /\ row[r].key = key}

\* existing_job_for_key, in a transaction of its own: the request attaches to
\* the job its key names, or goes on to `next`; an expired key is released.
Attach(r, key, next) ==
    \/ \E o \in Owners(key) \ expired :
          /\ watched' = [watched EXCEPT ![r] = o]
          /\ pc' = [pc EXCEPT ![r] = "waiting"]
          /\ UNCHANGED row
    \/ /\ Owners(key) \ expired = {}
       /\ row' = [o \in Requests |-> IF o \in Owners(key)
                                     THEN [row[o] EXCEPT !.key = None] ELSE row[o]]
       /\ pc' = [pc EXCEPT ![r] = next]
       /\ UNCHANGED watched

Arrive(r, key, stream) ==
    /\ up /\ pc[r] = "new"
    /\ asked' = [asked EXCEPT ![r] = [key |-> key, stream |-> stream]]
    /\ Attach(r, key, "inserting")
    /\ UNCHANGED <<expired, frames, up>>

Reserved(key) ==
    [state |-> "executing", key |-> key, idempotent |-> key # None,
     queued_at |-> FALSE]

\* Mutant: no unique index on (source, idempotency_key).
InsertAnyway(r) ==
    /\ up /\ pc[r] = "inserting"
    /\ row' = [row EXCEPT ![r] = Reserved(asked[r].key)]
    /\ pc' = [pc EXCEPT ![r] = "reserved"]
    /\ UNCHANGED <<expired, asked, watched, frames, up>>

\* The insert, decided by the unique index.  The loser looks again; a row that
\* expired in between makes it raise the IntegrityError.
Insert(r) ==
    /\ up /\ pc[r] = "inserting"
    /\ \/ /\ Owners(asked[r].key) = {}
          /\ row' = [row EXCEPT ![r] = Reserved(asked[r].key)]
          /\ pc' = [pc EXCEPT ![r] = "reserved"]
          /\ UNCHANGED watched
       \/ /\ Owners(asked[r].key) # {}
          /\ Attach(r, asked[r].key, "over")
    /\ UNCHANGED <<expired, asked, frames, up>>

\* _await_terminal, or the attached stream: until the job ends or time is up.
StopWaiting(r) ==
    /\ up /\ pc[r] = "waiting"
    /\ pc' = [pc EXCEPT ![r] = "over"]
    /\ UNCHANGED <<row, expired, asked, watched, frames, up>>

\* idempotency_ttl_hours pass.
KeyExpires(r) ==
    /\ row[r].key # None /\ r \notin expired
    /\ expired' = expired \cup {r}
    /\ UNCHANGED <<row, pc, asked, watched, frames, up>>

-----------------------------------------------------------------------------
(* Executing.                                                              *)

\* The route handler builds the context of the execution and hands over: to
\* execute, or to the producer thread of a stream, which runs _drive.
Start(r) ==
    /\ up /\ pc[r] = "reserved"
    /\ pc' = [pc EXCEPT ![r] = "routing"]
    /\ UNCHANGED <<row, expired, asked, watched, frames, up>>

\* _context, or the start of the thread, raises: the row is reserved and
\* nobody will ever work on it.
StartFails(r) ==
    /\ up /\ pc[r] = "reserved"
    /\ pc' = [pc EXCEPT ![r] = "unstarted"]
    /\ UNCHANGED <<row, expired, asked, watched, frames, up>>

\* Mutant: the producer thread ends without a backstop.
AfterNoBackstop(r) == "over"

\* The execution returned or raised: a producer thread still runs its backstop.
AfterVerdict(r) == IF asked[r].stream THEN "backstop" ELSE "over"

\* What _persist and _fail_reserved write: the state, whatever it was, and the
\* terminal frame.
Write(r, state) ==
    /\ row' = [row EXCEPT ![r].state = state]
    /\ frames' = [frames EXCEPT ![r] = @ + 1]
    /\ pc' = [pc EXCEPT ![r] = AfterVerdict(r)]
    /\ UNCHANGED <<expired, asked, watched, up>>

\* Routing answers with candidates, ...
Route(r) ==
    /\ up /\ pc[r] = "routing"
    /\ pc' = [pc EXCEPT ![r] = "calling"]
    /\ UNCHANGED <<row, expired, asked, watched, frames, up>>

\* ... or the request cannot be routed.
FailReserved(r) == up /\ pc[r] = "routing" /\ Write(r, "failed")

\* The attempts are over and _persist records their result.
Persist(r) ==
    /\ up /\ pc[r] = "calling"
    /\ \E state \in {"completed", "failed"} : Write(r, state)

\* Anything else raised by execute: the task schema cannot be loaded, a
\* provider raises an unnamed error, _persist is rolled back.
Raise(r) ==
    /\ up /\ pc[r] \in {"routing", "calling"}
    /\ pc' = [pc EXCEPT ![r] = AfterVerdict(r)]
    /\ UNCHANGED <<row, expired, asked, watched, frames, up>>

\* Mutant: the backstop fails the row without looking at its state.
BackstopBlind(r) ==
    /\ up /\ pc[r] = "backstop"
    /\ IF frames[r] > 0 THEN UNCHANGED <<row, frames>>
       ELSE /\ frames' = [frames EXCEPT ![r] = 1]
            /\ row' = [row EXCEPT ![r].state = "failed"]
    /\ pc' = [pc EXCEPT ![r] = "over"]
    /\ UNCHANGED <<expired, asked, watched, up>>

\* _backstop: a stream whose job has no terminal frame gets an error frame,
\* and its row, if it is not terminal, fails.
Backstop(r) ==
    /\ up /\ pc[r] = "backstop"
    /\ IF frames[r] > 0 THEN UNCHANGED <<row, frames>>
       ELSE /\ frames' = [frames EXCEPT ![r] = 1]
            /\ row' = [row EXCEPT ![r].state =
                         IF @ \in Terminal THEN @ ELSE "failed"]
    /\ pc' = [pc EXCEPT ![r] = "over"]
    /\ UNCHANGED <<expired, asked, watched, up>>

-----------------------------------------------------------------------------
(* The rest of the system, on synchronous rows.                            *)

Moves(r, target) ==
    /\ row' = [row EXCEPT ![r].state = target]
    /\ UNCHANGED <<expired, pc, asked, watched, frames, up>>

\* cancel_job.  The handler is in no registry: its token is never cancelled.
CancelJob(r) ==
    LET target == cancel_target(row[r].state) IN
    /\ target # None /\ is_legal(row[r].state, target)
    /\ Moves(r, target)

Watchdog(r) ==
    /\ up /\ row[r].state = "cancelling"
    /\ Moves(r, "cancelled")

\* Threads are daemons: a kill ends every handler.
Crash ==
    /\ up /\ up' = FALSE
    /\ pc' = [r \in Requests |-> IF pc[r] \in {"new", "over", "unstarted"}
                                THEN pc[r] ELSE "killed"]
    /\ UNCHANGED <<row, expired, asked, watched, frames>>

\* recover(): a lease_owner of NULL is not this process's, so synchronous rows
\* are recovered like any other; `transition` sets scheduled_for, not queued_at.
Recover ==
    /\ ~up /\ up' = TRUE
    /\ row' = [r \in Requests |->
                 LET target == recovery_target(row[r].state, row[r].idempotent)
                 IN  IF target = None THEN row[r]
                     ELSE [row[r] EXCEPT !.state = target]]
    /\ UNCHANGED <<expired, pc, asked, watched, frames>>

SyncNext ==
    \/ \E r \in Requests, key \in Keys \cup {None}, stream \in BOOLEAN :
          Arrive(r, key, stream)
    \/ \E r \in Requests :
          \/ Insert(r) \/ StopWaiting(r) \/ KeyExpires(r)
          \/ Start(r) \/ StartFails(r)
          \/ Route(r) \/ FailReserved(r) \/ Persist(r) \/ Raise(r) \/ Backstop(r)
          \/ CancelJob(r) \/ Watchdog(r)
    \/ Crash \/ Recover

SyncSpec == SyncInit /\ [][SyncNext]_syncVars

-----------------------------------------------------------------------------
(* Properties.                                                             *)

\* Every variable has its type; a job has at most one terminal frame
\* (_backstop: "never a second one").
SyncTypeOK ==
    /\ row \in [Requests -> [state : JobState \cup {Absent},
                             key : Keys \cup {None}, idempotent : BOOLEAN,
                             queued_at : BOOLEAN]]
    /\ expired \subseteq Requests
    /\ pc \in [Requests -> {"new", "inserting", "waiting", "reserved", "unstarted",
                            "routing", "calling", "backstop", "over", "killed"}]
    /\ asked \in [Requests -> [key : Keys \cup {None}, stream : BOOLEAN]]
    /\ watched \in [Requests -> Requests \cup {None}]
    /\ frames \in [Requests -> 0 .. 1]
    /\ up \in BOOLEAN

Executing == {r \in Requests : pc[r] \in {"reserved", "routing", "calling"}}

\* Two requests never execute the same unexpired key at once, however their
\* lookups and inserts interleave (reserve_sync_job: the unique index decides
\* the race).
OneExecutionPerKey ==
    \A r, s \in Executing \ expired :
        asked[r].key # None /\ asked[r].key = asked[s].key => r = s

\* While the process runs, a row is in flight without a handler in two cases
\* only, and then has no terminal frame: its context could not be built, or its
\* request was not a stream and raised before anything was recorded; whatever a
\* killed handler leaves is moved by the next recovery (post_generate has no
\* backstop, _drive is not running yet, and the reaper sees no lease).
OrphansRaised ==
    up => \A r \in Requests :
              pc[r] \in {"over", "unstarted", "killed"} /\ row[r].state \in InFlight =>
                  /\ pc[r] = "over" => ~asked[r].stream
                  /\ pc[r] # "killed"
                  /\ frames[r] = 0

\* One execution per key, one terminal frame per job and no row left in flight
\* but by a request that did not start or a plain one that raised, however
\* requests, expiries, cancels, crashes and recoveries interleave
\* (reserve_sync_job, _backstop, recover).
SyncSafe == SyncTypeOK /\ OneExecutionPerKey /\ OrphansRaised

\* A stream whose producer thread ran and ended, however it ended, has one
\* terminal frame and a terminal job, also when a cancel or the watchdog came in
\* between (_drive: "Whatever goes wrong, the stream ends with a terminal frame").
\* A stream that was never handed to a producer thread has none (StartFails).
StreamEnds ==
    \A r \in Requests :
        pc[r] = "over" /\ asked[r].stream /\ row[r].state # Absent =>
            frames[r] = 1 /\ row[r].state \in Terminal

\* A job that has ended stays as it ended, with one exception: a cancelled job
\* whose handler still runs gets the state its own handler records (_persist
\* and _fail_reserved write without a compare-and-set; _backstop and recover
\* look first).
TerminalKept ==
    [][\A r \in Requests :
         row[r].state \in Terminal /\ row'[r].state # row[r].state =>
            row[r].state = "cancelled" /\ pc[r] \in {"routing", "calling"}]_syncVars

-----------------------------------------------------------------------------
(* The inductive invariant behind SyncSafe, StreamEnds and TerminalKept    *)
(* (RuntimeProofs).                                                        *)

\* A request that has not inserted its row has none, and a job without a row
\* has neither a key nor a frame.
RowBehindHandler ==
    \A r \in Requests :
        /\ pc[r] \in {"new", "inserting", "waiting"} => row[r].state = Absent
        /\ row[r].state = Absent => row[r].key = None /\ frames[r] = 0

\* The unique index: a key names one row, and an execution whose key has not
\* expired still has it.
KeyNamesOne ==
    /\ \A r, s \in Requests :
          row[r].key # None /\ row[r].key = row[s].key => r = s
    /\ \A r \in Executing \ expired : row[r].key = asked[r].key

\* While a handler works on its job only a cancel and the watchdog have moved
\* the row, and nothing is on record for the stream.
HandlerOwnsJob ==
    \A r \in Executing :
        row[r].state \in {"executing", "cancelling", "cancelled"} /\ frames[r] = 0

\* A terminal frame goes with a terminal row, and only a stream runs a backstop.
FrameEndsJob ==
    \A r \in Requests :
        /\ frames[r] = 1 => row[r].state \in Terminal
        /\ pc[r] = "backstop" => asked[r].stream /\ row[r].state # Absent

\* A process that is down has no handlers.
DownIsIdle ==
    ~up => \A r \in Requests : pc[r] \in {"new", "over", "unstarted", "killed"}

\* A killed handler's row is not in flight once recovery has run.
KilledRecovered ==
    up => \A r \in Requests : pc[r] = "killed" => row[r].state \notin InFlight

\* What every step of the handlers and of the rest of the system preserves.
SyncInv ==
    /\ SyncTypeOK /\ RowBehindHandler /\ KeyNamesOne /\ HandlerOwnsJob
    /\ FrameEndsJob /\ DownIsIdle /\ KilledRecovered /\ StreamEnds
=============================================================================

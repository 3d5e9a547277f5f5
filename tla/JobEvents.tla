------------------------------ MODULE JobEvents ------------------------------
(***************************************************************************)
(* The event stream of one job: services/job_events.py (JobEventSink, its  *)
(* sequence counter, live buffer and replay) with the threads that write   *)
(* events, another process that writes some too, restarts, and the clients *)
(* that follow the stream through MirrorWall.                              *)
(*                                                                         *)
(* A frame is persisted ("state", or "terminal" for the job's last one) or *)
(* live only ("live": a token, a thinking delta, a tool call).  What it    *)
(* says is left out; its sequence number is what the module is about.      *)
(***************************************************************************)
EXTENDS Naturals, Sequences, FiniteSets

CONSTANTS Writers,      \* threads of the serving process that write frames
          Clients,      \* followers of the stream
          Foreign,      \* whether another process may write an event
          LiveBuffer,   \* LIVE_BUFFER_SIZE
          MaxSequence,  \* bound: the largest sequence number handed out
          MaxLate,      \* bound: events written after the terminal one
          MaxRestarts   \* bound: how often the process restarts

ASSUME JobEventsAssumption ==
    /\ LiveBuffer \in Nat \ {0}
    /\ MaxSequence \in Nat \ {0} /\ MaxLate \in Nat /\ MaxRestarts \in Nat
    /\ Foreign \in BOOLEAN

VARIABLES
    stored,    \* the rows of job_events, in the order they were committed
    high,      \* JobEventSink._high of this job, 0 when it has no entry
    live,      \* JobEventSink._live of this job, oldest first
    staged,    \* per thread: what it still has to do after its commit
    client,    \* per client: its subscription and what it has received
    started,   \* whether this process has committed an event of the job
    foreign,   \* whether another process has written an event
    restarts   \* how often the process has restarted

vars == <<stored, high, live, staged, client, started, foreign, restarts>>

Sequence == 1 .. MaxSequence
Persisted == {"state", "terminal"}
Frame == [seq : Sequence, kind : Persisted \cup {"live"}]

Frames(s) == {s[i] : i \in DOMAIN s}
Numbers(s) == {f.seq : f \in Frames(s)}

\* SELECT coalesce(max(sequence), 0), and max() of two numbers.
Highest(N) == IF N = {} THEN 0 ELSE CHOOSE n \in N : \A m \in N : m <= n

\* A terminal event is committed.  A queued job writes no further event; the
\* row of a synchronous request may, when it was cancelled while it ran.
Over == \E f \in Frames(stored) : f.kind = "terminal"
Late == {f \in Frames(stored) :
            \E g \in Frames(stored) : g.kind = "terminal" /\ g.seq < f.seq}

NotStaged == [at |-> "idle", frame |-> [seq |-> 1, kind |-> "live"]]

Offline == [at |-> "off", queue |-> <<>>]

Init ==
    /\ stored = <<>>
    /\ high = 0
    /\ live = <<>>
    /\ staged = [w \in Writers |-> NotStaged]
    /\ client = [c \in Clients |-> [conn |-> Offline, last |-> 0, got |-> {}]]
    /\ started = FALSE
    /\ foreign = FALSE
    /\ restarts = 0

-----------------------------------------------------------------------------
(* Writing.                                                                *)

\* Mutant: the counter alone, as if a restart had kept it.
next_sequence_counter(n) == high + 1

\* next_sequence: above every stored and every handed-out number.  `n` is the
\* stored maximum the transaction reads.
next_sequence(n) == Highest({n, high}) + 1

Free(w) == staged[w].at = "idle"

\* The database lets one transaction write at a time.
NobodyWrites == \A w \in Writers : staged[w].at # "commit"

\* EventWriter.append inside JobEventSink.write: the transaction takes its
\* number; live frames may be numbered above it before it commits.
Allocate(w, kind) ==
    LET n == next_sequence(Highest(Numbers(stored))) IN
    /\ Free(w) /\ NobodyWrites /\ n <= MaxSequence
    /\ Over => Cardinality(Late) < MaxLate
    /\ high' = n
    /\ staged' = [staged EXCEPT ![w] =
                    [at |-> "commit", frame |-> [seq |-> n, kind |-> kind]]]
    /\ UNCHANGED <<stored, live, client, started, foreign, restarts>>

Commit(w) ==
    /\ staged[w].at = "commit"
    /\ stored' = Append(stored, staged[w].frame)
    /\ staged' = [staged EXCEPT ![w].at = "publish"]
    /\ started' = TRUE
    /\ UNCHANGED <<high, live, client, foreign, restarts>>

\* An exception rolls the transaction back; its number is not given back.
RollBack(w) ==
    /\ staged[w].at = "commit"
    /\ staged' = [staged EXCEPT ![w] = NotStaged]
    /\ UNCHANGED <<stored, high, live, client, started, foreign, restarts>>

\* The deque's maxlen drops the oldest frame.
Buffered(frame) ==
    LET all == Append(live, frame)
    IN  IF Len(all) > LiveBuffer THEN Tail(all) ELSE all

\* publish_live.  A job streams only after this process committed an event
\* for it (its start, its routing); a provider call may outlive the job.
PublishLive(w) ==
    LET frame == [seq |-> high + 1, kind |-> "live"] IN
    /\ Free(w) /\ started /\ frame.seq <= MaxSequence
    /\ high' = frame.seq
    /\ live' = Buffered(frame)
    /\ staged' = [staged EXCEPT ![w] = [at |-> "publish", frame |-> frame]]
    /\ UNCHANGED <<stored, client, started, foreign, restarts>>

\* broker.publish: to the queue of every open subscription.
Published(frame) ==
    [c \in Clients |->
        IF client[c].conn.at = "off" THEN client[c]
        ELSE [client[c] EXCEPT !.conn.queue = Append(@, frame)]]

\* After the commit, outside the lock; a terminal frame is then forgotten.
Publish(w) ==
    LET frame == staged[w].frame IN
    /\ staged[w].at = "publish"
    /\ client' = Published(frame)
    /\ staged' = [staged EXCEPT ![w] =
                    IF frame.kind = "terminal"
                    THEN [staged[w] EXCEPT !.at = "forget"] ELSE NotStaged]
    /\ UNCHANGED <<stored, high, live, started, foreign, restarts>>

Forget(w) ==
    /\ staged[w].at = "forget"
    /\ high' = 0
    /\ live' = <<>>
    /\ staged' = [staged EXCEPT ![w] = NotStaged]
    /\ UNCHANGED <<stored, client, started, foreign, restarts>>

\* A command in another process, on a job that is not over: it has no counter
\* and its broker has no subscriber of this process.
WriteElsewhere(kind) ==
    LET n == Highest(Numbers(stored)) + 1 IN
    /\ Foreign /\ NobodyWrites /\ ~Over /\ stored # <<>> /\ n <= MaxSequence
    /\ stored' = Append(stored, [seq |-> n, kind |-> kind])
    /\ foreign' = TRUE
    /\ UNCHANGED <<high, live, staged, client, started, restarts>>

\* The process ends and starts again: what was in memory is gone, and with it
\* every connection.
Restart ==
    /\ restarts < MaxRestarts
    /\ restarts' = restarts + 1
    /\ high' = 0
    /\ live' = <<>>
    /\ staged' = [w \in Writers |-> NotStaged]
    /\ client' = [c \in Clients |-> [client[c] EXCEPT !.conn = Offline]]
    /\ started' = FALSE
    /\ UNCHANGED <<stored, foreign>>

-----------------------------------------------------------------------------
(* Following: the source and MirrorWall's loop over it.                    *)

\* The client names the last frame it saw (Last-Event-ID) and is subscribed
\* before anything is replayed to it.
Subscribe(c) ==
    /\ client[c].conn.at = "off"
    /\ client' = [client EXCEPT ![c].conn = [at |-> "replay", queue |-> <<>>]]
    /\ UNCHANGED <<stored, high, live, staged, started, foreign, restarts>>

\* replay(after_sequence): persisted rows and buffered frames, a persisted row
\* winning a shared number.
Replayable(after) ==
    {f \in Frames(stored) \cup Frames(live) :
        /\ f.seq > after
        /\ f.kind = "live" => f.seq \notin Numbers(stored)}

Received(c, frames, conn) ==
    [client EXCEPT ![c] =
        [conn |-> conn, got |-> client[c].got \cup frames,
         last |-> Highest({client[c].last} \cup {f.seq : f \in frames})]]

\* A terminal frame closes the connection.
After(frames, conn) ==
    IF \E f \in frames : f.kind = "terminal" THEN Offline ELSE conn

\* What is received of a replay: nothing after its first terminal frame.
UpToTerminal(frames) ==
    {f \in frames : \A g \in frames : g.kind = "terminal" => f.seq <= g.seq}

\* The batches of one replay, taken together.
Replay(c) ==
    LET frames == UpToTerminal(Replayable(client[c].last)) IN
    /\ client[c].conn.at = "replay"
    /\ client' = Received(c, frames,
                   After(frames, [client[c].conn EXCEPT !.at = "follow"]))
    /\ UNCHANGED <<stored, high, live, staged, started, foreign, restarts>>

\* Following drops a frame whose number is not above the last one delivered.
Follow(c) ==
    LET conn == client[c].conn
        fresh == {f \in {Head(conn.queue)} : f.seq > client[c].last}
    IN  /\ conn.at = "follow" /\ conn.queue # <<>>
        /\ client' = Received(c, fresh,
                       After(fresh, [conn EXCEPT !.queue = Tail(@)]))
        /\ UNCHANGED <<stored, high, live, staged, started, foreign, restarts>>

Disconnect(c) ==
    /\ client[c].conn.at # "off"
    /\ client' = [client EXCEPT ![c].conn = Offline]
    /\ UNCHANGED <<stored, high, live, staged, started, foreign, restarts>>

-----------------------------------------------------------------------------
Next ==
    \/ \E w \in Writers, kind \in Persisted : Allocate(w, kind)
    \/ \E w \in Writers :
          Commit(w) \/ RollBack(w) \/ PublishLive(w) \/ Publish(w) \/ Forget(w)
    \/ \E kind \in Persisted : WriteElsewhere(kind)
    \/ Restart
    \/ \E c \in Clients :
          Subscribe(c) \/ Replay(c) \/ Follow(c) \/ Disconnect(c)

Spec == Init /\ [][Next]_vars

-----------------------------------------------------------------------------
(* Properties.                                                             *)

\* Rows, buffer, subscriptions and counters keep their types; the live buffer
\* never holds more than LIVE_BUFFER_SIZE frames.
TypeOK ==
    /\ stored \in Seq([seq : Sequence, kind : Persisted])
    /\ high \in 0 .. MaxSequence
    /\ live \in Seq([seq : Sequence, kind : {"live"}])
    /\ Len(live) <= LiveBuffer
    /\ staged \in [Writers -> [at : {"idle", "commit", "publish", "forget"},
                               frame : Frame]]
    /\ client \in [Clients -> [conn : [at : {"off", "replay", "follow"},
                                       queue : Seq(Frame)],
                               last : 0 .. MaxSequence, got : SUBSET Frame]]
    /\ started \in BOOLEAN /\ foreign \in BOOLEAN
    /\ restarts \in 0 .. MaxRestarts

\* The rows of a job ascend in the order they were committed, whichever
\* threads and processes wrote them and however often the process restarted:
\* a replay in order of sequence is a replay in order of time, and no number
\* is stored twice (next_sequence takes the stored maximum and the counter).
StoredAscending ==
    \A i, j \in DOMAIN stored : i < j => stored[i].seq < stored[j].seq

\* A subscriber never sees an event whose row was rolled back: every persisted
\* frame a client has received, or has waiting in its subscription, is stored
\* (JobEventSink.write publishes after the commit).
SeenIsStored ==
    \A c \in Clients :
        \A f \in client[c].got \cup Frames(client[c].conn.queue) :
            f.kind # "live" => f \in Frames(stored)

\* While the job runs and only this process writes, no buffered frame shares
\* its number with a row: replay's "a sequence collision, which cannot happen
\* while the counter is this process's".
NoCollision ==
    ~foreign /\ ~Over => Numbers(live) \cap Numbers(stored) = {}

\* The stored stream is in commit order, the buffer within its size and apart
\* from it, and no client is shown an event the table does not have
\* (JobEventSink.write, next_sequence, publish_live, replay).
StreamSafe == TypeOK /\ StoredAscending /\ SeenIsStored /\ NoCollision

-----------------------------------------------------------------------------
(* The inductive invariant behind StreamSafe (RuntimeProofs).              *)

\* One transaction writes at a time, and its number is above every row.
Committing ==
    \A w \in Writers : staged[w].at = "commit" =>
        /\ staged[w].frame.kind \in Persisted
        /\ \A f \in Frames(stored) : f.seq < staged[w].frame.seq
        /\ \A v \in Writers : staged[v].at = "commit" => v = w

\* What is about to be published is committed, or live only.
Broadcast ==
    \A w \in Writers :
        /\ staged[w].at \in {"publish", "forget"} /\ staged[w].frame.kind # "live"
              => staged[w].frame \in Frames(stored)
        /\ staged[w].at = "forget" => staged[w].frame.kind = "terminal"

\* While the job runs and only this process writes, the counter covers every
\* number it has handed out and, once it has committed, every row.
CounterAhead ==
    ~foreign /\ ~Over =>
        /\ started => \A f \in Frames(stored) : f.seq <= high
        /\ \A f \in Frames(live) : f.seq <= high /\ f.seq \notin Numbers(stored)
        /\ \A w \in Writers : staged[w].at = "commit" =>
              staged[w].frame.seq <= high /\ staged[w].frame.seq \notin Numbers(live)

StreamInv ==
    /\ TypeOK /\ StoredAscending /\ SeenIsStored
    /\ Committing /\ Broadcast /\ CounterAhead
=============================================================================

------------------------------- MODULE RuntimeProofs ------------------------
(***************************************************************************)
(* Proofs about three components around the jobs table: its event streams  *)
(* (JobEvents), synchronous requests (SyncExecution) and the time behind   *)
(* the leases (LeaseKeeper), each for every number of threads, requests or *)
(* workers and every accepted setting.                                     *)
(***************************************************************************)
EXTENDS JobEvents, SyncExecution, LeaseKeeper, FiniteSetTheorems, SequenceTheorems,
        WellFoundedInduction, TLAPS

-----------------------------------------------------------------------------
(* JobEvents.  The order of the rows rests on one fact: from the moment a  *)
(* transaction takes its number until it ends, that number is above every  *)
(* stored one.  NoCollision needs more, what the counter covers while      *)
(* nobody else writes (CounterAhead).                                      *)

-----------------------------------------------------------------------------
(* The operators of the model.                                             *)

\* The largest of some sequence numbers is one of them and bounds them all.
LEMMA HighestOf ==
  ASSUME NEW N, N \subseteq 0 .. MaxSequence, N # {}
  PROVE  Highest(N) \in N /\ \A m \in N : m <= Highest(N)
  <1> DEFINE T == {MaxSequence - n : n \in N}
  <1>1. T \subseteq Nat /\ T # {} /\ \A n \in N : n \in Nat
    <2>1. \A n \in N : n \in Nat /\ MaxSequence - n \in Nat
      BY JobEventsAssumption
    <2>2. PICK n \in N : TRUE
      OBVIOUS
    <2>3. MaxSequence - n \in T
      BY <2>2
    <2> QED BY <2>1, <2>3
  <1>2. PICK x \in T : \A y \in T : ~(<<y, x>> \in OpToRel(<, Nat))
    <2> HIDE DEF T
    <2> QED BY <1>1, NatLessThanWellFounded, WFMin
  <1>3. \A y \in T : ~(y < x)
    <2> HIDE DEF T
    <2> QED BY <1>1, <1>2 DEF OpToRel
  <1>4. PICK n \in N : x = MaxSequence - n
    BY <1>2
  <1>5. \A m \in N : m <= n
    <2> SUFFICES ASSUME NEW m \in N PROVE m <= n
      OBVIOUS
    <2>1. MaxSequence - m \in T /\ m \in Nat /\ n \in Nat
      BY <1>1
    <2>2. ~(MaxSequence - m < MaxSequence - n)
      BY <1>3, <1>4, <2>1
    <2> QED BY <2>1, <2>2, JobEventsAssumption
  <1> QED BY <1>4, <1>5 DEF Highest

\* A frame appended is among the heard, with those before it.
LEMMA FramesAppend ==
  ASSUME NEW S, NEW s \in Seq(S), NEW e \in S
  PROVE  /\ Append(s, e) \in Seq(S)
         /\ Frames(Append(s, e)) = Frames(s) \cup {e}
  <1>1. /\ Append(s, e) \in Seq(S) /\ Len(Append(s, e)) = Len(s) + 1
        /\ \A i \in 1 .. Len(s) : Append(s, e)[i] = s[i]
        /\ Append(s, e)[Len(s) + 1] = e
    BY AppendProperties
  <1>2. DOMAIN s = 1 .. Len(s) /\ Len(s) \in Nat
    BY LenProperties
  <1>3. DOMAIN Append(s, e) = 1 .. Len(s) + 1
    BY <1>1, LenProperties
  <1> QED BY <1>1, <1>2, <1>3 DEF Frames

\* No heard.
LEMMA NoFrames == Frames(<<>>) = {}
  BY DEF Frames

\* Frames of a sequence and of what is left of it.
LEMMA FramesTail ==
  ASSUME NEW S, NEW s \in Seq(S)
  PROVE  /\ Frames(s) \subseteq S
         /\ s # <<>> => /\ Head(s) \in Frames(s) /\ Tail(s) \in Seq(S)
                        /\ Len(Tail(s)) = Len(s) - 1
                        /\ Frames(Tail(s)) \subseteq Frames(s)
  <1>1. DOMAIN s = 1 .. Len(s) /\ Len(s) \in Nat /\ s \in [1 .. Len(s) -> S]
    BY LenProperties
  <1>2. Frames(s) \subseteq S
    BY <1>1 DEF Frames
  <1>3. ASSUME s # <<>>
        PROVE  /\ Head(s) \in Frames(s) /\ Tail(s) \in Seq(S)
               /\ Len(Tail(s)) = Len(s) - 1
               /\ Frames(Tail(s)) \subseteq Frames(s)
    <2>1. /\ Tail(s) \in Seq(S) /\ Len(Tail(s)) = Len(s) - 1
          /\ \A i \in 1 .. Len(Tail(s)) : Tail(s)[i] = s[i + 1]
      BY <1>3, HeadTailProperties
    <2>2. Len(s) \in Nat \ {0}
      BY <1>3, EmptySeq
    <2>3. DOMAIN Tail(s) = 1 .. Len(s) - 1
      BY <2>1, LenProperties
    <2>4. Head(s) = s[1] /\ 1 \in DOMAIN s
      BY <1>1, <1>3, <2>2
    <2>5. ASSUME NEW i \in DOMAIN Tail(s) PROVE Tail(s)[i] \in Frames(s)
      <3>1. i \in 1 .. Len(Tail(s)) /\ i + 1 \in DOMAIN s
        BY <1>1, <2>1, <2>2, <2>3
      <3> QED BY <2>1, <3>1 DEF Frames
    <2> QED BY <2>1, <2>4, <2>5 DEF Frames
  <1> QED BY <1>2, <1>3

\* The numbers of the stored rows, the largest of them, and the next one.
LEMMA NextNumber ==
  ASSUME TypeOK
  PROVE  /\ Highest(Numbers(stored)) \in 0 .. MaxSequence
         /\ \A f \in Frames(stored) : f.seq <= Highest(Numbers(stored))
         /\ next_sequence(Highest(Numbers(stored))) \in Nat \ {0}
         /\ next_sequence(Highest(Numbers(stored))) > high
         /\ \A f \in Frames(stored) : f.seq < next_sequence(Highest(Numbers(stored)))
  <1> DEFINE N == Numbers(stored)
             h == Highest(N)
  <1>1. Frames(stored) \subseteq [seq : Sequence, kind : Persisted]
    BY FramesTail DEF TypeOK
  <1>2. N \subseteq 0 .. MaxSequence /\ \A f \in Frames(stored) : f.seq \in N
    BY <1>1, JobEventsAssumption DEF Numbers, Sequence
  <1>3. h \in 0 .. MaxSequence /\ \A m \in N : m <= h
    <2>1. CASE N = {}
      BY <2>1, JobEventsAssumption DEF Highest
    <2>2. CASE N # {}
      BY <1>2, <2>2, HighestOf
    <2> QED BY <2>1, <2>2
  <1>4. high \in 0 .. MaxSequence
    BY DEF TypeOK
  <1>5. Highest({h, high}) \in 0 .. MaxSequence /\ h <= Highest({h, high})
        /\ high <= Highest({h, high})
    <2> HIDE DEF h
    <2>1. {h, high} \subseteq 0 .. MaxSequence /\ {h, high} # {}
      BY <1>3, <1>4
    <2> QED BY <2>1, HighestOf
  <1>6. next_sequence(h) = Highest({h, high}) + 1
    BY DEF next_sequence
  <1>7. \A f \in Frames(stored) : f.seq \in Nat /\ f.seq <= h
    BY <1>2, <1>3, JobEventsAssumption
  <1> HIDE DEF h
  <1>8. /\ next_sequence(h) \in Nat \ {0} /\ next_sequence(h) > high
        /\ \A f \in Frames(stored) : f.seq < next_sequence(h)
    <2> DEFINE t == Highest({h, high})
    <2>1. MaxSequence \in Nat /\ t \in 0 .. MaxSequence /\ next_sequence(h) = t + 1
          /\ h <= t /\ high <= t
      BY <1>5, <1>6, JobEventsAssumption
    <2> HIDE DEF t
    <2> QED BY <1>3, <1>4, <1>7, <2>1
  <1> QED BY <1>3, <1>7, <1>8 DEF h

\* A row above all the others keeps the rows ascending.
LEMMA AppendAscends ==
  ASSUME TypeOK, StoredAscending, NEW e \in [seq : Sequence, kind : Persisted],
         stored' = Append(stored, e), \A f \in Frames(stored) : f.seq < e.seq
  PROVE  StoredAscending'
  <1>1. /\ Len(stored') = Len(stored) + 1
        /\ \A i \in 1 .. Len(stored) : stored'[i] = stored[i]
        /\ stored'[Len(stored) + 1] = e
        /\ stored' \in Seq([seq : Sequence, kind : Persisted])
    BY AppendProperties DEF TypeOK
  <1>2. DOMAIN stored = 1 .. Len(stored) /\ Len(stored) \in Nat
    BY LenProperties DEF TypeOK
  <1>3. DOMAIN stored' = 1 .. Len(stored) + 1
    BY <1>1, LenProperties
  <1> SUFFICES ASSUME NEW i \in DOMAIN stored', NEW j \in DOMAIN stored', i < j
               PROVE  stored'[i].seq < stored'[j].seq
    BY DEF StoredAscending
  <1>4. i \in DOMAIN stored /\ stored'[i] = stored[i]
    BY <1>1, <1>2, <1>3
  <1>5. CASE j \in DOMAIN stored
    BY <1>1, <1>2, <1>4, <1>5 DEF StoredAscending
  <1>6. CASE j = Len(stored) + 1
    BY <1>1, <1>4, <1>6 DEF Frames
  <1> QED BY <1>2, <1>3, <1>5, <1>6

-----------------------------------------------------------------------------
(* The steps of a writer.                                                  *)

Row == [seq : Sequence, kind : Persisted]

\* What a writer has staged is one of these.
Staging == [at : {"idle", "commit", "publish", "forget"}, frame : Frame]

\* A subscription, and what is known of a client.
Subscription == [at : {"off", "replay", "follow"}, queue : Seq(Frame)]
Client == [conn : Subscription, last : 0 .. MaxSequence, got : SUBSET Frame]

\* The heard of the table and of the buffer are numbered.
LEMMA FrameTypes ==
  ASSUME TypeOK
  PROVE  /\ Frames(stored) \subseteq Row
         /\ \A f \in Frames(stored) : f.seq \in Nat /\ f.kind \in Persisted
         /\ \A f \in Frames(live) : f.seq \in Nat /\ f.kind = "live" /\ f \in Frame
         /\ high \in Nat
  <1>1. Frames(stored) \subseteq [seq : Sequence, kind : Persisted]
    BY FramesTail DEF TypeOK
  <1>2. Frames(live) \subseteq [seq : Sequence, kind : {"live"}]
    BY FramesTail DEF TypeOK
  <1>3. Sequence \subseteq Nat /\ high \in Nat
    BY JobEventsAssumption DEF Sequence, TypeOK
  <1> QED BY <1>1, <1>2, <1>3 DEF Row, Frame

\* A transaction takes its number.
LEMMA AllocateInv ==
  ASSUME StreamInv, NEW w \in Writers, NEW kind \in Persisted, Allocate(w, kind)
  PROVE  StreamInv'
  <1>0. TypeOK
    BY DEF StreamInv
  <1> DEFINE n == next_sequence(Highest(Numbers(stored)))
             st == [at |-> "commit", frame |-> [seq |-> n, kind |-> kind]]
  <1>1. /\ n \in Nat \ {0} /\ n > high /\ n <= MaxSequence
        /\ \A f \in Frames(stored) : f.seq < n
    BY <1>0, NextNumber DEF Allocate
  <1>2. /\ high' = n /\ staged' = [staged EXCEPT ![w] = st]
        /\ \A v \in Writers : staged[v].at # "commit"
        /\ UNCHANGED <<stored, live, client, started, foreign, restarts>>
    BY DEF Allocate, NobodyWrites
  <1> HIDE DEF n
  <1>3. st \in Staging /\ n \in 0 .. MaxSequence
    BY <1>1, JobEventsAssumption DEF Staging, Frame, Sequence, Persisted
  <1>4. /\ st.at = "commit" /\ st.frame.seq = n /\ st.frame.kind = kind
        /\ staged'[w] = st /\ \A v \in Writers \ {w} : staged'[v] = staged[v]
    BY <1>0, <1>2 DEF TypeOK
  <1> HIDE DEF st
  <1>5. TypeOK'
    BY <1>0, <1>2, <1>3 DEF TypeOK, Staging
  <1>6. StoredAscending' /\ SeenIsStored'
    BY <1>2 DEF StreamInv, StoredAscending, SeenIsStored, Frames
  <1>7. Committing' /\ Broadcast'
    BY <1>1, <1>2, <1>4 DEF StreamInv, Committing, Broadcast, Frames, Persisted
  <1>8. CounterAhead'
    <2> SUFFICES ASSUME ~foreign, ~Over
                 PROVE  /\ \A f \in Frames(stored) : f.seq <= n
                        /\ \A f \in Frames(live) : f.seq <= n /\ f.seq \notin Numbers(stored)
                        /\ \A v \in Writers : staged'[v].at = "commit" =>
                              staged'[v].frame.seq <= n /\ staged'[v].frame.seq \notin Numbers(live)
      BY <1>2 DEF CounterAhead, Over, Frames, Numbers
    <2>1. /\ \A f \in Frames(stored) : f.seq \in Nat
          /\ \A f \in Frames(live) : f.seq \in Nat
          /\ high \in Nat
      BY <1>0, FrameTypes
    <2>2. \A f \in Frames(live) : f.seq < n /\ f.seq \notin Numbers(stored)
      BY <1>1, <2>1 DEF StreamInv, CounterAhead
    <2>3. n \notin Numbers(live)
      BY <1>1, <2>1, <2>2 DEF Numbers
    <2> QED BY <1>1, <1>2, <1>4, <2>1, <2>2, <2>3
  <1> QED BY <1>5, <1>6, <1>7, <1>8 DEF StreamInv

\* The commit: the row is above the others, and this was the one transaction.
LEMMA CommitInv ==
  ASSUME StreamInv, NEW w \in Writers, Commit(w)
  PROVE  StreamInv'
  <1>0. TypeOK
    BY DEF StreamInv
  <1> DEFINE e == staged[w].frame
  <1>1. /\ staged[w].at = "commit" /\ stored' = Append(stored, e)
        /\ started' = TRUE /\ UNCHANGED <<high, live, client, foreign, restarts>>
    BY DEF Commit
  <1>2. /\ staged' \in [Writers -> Staging]
        /\ staged'[w].at = "publish" /\ staged'[w].frame = e
        /\ \A v \in Writers \ {w} : staged'[v] = staged[v]
    BY <1>0 DEF Commit, TypeOK, Staging
  <1>3. /\ e \in Row /\ \A f \in Frames(stored) : f.seq < e.seq
        /\ \A v \in Writers : staged[v].at = "commit" => v = w
    BY <1>0, <1>1 DEF StreamInv, Committing, TypeOK, Frame, Row
  <1> HIDE DEF e
  <1>4. stored' \in Seq(Row) /\ Frames(stored)' = Frames(stored) \cup {e}
    <2>1. stored \in Seq(Row)
      BY <1>0 DEF TypeOK, Row
    <2>2. /\ Append(stored, e) \in Seq(Row)
          /\ Frames(Append(stored, e)) = Frames(stored) \cup {e}
      BY <1>3, <2>1, FramesAppend
    <2>3. Frames(stored)' = Frames(stored')
      BY DEF Frames
    <2> QED BY <1>1, <2>2, <2>3
  <1>5. TypeOK'
    BY <1>0, <1>1, <1>2, <1>4 DEF TypeOK, Staging, Row
  <1>6. StoredAscending'
    BY <1>0, <1>1, <1>3, AppendAscends DEF StreamInv, Row
  <1>7. SeenIsStored'
    <2>1. \A c \in Clients : Frames(client[c].conn.queue)' = Frames(client[c].conn.queue)
      BY <1>1 DEF Frames
    <2> QED BY <1>1, <1>4, <2>1 DEF StreamInv, SeenIsStored
  <1>8. Committing'
    BY <1>2, <1>3 DEF Committing
  <1>9. Broadcast'
    BY <1>2, <1>4 DEF StreamInv, Broadcast
  <1>10. CounterAhead'
    <2> SUFFICES ASSUME ~foreign, ~Over'
                 PROVE  /\ \A f \in Frames(stored)' : f.seq <= high
                        /\ \A f \in Frames(live) : f.seq <= high /\ f.seq \notin Numbers(stored)'
                        /\ \A v \in Writers : staged'[v].at # "commit"
      BY <1>1 DEF CounterAhead, Frames
    <2>1. ~Over
      BY <1>4 DEF Over
    <2>2. /\ \A f \in Frames(live) : f.seq <= high /\ f.seq \notin Numbers(stored)
          /\ e.seq <= high /\ e.seq \notin Numbers(live)
      BY <1>1, <2>1 DEF StreamInv, CounterAhead, e
    <2>3. \A f \in Frames(stored)' : f.seq \in Nat /\ f.seq <= high
      <3>1. /\ \A f \in Frames(stored) : f.seq \in Nat
            /\ high \in Nat /\ e.seq \in Nat
        BY <1>0, <1>3, FrameTypes, JobEventsAssumption DEF Sequence, Row
      <3> QED BY <1>3, <1>4, <2>2, <3>1
    <2>4. Numbers(stored)' = Numbers(stored) \cup {e.seq}
      BY <1>4 DEF Numbers
    <2>5. \A f \in Frames(live) : f.seq # e.seq
      BY <2>2 DEF Numbers
    <2> QED BY <1>2, <1>3, <2>2, <2>3, <2>4, <2>5
  <1> QED BY <1>5, <1>6, <1>7, <1>8, <1>9, <1>10 DEF StreamInv

\* A rollback leaves the tables alone.
LEMMA RollBackInv ==
  ASSUME StreamInv, NEW w \in Writers, RollBack(w)
  PROVE  StreamInv'
  <1>0. TypeOK
    BY DEF StreamInv
  <1>1. UNCHANGED <<stored, high, live, client, started, foreign, restarts>>
    BY DEF RollBack
  <1>2. /\ staged' = [staged EXCEPT ![w] = NotStaged] /\ NotStaged.at = "idle"
        /\ staged'[w] = NotStaged /\ \A v \in Writers \ {w} : staged'[v] = staged[v]
    BY <1>0 DEF RollBack, TypeOK, NotStaged
  <1>3. NotStaged \in Staging
    BY JobEventsAssumption DEF NotStaged, Staging, Frame, Sequence
  <1>4. TypeOK'
    BY <1>0, <1>1, <1>2, <1>3 DEF TypeOK, Staging
  <1>5. StoredAscending' /\ SeenIsStored'
    BY <1>1 DEF StreamInv, StoredAscending, SeenIsStored, Frames
  <1>6. Committing' /\ Broadcast'
    BY <1>1, <1>2 DEF StreamInv, Committing, Broadcast, Frames
  <1>7. CounterAhead'
    BY <1>1, <1>2 DEF StreamInv, CounterAhead, Over, Frames, Numbers
  <1> QED BY <1>4, <1>5, <1>6, <1>7 DEF StreamInv

\* A live frame is numbered above everything the counter covers.
LEMMA PublishLiveInv ==
  ASSUME StreamInv, NEW w \in Writers, PublishLive(w)
  PROVE  StreamInv'
  <1>0. TypeOK
    BY DEF StreamInv
  <1> DEFINE e == [seq |-> high + 1, kind |-> "live"]
             L == [seq : Sequence, kind : {"live"}]
             st == [at |-> "publish", frame |-> e]
  <1>1. /\ staged[w].at = "idle" /\ started /\ high' = e.seq /\ e.seq <= MaxSequence
        /\ live' = Buffered(e) /\ staged' = [staged EXCEPT ![w] = st]
        /\ UNCHANGED <<stored, client, started, foreign, restarts>>
    BY DEF PublishLive, Free
  <1>2. e \in L /\ e \in Frame /\ e.seq = high + 1 /\ e.kind = "live" /\ e.seq \in 0 .. MaxSequence
    BY <1>0, <1>1, FrameTypes, JobEventsAssumption DEF Sequence, Frame
  <1> HIDE DEF e
  <1>3. /\ st \in Staging /\ st.at = "publish" /\ st.frame = e
        /\ staged'[w] = st /\ \A v \in Writers \ {w} : staged'[v] = staged[v]
    BY <1>0, <1>1, <1>2 DEF Staging, TypeOK
  <1> HIDE DEF st
  <1>4. /\ live' \in Seq(L) /\ Len(live') <= LiveBuffer
        /\ Frames(live)' \subseteq Frames(live) \cup {e}
    <2> DEFINE all == Append(live, e)
    <2>1. live \in Seq(L) /\ Len(live) <= LiveBuffer /\ Len(live) \in Nat
      BY <1>0, LenProperties DEF TypeOK
    <2> HIDE DEF L
    <2>2. /\ all \in Seq(L) /\ Frames(all) = Frames(live) \cup {e}
          /\ all # <<>> /\ Len(all) = Len(live) + 1
      BY <1>2, <2>1, FramesAppend, AppendProperties
    <2>3. live' = IF Len(all) > LiveBuffer THEN Tail(all) ELSE all
      BY <1>1 DEF Buffered
    <2>4. Frames(live)' = Frames(live')
      BY DEF Frames
    <2> HIDE DEF all
    <2>5. /\ Tail(all) \in Seq(L) /\ Len(Tail(all)) = Len(all) - 1
          /\ Frames(Tail(all)) \subseteq Frames(all)
      BY <2>2, FramesTail
    <2> QED BY <2>1, <2>2, <2>3, <2>4, <2>5, JobEventsAssumption
  <1>5. TypeOK'
    BY <1>0, <1>1, <1>2, <1>3, <1>4 DEF TypeOK, Staging
  <1>6. StoredAscending' /\ SeenIsStored'
    BY <1>1 DEF StreamInv, StoredAscending, SeenIsStored, Frames
  <1>7. Committing'
    BY <1>1, <1>3 DEF StreamInv, Committing, Frames
  <1>8. Broadcast'
    BY <1>1, <1>2, <1>3 DEF StreamInv, Broadcast, Frames
  <1>9. CounterAhead'
    <2> SUFFICES ASSUME ~foreign, ~Over
                 PROVE  /\ \A f \in Frames(stored) : f.seq <= high'
                        /\ \A f \in Frames(live)' : f.seq <= high' /\ f.seq \notin Numbers(stored)
                        /\ \A v \in Writers : staged'[v].at = "commit" =>
                              /\ staged'[v].frame.seq <= high'
                              /\ staged'[v].frame.seq \notin Numbers(live)'
      BY <1>1 DEF CounterAhead, Over, Frames, Numbers
    <2>1. /\ \A f \in Frames(stored) : f.seq <= high
          /\ \A f \in Frames(live) : f.seq <= high /\ f.seq \notin Numbers(stored)
          /\ \A v \in Writers : staged[v].at = "commit" =>
                staged[v].frame.seq <= high /\ staged[v].frame.seq \notin Numbers(live)
      BY <1>1 DEF StreamInv, CounterAhead
    <2>2. /\ \A f \in Frames(stored) : f.seq \in Nat
          /\ \A f \in Frames(live) : f.seq \in Nat
          /\ \A v \in Writers : staged[v].frame.seq \in Nat
          /\ high \in Nat /\ high' = high + 1
      <3>1. Sequence \subseteq Nat
        BY JobEventsAssumption DEF Sequence
      <3>2. \A v \in Writers : staged[v].frame \in Frame
        BY <1>0 DEF TypeOK
      <3>3. \A v \in Writers : staged[v].frame.seq \in Nat
        BY <3>1, <3>2 DEF Frame
      <3> QED BY <1>0, <1>1, <1>2, <3>3, FrameTypes
    <2>3. e.seq \notin Numbers(stored)
      BY <1>2, <2>1, <2>2 DEF Numbers
    <2>4. Numbers(live)' \subseteq Numbers(live) \cup {e.seq}
      BY <1>4 DEF Numbers
    <2>5. \A f \in Frames(live)' : f.seq <= high' /\ f.seq \notin Numbers(stored)
      BY <1>2, <1>4, <2>1, <2>2, <2>3
    <2>6. ASSUME NEW v \in Writers, staged'[v].at = "commit"
          PROVE  staged'[v].frame.seq <= high' /\ staged'[v].frame.seq \notin Numbers(live)'
      <3>1. staged'[v] = staged[v]
        BY <1>3, <2>6
      <3> QED BY <1>2, <2>1, <2>2, <2>4, <2>6, <3>1
    <2> QED BY <2>1, <2>2, <2>5, <2>6
  <1> QED BY <1>5, <1>6, <1>7, <1>8, <1>9 DEF StreamInv

\* A frame goes to the open subscriptions; what they hold is stored or live.
LEMMA PublishInv ==
  ASSUME StreamInv, NEW w \in Writers, Publish(w)
  PROVE  StreamInv'
  <1>0. TypeOK
    BY DEF StreamInv
  <1> DEFINE e == staged[w].frame
  <1>1. /\ staged[w].at = "publish" /\ client' = Published(e)
        /\ UNCHANGED <<stored, high, live, started, foreign, restarts>>
    BY DEF Publish
  <1>2. /\ staged' \in [Writers -> Staging]
        /\ \A v \in Writers \ {w} : staged'[v] = staged[v]
        /\ staged'[w].at \in {"idle", "forget"}
        /\ staged'[w].at = "forget" => staged'[w].frame = e /\ e.kind = "terminal"
    <2>1. NotStaged \in Staging
      BY JobEventsAssumption DEF NotStaged, Staging, Frame, Sequence
    <2>2. e \in Frame
      BY <1>0 DEF TypeOK
    <2>3. CASE e.kind = "terminal"
      BY <1>0, <2>2, <2>3 DEF Publish, TypeOK, Staging
    <2>4. CASE e.kind # "terminal"
      <3>1. staged' = [staged EXCEPT ![w] = NotStaged] /\ NotStaged.at = "idle"
        BY <2>4 DEF Publish, NotStaged
      <3> QED BY <1>0, <2>1, <3>1 DEF TypeOK, Staging
    <2> QED BY <2>3, <2>4
  <1>3. e \in Frame /\ (e.kind # "live" => e \in Frames(stored))
    BY <1>0, <1>1 DEF StreamInv, Broadcast, TypeOK
  <1> HIDE DEF e
  <1>4. ASSUME NEW c \in Clients
        PROVE  /\ client'[c].conn.at = client[c].conn.at
               /\ client'[c].conn.queue \in Seq(Frame)
               /\ Frames(client'[c].conn.queue) \subseteq Frames(client[c].conn.queue) \cup {e}
               /\ client'[c].last = client[c].last /\ client'[c].got = client[c].got
               /\ client'[c] \in [conn : [at : {"off", "replay", "follow"},
                                          queue : Seq(Frame)],
                                  last : 0 .. MaxSequence, got : SUBSET Frame]
    <2> DEFINE q == client[c].conn.queue
    <2>1. q \in Seq(Frame)
      BY <1>0 DEF TypeOK
    <2>2. Append(q, e) \in Seq(Frame) /\ Frames(Append(q, e)) = Frames(q) \cup {e}
      BY <1>3, <2>1, FramesAppend
    <2>3. client'[c] = client[c] \/ client'[c] = [client[c] EXCEPT !.conn.queue = Append(@, e)]
      BY <1>1 DEF Published
    <2>4. CASE client'[c] = client[c]
      BY <1>0, <2>4 DEF TypeOK
    <2>5. CASE client'[c] = [client[c] EXCEPT !.conn.queue = Append(@, e)]
      <3>1. /\ client'[c].conn.at = client[c].conn.at
            /\ client'[c].conn.queue = Append(q, e)
            /\ client'[c].last = client[c].last /\ client'[c].got = client[c].got
        BY <1>0, <2>5 DEF TypeOK
      <3>2. client'[c] \in [conn : [at : {"off", "replay", "follow"},
                                    queue : Seq(Frame)],
                            last : 0 .. MaxSequence, got : SUBSET Frame]
        <4> DEFINE k == [client[c].conn EXCEPT !.queue = Append(q, e)]
        <4>1. k \in [at : {"off", "replay", "follow"}, queue : Seq(Frame)]
          BY <1>0, <2>2 DEF TypeOK
        <4>2. client'[c] = [client[c] EXCEPT !.conn = k]
          BY <2>5
        <4> HIDE DEF k
        <4> QED BY <1>0, <4>1, <4>2 DEF TypeOK
      <3> QED BY <2>2, <3>1, <3>2
    <2> QED BY <2>3, <2>4, <2>5
  <1>5. TypeOK'
    <2>1. DOMAIN client' = Clients
      BY <1>1 DEF Published
    <2>2. client' = [c \in Clients |-> client'[c]]
      BY <1>1 DEF Published
    <2> QED BY <1>0, <1>1, <1>2, <1>4, <2>2 DEF TypeOK, Staging
  <1>6. StoredAscending'
    BY <1>1 DEF StreamInv, StoredAscending
  <1>7. SeenIsStored'
    <2> SUFFICES ASSUME NEW c \in Clients,
                        NEW f \in client'[c].got \cup Frames(client'[c].conn.queue),
                        f.kind # "live"
                 PROVE  f \in Frames(stored)
      BY <1>1 DEF SeenIsStored, Frames
    <2> QED BY <1>3, <1>4 DEF StreamInv, SeenIsStored
  <1>8. Committing' /\ Broadcast'
    BY <1>1, <1>2, <1>3 DEF StreamInv, Committing, Broadcast, Frames
  <1>9. CounterAhead'
    BY <1>1, <1>2 DEF StreamInv, CounterAhead, Over, Frames, Numbers
  <1> QED BY <1>5, <1>6, <1>7, <1>8, <1>9 DEF StreamInv

\* The job's last frame is out: the counter goes, and with it what CounterAhead
\* says, for the job is over.
LEMMA ForgetInv ==
  ASSUME StreamInv, NEW w \in Writers, Forget(w)
  PROVE  StreamInv'
  <1>0. TypeOK
    BY DEF StreamInv
  <1>1. /\ staged[w].at = "forget" /\ high' = 0 /\ live' = <<>>
        /\ UNCHANGED <<stored, client, started, foreign, restarts>>
    BY DEF Forget
  <1>2. /\ staged' = [staged EXCEPT ![w] = NotStaged] /\ NotStaged.at = "idle"
        /\ staged'[w] = NotStaged /\ \A v \in Writers \ {w} : staged'[v] = staged[v]
    BY <1>0 DEF Forget, TypeOK, NotStaged
  <1>3. NotStaged \in Staging
    BY JobEventsAssumption DEF NotStaged, Staging, Frame, Sequence
  <1>4. TypeOK'
    <2>1. live' \in Seq([seq : Sequence, kind : {"live"}]) /\ Len(live') <= LiveBuffer
      BY <1>1, EmptySeq, JobEventsAssumption
    <2>2. high' \in 0 .. MaxSequence
      BY <1>1, JobEventsAssumption
    <2> QED BY <1>0, <1>1, <1>2, <1>3, <2>1, <2>2 DEF TypeOK, Staging
  <1>5. StoredAscending' /\ SeenIsStored'
    BY <1>1 DEF StreamInv, StoredAscending, SeenIsStored, Frames
  <1>6. Committing' /\ Broadcast'
    BY <1>1, <1>2 DEF StreamInv, Committing, Broadcast, Frames
  <1>7. Over'
    <2>1. staged[w].frame.kind = "terminal" /\ staged[w].frame \in Frames(stored)
      BY <1>1 DEF StreamInv, Broadcast
    <2> QED BY <1>1, <2>1 DEF Over, Frames
  <1>8. CounterAhead'
    BY <1>7 DEF CounterAhead
  <1> QED BY <1>4, <1>5, <1>6, <1>8 DEF StreamInv

\* Another process writes a row: above the others, while nobody here commits.
LEMMA WriteElsewhereInv ==
  ASSUME StreamInv, NEW kind \in Persisted, WriteElsewhere(kind)
  PROVE  StreamInv'
  <1>0. TypeOK
    BY DEF StreamInv
  <1> DEFINE n == Highest(Numbers(stored)) + 1
             e == [seq |-> n, kind |-> kind]
  <1>1. /\ stored' = Append(stored, e) /\ foreign' = TRUE /\ n <= MaxSequence
        /\ \A v \in Writers : staged[v].at # "commit"
        /\ UNCHANGED <<high, live, staged, client, started, restarts>>
    BY DEF WriteElsewhere, NobodyWrites
  <1>2. /\ n \in Nat \ {0} /\ \A f \in Frames(stored) : f.seq < n
    <2>1. /\ Highest(Numbers(stored)) \in 0 .. MaxSequence
          /\ \A f \in Frames(stored) : f.seq <= Highest(Numbers(stored)) /\ f.seq \in Nat
      BY <1>0, NextNumber, FrameTypes
    <2> QED BY <2>1, JobEventsAssumption
  <1> HIDE DEF n
  <1>3. e \in Row /\ e.seq = n
    BY <1>1, <1>2, JobEventsAssumption DEF Row, Sequence
  <1> HIDE DEF e
  <1>4. stored' \in Seq(Row) /\ Frames(stored)' = Frames(stored) \cup {e}
    <2>1. stored \in Seq(Row)
      BY <1>0 DEF TypeOK, Row
    <2>2. /\ Append(stored, e) \in Seq(Row)
          /\ Frames(Append(stored, e)) = Frames(stored) \cup {e}
      BY <1>3, <2>1, FramesAppend
    <2>3. Frames(stored)' = Frames(stored')
      BY DEF Frames
    <2> QED BY <1>1, <2>2, <2>3
  <1>5. TypeOK'
    BY <1>0, <1>1, <1>4 DEF TypeOK, Row
  <1>6. StoredAscending'
    BY <1>0, <1>1, <1>2, <1>3, AppendAscends DEF StreamInv, Row
  <1>7. SeenIsStored'
    <2>1. \A c \in Clients : Frames(client[c].conn.queue)' = Frames(client[c].conn.queue)
      BY <1>1 DEF Frames
    <2> QED BY <1>1, <1>4, <2>1 DEF StreamInv, SeenIsStored
  <1>8. Committing' /\ Broadcast'
    BY <1>1, <1>4 DEF StreamInv, Committing, Broadcast
  <1>9. CounterAhead'
    BY <1>1 DEF CounterAhead
  <1> QED BY <1>5, <1>6, <1>7, <1>8, <1>9 DEF StreamInv

-----------------------------------------------------------------------------
(* Restarts and clients.                                                   *)

\* No subscription.
LEMMA OfflineFacts == Offline \in Subscription /\ Frames(Offline.queue) = {}
  BY EmptySeq, NoFrames DEF Offline, Subscription

\* A restart forgets what was in memory; what the clients have got stays.
LEMMA RestartInv ==
  ASSUME StreamInv, Restart
  PROVE  StreamInv'
  <1>0. TypeOK
    BY DEF StreamInv
  <1>1. /\ restarts < MaxRestarts /\ restarts' = restarts + 1 /\ high' = 0 /\ live' = <<>>
        /\ staged' = [w \in Writers |-> NotStaged] /\ started' = FALSE
        /\ client' = [c \in Clients |-> [client[c] EXCEPT !.conn = Offline]]
        /\ UNCHANGED <<stored, foreign>>
    BY DEF Restart
  <1>2. NotStaged \in Staging /\ NotStaged.at = "idle"
    BY JobEventsAssumption DEF NotStaged, Staging, Frame, Sequence
  <1>3. ASSUME NEW c \in Clients
        PROVE  /\ client'[c] \in Client /\ client'[c].got = client[c].got
               /\ client'[c].conn = Offline
    BY <1>0, <1>1, OfflineFacts DEF TypeOK, Client, Subscription
  <1>4. TypeOK'
    <2>1. live' \in Seq([seq : Sequence, kind : {"live"}]) /\ Len(live') <= LiveBuffer
      BY <1>1, EmptySeq, JobEventsAssumption
    <2>2. high' \in 0 .. MaxSequence /\ restarts' \in 0 .. MaxRestarts
      BY <1>0, <1>1, JobEventsAssumption DEF TypeOK
    <2>3. client' \in [Clients -> Client]
      BY <1>1, <1>3
    <2>4. staged' \in [Writers -> Staging]
      BY <1>1, <1>2
    <2> QED BY <1>0, <1>1, <2>1, <2>2, <2>3, <2>4 DEF TypeOK, Staging, Client, Subscription
  <1>5. StoredAscending'
    BY <1>1 DEF StreamInv, StoredAscending
  <1>6. SeenIsStored'
    <2> SUFFICES ASSUME NEW c \in Clients,
                        NEW f \in client'[c].got \cup Frames(client'[c].conn.queue),
                        f.kind # "live"
                 PROVE  f \in Frames(stored)
      BY <1>1 DEF SeenIsStored, Frames
    <2> QED BY <1>3, OfflineFacts DEF StreamInv, SeenIsStored
  <1>7. Committing' /\ Broadcast'
    BY <1>1, <1>2 DEF Committing, Broadcast
  <1>8. CounterAhead'
    <2>1. Frames(live)' = {}
      BY <1>1, NoFrames DEF Frames
    <2> QED BY <1>1, <1>2, <2>1 DEF CounterAhead
  <1> QED BY <1>4, <1>5, <1>6, <1>7, <1>8 DEF StreamInv

\* A client's step that shows it stored or live heard only.
LEMMA ClientInv ==
  ASSUME StreamInv, NEW c \in Clients, NEW r \in Client,
         client' = [client EXCEPT ![c] = r],
         UNCHANGED <<stored, high, live, staged, started, foreign, restarts>>,
         \A f \in r.got \cup Frames(r.conn.queue) : f.kind # "live" => f \in Frames(stored)
  PROVE  StreamInv'
  <1>0. TypeOK
    BY DEF StreamInv
  <1>1. TypeOK'
    BY <1>0 DEF TypeOK, Client, Subscription
  <1>2. StoredAscending' /\ Committing' /\ Broadcast' /\ CounterAhead'
    BY DEF StreamInv, StoredAscending, Committing, Broadcast, CounterAhead, Over, Frames, Numbers
  <1>3. SeenIsStored'
    <2> SUFFICES ASSUME NEW d \in Clients,
                        NEW f \in client'[d].got \cup Frames(client'[d].conn.queue),
                        f.kind # "live"
                 PROVE  f \in Frames(stored)
      BY DEF SeenIsStored, Frames
    <2>1. CASE d = c
      BY <1>0, <2>1 DEF TypeOK
    <2>2. CASE d # c
      BY <1>0, <2>2 DEF TypeOK, StreamInv, SeenIsStored
    <2> QED BY <2>1, <2>2
  <1> QED BY <1>1, <1>2, <1>3 DEF StreamInv

\* Opening and closing a subscription.
LEMMA ConnectInv ==
  ASSUME StreamInv, NEW c \in Clients, Subscribe(c) \/ Disconnect(c)
  PROVE  StreamInv'
  <1>0. TypeOK
    BY DEF StreamInv
  <1>1. PICK k \in {[at |-> "replay", queue |-> <<>>], Offline} :
            client' = [client EXCEPT ![c].conn = k]
    BY DEF Subscribe, Disconnect
  <1>2. k \in Subscription /\ Frames(k.queue) = {}
    <2>1. CASE k = [at |-> "replay", queue |-> <<>>]
      <3>1. k.queue = <<>> /\ k.at = "replay"
        BY <2>1
      <3>2. k \in Subscription
        BY <2>1, EmptySeq DEF Subscription
      <3> QED BY <3>1, <3>2, NoFrames
    <2> QED BY <1>1, <2>1, OfflineFacts
  <1> DEFINE r == [client[c] EXCEPT !.conn = k]
  <1>3. r \in Client /\ r.conn = k /\ r.got = client[c].got
    BY <1>0, <1>2 DEF TypeOK, Client, Subscription
  <1>4. client' = [client EXCEPT ![c] = r]
    BY <1>1
  <1>5. UNCHANGED <<stored, high, live, staged, started, foreign, restarts>>
    BY DEF Subscribe, Disconnect
  <1> HIDE DEF r
  <1>6. \A f \in r.got \cup Frames(r.conn.queue) : f.kind # "live" => f \in Frames(stored)
    BY <1>2, <1>3 DEF StreamInv, SeenIsStored
  <1> QED BY <1>3, <1>4, <1>5, <1>6, ClientInv

\* Frames shown to a client that are stored or live.
LEMMA ReceivedInv ==
  ASSUME StreamInv, NEW c \in Clients, NEW heard \in SUBSET Frame, NEW k \in Subscription,
         client' = Received(c, heard, k),
         UNCHANGED <<stored, high, live, staged, started, foreign, restarts>>,
         Frames(k.queue) \subseteq Frames(client[c].conn.queue),
         \A f \in heard : f.kind # "live" => f \in Frames(stored)
  PROVE  StreamInv'
  <1>0. TypeOK
    BY DEF StreamInv
  <1> DEFINE N == {client[c].last} \cup {f.seq : f \in heard}
             r == [conn |-> k, got |-> client[c].got \cup heard, last |-> Highest(N)]
  <1>1. client[c].last \in 0 .. MaxSequence /\ client[c].got \in SUBSET Frame
    BY <1>0 DEF TypeOK
  <1>2. N \subseteq 0 .. MaxSequence /\ N # {}
    BY <1>1, JobEventsAssumption DEF Frame, Sequence
  <1>3. Highest(N) \in 0 .. MaxSequence
    <2> HIDE DEF N
    <2> QED BY <1>2, HighestOf
  <1>4. client' = [client EXCEPT ![c] = r]
    BY DEF Received
  <1> HIDE DEF N
  <1>5. r \in Client /\ r.conn = k /\ r.got = client[c].got \cup heard
    BY <1>1, <1>3 DEF Client
  <1> HIDE DEF r
  <1>6. \A f \in r.got \cup Frames(r.conn.queue) : f.kind # "live" => f \in Frames(stored)
    BY <1>5 DEF StreamInv, SeenIsStored
  <1> QED BY <1>4, <1>5, <1>6, ClientInv

\* The replay of what is stored and buffered.
LEMMA ReplayInv ==
  ASSUME StreamInv, NEW c \in Clients, Replay(c)
  PROVE  StreamInv'
  <1>0. TypeOK
    BY DEF StreamInv
  <1> DEFINE heard == UpToTerminal(Replayable(client[c].last))
             k == After(heard, [client[c].conn EXCEPT !.at = "follow"])
  <1>1. /\ client' = Received(c, heard, k)
        /\ UNCHANGED <<stored, high, live, staged, started, foreign, restarts>>
    BY DEF Replay
  <1>2. heard \in SUBSET Frame /\ \A f \in heard : f.kind # "live" => f \in Frames(stored)
    <2>1. heard \subseteq Frames(stored) \cup Frames(live)
      BY DEF Replayable, UpToTerminal
    <2>2. Row \subseteq Frame
      BY DEF Row, Frame
    <2> HIDE DEF heard
    <2> QED BY <1>0, <2>1, <2>2, FrameTypes
  <1>3. k \in Subscription /\ Frames(k.queue) \subseteq Frames(client[c].conn.queue)
    <2> DEFINE open == [client[c].conn EXCEPT !.at = "follow"]
    <2>1. open \in Subscription /\ open.queue = client[c].conn.queue
      BY <1>0 DEF TypeOK, Subscription
    <2>2. k = Offline \/ k = open
      BY DEF After
    <2> HIDE DEF open, k
    <2> QED BY <2>1, <2>2, OfflineFacts
  <1> HIDE DEF heard, k
  <1> QED BY <1>1, <1>2, <1>3, ReceivedInv

\* The next frame of a subscription.
LEMMA FollowInv ==
  ASSUME StreamInv, NEW c \in Clients, Follow(c)
  PROVE  StreamInv'
  <1>0. TypeOK
    BY DEF StreamInv
  <1> DEFINE conn == client[c].conn
             fresh == {f \in {Head(conn.queue)} : f.seq > client[c].last}
             open == [conn EXCEPT !.queue = Tail(@)]
             k == After(fresh, open)
  <1>1. /\ client' = Received(c, fresh, k) /\ conn.queue # <<>>
        /\ UNCHANGED <<stored, high, live, staged, started, foreign, restarts>>
    BY DEF Follow
  <1>2. /\ Frames(conn.queue) \subseteq Frame /\ Head(conn.queue) \in Frames(conn.queue)
        /\ Tail(conn.queue) \in Seq(Frame)
        /\ Frames(Tail(conn.queue)) \subseteq Frames(conn.queue)
    <2>1. conn.queue \in Seq(Frame)
      BY <1>0 DEF TypeOK
    <2> QED BY <1>1, <2>1, FramesTail
  <1>3. fresh \subseteq Frames(conn.queue)
    BY <1>2
  <1>4. fresh \in SUBSET Frame /\ \A f \in fresh : f.kind # "live" => f \in Frames(stored)
    <2> HIDE DEF fresh
    <2> QED BY <1>2, <1>3 DEF StreamInv, SeenIsStored
  <1>5. k \in Subscription /\ Frames(k.queue) \subseteq Frames(conn.queue)
    <2>1. open \in Subscription /\ open.queue = Tail(conn.queue)
      BY <1>0, <1>2 DEF TypeOK, Subscription
    <2>2. k = Offline \/ k = open
      BY DEF After
    <2> HIDE DEF open, k
    <2> QED BY <1>2, <2>1, <2>2, OfflineFacts
  <1> HIDE DEF fresh, k, open
  <1> QED BY <1>1, <1>4, <1>5, ReceivedInv

-----------------------------------------------------------------------------
(* The theorems.                                                           *)

\* The initial states satisfy the invariant.
LEMMA InitInv == Init => StreamInv
  <1> SUFFICES ASSUME Init PROVE StreamInv
    OBVIOUS
  <1>1. NotStaged \in Staging /\ NotStaged.at = "idle"
    BY JobEventsAssumption DEF NotStaged, Staging, Frame, Sequence
  <1> DEFINE r == [conn |-> Offline, last |-> 0, got |-> {}]
  <1>2. r \in Client /\ r.conn = Offline /\ r.got = {}
    BY OfflineFacts, JobEventsAssumption DEF Client
  <1>3. client = [c \in Clients |-> r] /\ staged = [w \in Writers |-> NotStaged]
        /\ stored = <<>> /\ live = <<>> /\ started = FALSE
    BY DEF Init
  <1> HIDE DEF r
  <1>4. TypeOK
    <2>1. /\ stored \in Seq([seq : Sequence, kind : Persisted])
          /\ live \in Seq([seq : Sequence, kind : {"live"}]) /\ Len(live) <= LiveBuffer
      BY <1>3, EmptySeq, JobEventsAssumption
    <2>2. client \in [Clients -> Client] /\ staged \in [Writers -> Staging]
      BY <1>1, <1>2, <1>3
    <2>3. high \in 0 .. MaxSequence /\ restarts \in 0 .. MaxRestarts
      BY JobEventsAssumption DEF Init
    <2>4. started \in BOOLEAN /\ foreign \in BOOLEAN
      BY DEF Init
    <2> QED BY <2>1, <2>2, <2>3, <2>4 DEF TypeOK, Client, Subscription, Staging
  <1>5. Frames(stored) = {} /\ Frames(live) = {}
    BY <1>3, NoFrames
  <1>6. StoredAscending
    BY <1>3 DEF StoredAscending
  <1>7. SeenIsStored
    BY <1>2, <1>3, OfflineFacts DEF SeenIsStored
  <1>8. Committing /\ Broadcast /\ CounterAhead
    BY <1>1, <1>3, <1>5 DEF Committing, Broadcast, CounterAhead
  <1> QED BY <1>4, <1>6, <1>7, <1>8 DEF StreamInv

\* Every step preserves it.
LEMMA NextInv == StreamInv /\ [Next]_vars => StreamInv'
  <1> SUFFICES ASSUME StreamInv, [Next]_vars PROVE StreamInv'
    OBVIOUS
  <1>1. CASE UNCHANGED vars
    BY <1>1 DEF vars, StreamInv, TypeOK, StoredAscending, SeenIsStored, Committing,
       Broadcast, CounterAhead, Over, Frames, Numbers
  <1>2. ASSUME NEW c \in Clients, Subscribe(c) \/ Replay(c) \/ Follow(c) \/ Disconnect(c)
        PROVE  StreamInv'
    BY <1>2, ConnectInv, ReplayInv, FollowInv
  <1> QED BY <1>1, <1>2, AllocateInv, CommitInv, RollBackInv, PublishLiveInv, PublishInv,
             ForgetInv, WriteElsewhereInv, RestartInv DEF Next

\* The writing threads, the counter and the clients stay in step.
THEOREM Invariance == Spec => []StreamInv
  BY InitInv, NextInv, PTL DEF Spec

\* The rows of a job ascend in commit order, a client is only shown persisted
\* heard the table has, and while this process alone writes no buffered frame
\* shares its number with a row (JobEventSink.write, next_sequence,
\* publish_live, replay): for any number of threads, clients and restarts.
THEOREM Stream == Spec => []StreamSafe
  <1>1. StreamInv => StreamSafe
    BY DEF StreamInv, StreamSafe, NoCollision, CounterAhead, Numbers
  <1> QED BY <1>1, Invariance, PTL

-----------------------------------------------------------------------------
(* SyncExecution: one execution per unexpired key, one terminal frame per  *)
(* job, which rows can be left in flight, and which verdict may be         *)
(* overwritten.                                                            *)

USE SyncAssumption

\* The state sets of the jobs table, where a step moves a row from one to
\* another.
LEMMA StateSets ==
    /\ Absent \notin JobState
    /\ Terminal \cap InFlight = {} /\ Waiting \cap InFlight = {}
    /\ Terminal \cup InFlight \cup Waiting = JobState
    /\ {"executing", "cancelling"} \subseteq InFlight
    /\ {"completed", "failed", "cancelled"} = Terminal
    /\ "queued" \in Waiting
  BY DEF Absent, JobState, Active, Terminal, InFlight,
         Waiting, LeaseHolding

\* A cancel moves a waiting row to a verdict and a held one to `cancelling`,
\* and leaves every other row alone.
LEMMA CancelTargets ==
    ASSUME NEW s \in JobState \cup {Absent}, cancel_target(s) # None
    PROVE  \/ s \in Waiting /\ cancel_target(s) = "cancelled"
           \/ s \in LeaseHolding /\ cancel_target(s) = "cancelling"
  BY DEF cancel_target

\* Recovery leaves nothing in flight, and moves nothing that is not.
LEMMA RecoveryTargets ==
    ASSUME NEW s \in JobState \cup {Absent}, NEW i \in BOOLEAN
    PROVE  \/ s \in InFlight /\ recovery_target(s, i) \in {"queued", "failed", "cancelled"}
           \/ s \notin InFlight /\ recovery_target(s, i) = None
  BY DEF recovery_target, InFlight, LeaseHolding

-----------------------------------------------------------------------------
\* The initial states satisfy the invariant.
LEMMA SyncStarts ==
    SyncInit => SyncInv
  BY StateSets DEF SyncInit, SyncInv, SyncTypeOK, RowBehindHandler,
                   KeyNamesOne, HandlerOwnsJob,
     FrameEndsJob, DownIsIdle, KilledRecovered, StreamEnds,
     Executing, NoRow, Nothing

\* Looking a key up: the request attaches to a job or goes on, and the only
\* keys released belong to expired rows.
LEMMA AttachStep ==
    ASSUME SyncInv, NEW r \in Requests, NEW key \in Keys \cup {None},
           NEW next \in {"inserting", "over"},
           pc[r] \in {"new", "inserting"}, up, Attach(r, key, next),
           asked' \in [Requests -> [key : Keys \cup {None}, stream : BOOLEAN]],
           \A s \in Requests \ {r} : asked'[s] = asked[s],
           UNCHANGED <<expired, frames, up>>
    PROVE  SyncInv'
  <1>1. /\ pc' \in [Requests -> {"new", "inserting", "waiting", "reserved", "unstarted",
                                 "routing", "calling", "backstop", "over", "killed"}]
        /\ pc'[r] \in {"waiting", "inserting", "over"}
        /\ \A s \in Requests \ {r} : pc'[s] = pc[s]
    BY DEF Attach, SyncInv, SyncTypeOK
  <1>2. watched' \in [Requests -> Requests \cup {None}]
    BY DEF Attach, Owners, SyncInv, SyncTypeOK
  <1>3. /\ row' \in [Requests -> [state : JobState \cup {Absent},
                             key : Keys \cup {None}, idempotent : BOOLEAN,
                             queued_at : BOOLEAN]]
        /\ \A s \in Requests :
              /\ row'[s].state = row[s].state
              /\ row'[s].key \in {row[s].key, None}
              /\ s \notin expired => row'[s].key = row[s].key
    <2>1. CASE UNCHANGED row
      BY <2>1 DEF SyncInv, SyncTypeOK
    <2>2. CASE /\ Owners(key) \ expired = {}
               /\ row' = [o \in Requests |-> IF o \in Owners(key)
                                     THEN [row[o] EXCEPT !.key = None] ELSE row[o]]
      <3>1. Owners(key) \subseteq expired
        BY <2>2
      <3> DEFINE Columns == [state : JobState \cup {Absent}, key : Keys \cup {None},
                         idempotent : BOOLEAN, queued_at : BOOLEAN]
      <3>2. row \in [Requests -> Columns]
        BY DEF SyncInv, SyncTypeOK
      <3>3. ASSUME NEW s \in Requests
            PROVE  /\ row'[s] \in Columns /\ row'[s].state = row[s].state
                   /\ row'[s].key \in {row[s].key, None}
                   /\ s \notin expired => row'[s].key = row[s].key
        <4>1. row[s] \in Columns
          BY <3>2
        <4>2. CASE s \in Owners(key)
          BY <2>2, <3>1, <4>1, <4>2
        <4>3. CASE s \notin Owners(key)
          BY <2>2, <4>1, <4>3
        <4> QED BY <4>2, <4>3
      <3> QED BY <2>2, <3>3
    <2> QED BY <2>1, <2>2 DEF Attach
  <1>4. SyncTypeOK'
    BY <1>1, <1>2, <1>3 DEF SyncInv, SyncTypeOK
  <1>5. Executing' = Executing /\ Executing \subseteq Requests \ {r}
    BY <1>1 DEF Executing, SyncInv, SyncTypeOK
  <1>6. row[r].state = Absent /\ frames[r] = 0
    BY DEF SyncInv, RowBehindHandler
  <1>7. RowBehindHandler' /\ HandlerOwnsJob' /\ FrameEndsJob' /\ DownIsIdle'
    <2>1. RowBehindHandler'
      BY <1>1, <1>3, <1>6 DEF SyncInv, RowBehindHandler
    <2>2. HandlerOwnsJob'
      BY <1>3, <1>5 DEF SyncInv, HandlerOwnsJob
    <2>3. FrameEndsJob' /\ DownIsIdle'
      BY <1>1, <1>3, <1>6 DEF SyncInv, FrameEndsJob, DownIsIdle
    <2> QED BY <2>1, <2>2, <2>3
  <1>8. KeyNamesOne'
    BY <1>3, <1>5 DEF SyncInv, SyncTypeOK, KeyNamesOne,
                      Executing
  <1>9. KilledRecovered' /\ StreamEnds'
    BY <1>1, <1>3, <1>6 DEF SyncInv, KilledRecovered, StreamEnds
  <1> QED BY <1>4, <1>7, <1>8, <1>9 DEF SyncInv

\* The insert the unique index lets through.
LEMMA InsertStep ==
    ASSUME SyncInv, NEW r \in Requests, Insert(r)
    PROVE  SyncInv'
  <1>1. asked[r].key \in Keys \cup {None}
    BY DEF SyncInv, SyncTypeOK
  <1>2. CASE Attach(r, asked[r].key, "over")
    <2>1. asked' \in [Requests -> [key : Keys \cup {None}, stream : BOOLEAN]]
      BY DEF Insert, SyncInv, SyncTypeOK
    <2> QED BY <1>1, <1>2, <2>1, AttachStep DEF Insert
  <1>3. CASE /\ Owners(asked[r].key) = {}
             /\ row' = [row EXCEPT ![r] = Reserved(asked[r].key)]
             /\ pc' = [pc EXCEPT ![r] = "reserved"]
             /\ UNCHANGED watched
    <2>1. /\ row'[r].state = "executing" /\ row'[r].key = asked[r].key
          /\ \A s \in Requests \ {r} : row'[s] = row[s] /\ pc'[s] = pc[s]
          /\ pc'[r] = "reserved" /\ up
          /\ UNCHANGED <<expired, asked, frames, up, watched>>
      BY <1>3 DEF Insert, Reserved, SyncInv, SyncTypeOK
    <2>2. SyncTypeOK'
      BY <1>1, <1>3, StateSets DEF Insert, Reserved, SyncInv,
                                   SyncTypeOK, JobState, Active
    <2>3. row[r].state = Absent /\ frames[r] = 0
      BY DEF Insert, SyncInv, RowBehindHandler
    <2>4. Executing' = Executing \cup {r} /\ Executing \subseteq Requests \ {r}
      BY <2>1 DEF Insert, Executing
    <2>5. KeyNamesOne'
      BY <1>3, <2>1, <2>4 DEF Owners, SyncInv, KeyNamesOne
    <2>6. RowBehindHandler' /\ HandlerOwnsJob' /\ FrameEndsJob' /\ DownIsIdle'
      BY <2>1, <2>3, <2>4 DEF SyncInv, RowBehindHandler,
                              HandlerOwnsJob, FrameEndsJob,
                              DownIsIdle, Absent
    <2>7. KilledRecovered' /\ StreamEnds'
      BY <2>1 DEF SyncInv, KilledRecovered, StreamEnds
    <2> QED BY <2>2, <2>5, <2>6, <2>7 DEF SyncInv
  <1> QED BY <1>2, <1>3 DEF Insert

\* A handler step that leaves every row and frame alone.
LEMMA HandlerStep ==
    ASSUME SyncInv, NEW r \in Requests,
           StopWaiting(r) \/ Start(r) \/ StartFails(r) \/ Route(r) \/ Raise(r)
    PROVE  SyncInv'
  <1>1. /\ \/ pc[r] = "waiting" /\ pc'[r] = "over"
           \/ pc[r] = "reserved" /\ pc'[r] \in {"routing", "unstarted"}
           \/ pc[r] = "routing" /\ pc'[r] = "calling"
           \/ /\ pc[r] \in {"routing", "calling"}
              /\ pc'[r] = IF asked[r].stream THEN "backstop" ELSE "over"
        /\ pc' \in [Requests -> {"new", "inserting", "waiting", "reserved", "unstarted",
                                 "routing", "calling", "backstop", "over", "killed"}]
        /\ \A s \in Requests \ {r} : pc'[s] = pc[s]
        /\ up /\ UNCHANGED <<row, expired, asked, watched, frames, up>>
    BY DEF StopWaiting, Start, StartFails, Route, Raise, AfterVerdict, SyncInv,
           SyncTypeOK
  <1>2. Executing' \subseteq Executing
    BY <1>1 DEF Executing
  <1>3. SyncTypeOK' /\ KeyNamesOne' /\ HandlerOwnsJob'
    BY <1>1, <1>2 DEF SyncInv, SyncTypeOK, KeyNamesOne,
                      HandlerOwnsJob
  <1>4. RowBehindHandler' /\ FrameEndsJob' /\ DownIsIdle'
    BY <1>1 DEF SyncInv, RowBehindHandler, HandlerOwnsJob,
                FrameEndsJob, DownIsIdle, Executing, Absent
  <1>5. KilledRecovered' /\ StreamEnds'
    BY <1>1 DEF SyncInv, RowBehindHandler, KilledRecovered,
                StreamEnds
  <1> QED BY <1>3, <1>4, <1>5 DEF SyncInv

\* A handler records the verdict of its job.
LEMMA WriteStep ==
    ASSUME SyncInv, NEW r \in Requests, NEW state \in {"completed", "failed"},
           up, pc[r] \in {"routing", "calling"}, Write(r, state)
    PROVE  SyncInv'
  <1>1. /\ pc'[r] = IF asked[r].stream THEN "backstop" ELSE "over"
        /\ pc' \in [Requests -> {"new", "inserting", "waiting", "reserved", "unstarted",
                                 "routing", "calling", "backstop", "over", "killed"}]
        /\ \A s \in Requests \ {r} : /\ pc'[s] = pc[s] /\ row'[s] = row[s]
                                     /\ frames'[s] = frames[s]
        /\ row'[r].state = state /\ row'[r].key = row[r].key
        /\ UNCHANGED <<expired, asked, watched, up>>
    BY DEF Write, AfterVerdict, SyncInv, SyncTypeOK
  <1>2. frames[r] = 0 /\ frames'[r] = 1 /\ row[r].state # Absent
    BY DEF Write, SyncInv, SyncTypeOK, HandlerOwnsJob,
           Executing, Absent
  <1>3. row' \in [Requests -> [state : JobState \cup {Absent},
                             key : Keys \cup {None}, idempotent : BOOLEAN,
                             queued_at : BOOLEAN]]
    <2> DEFINE Rows == [state : JobState \cup {Absent},
                        key : Keys \cup {None}, idempotent : BOOLEAN,
                        queued_at : BOOLEAN]
    <2>1. state \in JobState
      BY StateSets
    <2>2. row' = [row EXCEPT ![r].state = state]
      BY DEF Write
    <2>3. row \in [Requests -> Rows]
      BY DEF SyncInv, SyncTypeOK
    <2>4. [row[r] EXCEPT !.state = state] \in Rows
      BY <2>1, <2>3
    <2> HIDE DEF Rows
    <2>5. row' \in [Requests -> Rows]
      BY <2>2, <2>3, <2>4
    <2> QED BY <2>5 DEF Rows
  <1>4. SyncTypeOK'
    BY <1>1, <1>2, <1>3 DEF Write, SyncInv, SyncTypeOK
  <1>5. /\ Executing' = Executing \ {r} /\ Executing \subseteq Requests
        /\ state \in Terminal /\ state # Absent
    BY <1>1 DEF Executing, Terminal, Absent
  <1>6. KeyNamesOne' /\ HandlerOwnsJob'
    BY <1>1, <1>5 DEF SyncInv, KeyNamesOne, HandlerOwnsJob
  <1>7. RowBehindHandler' /\ FrameEndsJob' /\ DownIsIdle'
    BY <1>1, <1>2, <1>5 DEF SyncInv, RowBehindHandler,
                            FrameEndsJob, DownIsIdle
  <1>8. KilledRecovered' /\ StreamEnds'
    BY <1>1, <1>2, <1>5 DEF SyncInv, KilledRecovered, StreamEnds
  <1> QED BY <1>4, <1>6, <1>7, <1>8 DEF SyncInv

\* The backstop ends a stream that has no terminal frame.
LEMMA BackstopStep ==
    ASSUME SyncInv, NEW r \in Requests, Backstop(r)
    PROVE  SyncInv'
  <1>1. /\ pc[r] = "backstop" /\ pc'[r] = "over" /\ up
        /\ pc' \in [Requests -> {"new", "inserting", "waiting", "reserved", "unstarted",
                                 "routing", "calling", "backstop", "over", "killed"}]
        /\ \A s \in Requests \ {r} : /\ pc'[s] = pc[s] /\ row'[s] = row[s]
                                     /\ frames'[s] = frames[s]
        /\ UNCHANGED <<expired, asked, watched, up>>
    BY DEF Backstop, SyncInv, SyncTypeOK
  <1>2. asked[r].stream /\ row[r].state # Absent
    BY <1>1 DEF SyncInv, FrameEndsJob
  <1>3. /\ frames' \in [Requests -> 0 .. 1] /\ frames'[r] = 1
        /\ row'[r].state \in Terminal /\ row'[r].key = row[r].key
        /\ row' \in [Requests -> [state : JobState \cup {Absent},
                             key : Keys \cup {None}, idempotent : BOOLEAN,
                             queued_at : BOOLEAN]]
    <2>1. CASE frames[r] > 0
      BY <2>1 DEF Backstop, SyncInv, SyncTypeOK, FrameEndsJob
    <2>2. CASE ~(frames[r] > 0)
      <3>1. /\ frames' = [frames EXCEPT ![r] = 1]
            /\ row' = [row EXCEPT ![r].state =
                         IF @ \in Terminal THEN @ ELSE "failed"]
        BY <2>2 DEF Backstop
      <3> DEFINE ended == IF row[r].state \in Terminal THEN row[r].state ELSE "failed"
                 Shape == [state : JobState \cup {Absent}, key : Keys \cup {None},
                           idempotent : BOOLEAN, queued_at : BOOLEAN]
      <3>2. ended \in Terminal /\ ended \in JobState
        BY StateSets DEF JobState
      <3>3. row \in [Requests -> Shape] /\ frames \in [Requests -> 0 .. 1]
        BY DEF SyncInv, SyncTypeOK
      <3>4. row' = [row EXCEPT ![r].state = ended]
        BY <3>1
      <3>5. frames' \in [Requests -> 0 .. 1] /\ frames'[r] = 1
        BY <3>1, <3>3
      <3> HIDE DEF ended
      <3>6. row'[r].state = ended /\ row'[r].key = row[r].key /\ row' \in [Requests -> Shape]
        BY <3>2, <3>3, <3>4
      <3> QED BY <3>2, <3>5, <3>6
    <2> QED BY <2>1, <2>2
  <1>4. SyncTypeOK'
    BY <1>1, <1>3 DEF SyncInv, SyncTypeOK
  <1>5. Executing' = Executing /\ r \notin Executing
    BY <1>1 DEF Executing
  <1>6. KeyNamesOne' /\ HandlerOwnsJob'
    BY <1>1, <1>3, <1>5 DEF SyncInv, KeyNamesOne,
                            HandlerOwnsJob, Executing
  <1>7. RowBehindHandler' /\ FrameEndsJob' /\ DownIsIdle'
    BY <1>1, <1>3, StateSets DEF SyncInv, RowBehindHandler,
                                 FrameEndsJob, DownIsIdle,
                                 JobState
  <1>8. KilledRecovered' /\ StreamEnds'
    BY <1>1, <1>3, StateSets DEF SyncInv, KilledRecovered,
                                 StreamEnds
  <1> QED BY <1>4, <1>6, <1>7, <1>8 DEF SyncInv

\* A cancel and the watchdog move one row.
LEMMA OutsideStep ==
    ASSUME SyncInv, NEW r \in Requests, CancelJob(r) \/ Watchdog(r)
    PROVE  SyncInv'
  <1>1. PICK target \in {"cancelled", "cancelling"} :
          /\ Moves(r, target)
          /\ \/ row[r].state \in Waiting \cup {"cancelling"} /\ target = "cancelled"
             \/ row[r].state \in LeaseHolding /\ target = "cancelling"
    <2>1. CASE CancelJob(r)
      <3>1. row[r].state \in JobState \cup {Absent}
        BY DEF SyncInv, SyncTypeOK
      <3> QED BY <2>1, <3>1, CancelTargets DEF CancelJob
    <2>2. CASE Watchdog(r)
      BY <2>2 DEF Watchdog
    <2> QED BY <2>1, <2>2
  <1>2. /\ \A s \in Requests \ {r} : row'[s] = row[s]
        /\ row'[r].state = target /\ row'[r].key = row[r].key
        /\ UNCHANGED <<expired, pc, asked, watched, frames, up>>
    BY <1>1 DEF Moves, SyncInv, SyncTypeOK
  <1>3. row[r].state \in Waiting \cup InFlight /\ row[r].state \notin Terminal
    BY <1>1, StateSets DEF InFlight, Waiting, Terminal,
                           LeaseHolding
  <1>4. target \in InFlight => row[r].state \in InFlight
    BY <1>1, StateSets DEF InFlight, Terminal
  <1>5. SyncTypeOK'
    <2>1. target \in JobState
      BY <1>1, StateSets
    <2> DEFINE Columns == [state : JobState \cup {Absent}, key : Keys \cup {None},
                       idempotent : BOOLEAN, queued_at : BOOLEAN]
    <2>2. row \in [Requests -> Columns]
      BY DEF SyncInv, SyncTypeOK
    <2>3. [row[r] EXCEPT !.state = target] \in Columns
      BY <2>1, <2>2
    <2>4. row' \in [Requests -> Columns]
      BY <1>1, <2>2, <2>3 DEF Moves
    <2> QED BY <1>2, <2>4 DEF SyncInv, SyncTypeOK
  <1>6. frames[r] = 0 /\ row[r].state # Absent
    BY <1>3, StateSets DEF SyncInv, SyncTypeOK, FrameEndsJob,
                           JobState
  <1>7. Executing' = Executing /\ Executing \subseteq Requests
    BY <1>2 DEF Executing
  <1>8. KeyNamesOne' /\ HandlerOwnsJob'
    <2>1. row[r].state \in {"executing", "cancelling", "cancelled"} =>
            row[r].state \in {"executing", "cancelling"}
      BY <1>3 DEF Terminal
    <2> QED BY <1>2, <1>7, <2>1 DEF SyncInv, KeyNamesOne,
                                    HandlerOwnsJob
  <1>9. RowBehindHandler' /\ FrameEndsJob' /\ DownIsIdle'
    BY <1>2, <1>6, StateSets DEF SyncInv, RowBehindHandler,
                                 FrameEndsJob, DownIsIdle,
                                 Absent
  <1>10. KilledRecovered' /\ StreamEnds'
    BY <1>2, <1>3, <1>4, <1>6 DEF SyncInv, KilledRecovered,
                                  StreamEnds
  <1> QED BY <1>5, <1>8, <1>9, <1>10 DEF SyncInv

\* A crash ends every handler and recovery moves what is in flight.
LEMMA RestartStep ==
    ASSUME SyncInv, Crash \/ Recover
    PROVE  SyncInv'
  <1>1. CASE Crash
    <2>1. /\ \A r \in Requests : pc'[r] = IF pc[r] \in {"new", "over", "unstarted"}
                                        THEN pc[r] ELSE "killed"
          /\ ~up' /\ UNCHANGED <<row, expired, asked, watched, frames>>
      BY <1>1 DEF Crash
    <2>2. SyncTypeOK'
      BY <1>1 DEF Crash, SyncInv, SyncTypeOK
    <2>3. Executing' = {}
      BY <2>1 DEF Executing
    <2>4. KeyNamesOne' /\ HandlerOwnsJob'
      BY <2>1, <2>3 DEF SyncInv, KeyNamesOne, HandlerOwnsJob
    <2>5. RowBehindHandler' /\ FrameEndsJob' /\ DownIsIdle'
      BY <2>1 DEF SyncInv, RowBehindHandler, FrameEndsJob,
                  DownIsIdle
    <2>6. KilledRecovered' /\ StreamEnds'
      BY <2>1 DEF SyncInv, KilledRecovered, StreamEnds
    <2> QED BY <2>2, <2>4, <2>5, <2>6 DEF SyncInv
  <1>2. CASE Recover
    <2>1. ~up /\ up' /\ UNCHANGED <<expired, pc, asked, watched, frames>>
      BY <1>2 DEF Recover
    <2>2. ASSUME NEW r \in Requests
          PROVE  /\ row'[r] \in [state : JobState \cup {Absent},
                             key : Keys \cup {None}, idempotent : BOOLEAN,
                             queued_at : BOOLEAN]
                 /\ row'[r].key = row[r].key
                 /\ row[r].state \in InFlight =>
                        row'[r].state \in {"queued", "failed", "cancelled"}
                 /\ row[r].state \notin InFlight => row'[r] = row[r]
      <3> DEFINE target == recovery_target(row[r].state, row[r].idempotent)
      <3>1. row'[r] = IF target = None THEN row[r] ELSE [row[r] EXCEPT !.state = target]
        BY <1>2 DEF Recover
      <3>2. row[r] \in [state : JobState \cup {Absent},
                             key : Keys \cup {None}, idempotent : BOOLEAN,
                             queued_at : BOOLEAN]
        BY DEF SyncInv, SyncTypeOK
      <3>3. \/ row[r].state \in InFlight /\ target \in {"queued", "failed", "cancelled"}
            \/ row[r].state \notin InFlight /\ target = None
        BY <3>2, RecoveryTargets
      <3>4. {"queued", "failed", "cancelled"} \subseteq JobState /\ None \notin JobState
        BY StateSets
      <3> HIDE DEF target
      <3> QED BY <3>1, <3>2, <3>3, <3>4
    <2>3. SyncTypeOK'
      BY <1>2, <2>1, <2>2 DEF Recover, SyncInv, SyncTypeOK
    <2>4. Executing' = {}
      BY <2>1 DEF SyncInv, DownIsIdle, Executing
    <2>5. KeyNamesOne' /\ HandlerOwnsJob' /\ DownIsIdle'
      BY <2>1, <2>2, <2>4 DEF SyncInv, KeyNamesOne,
                              HandlerOwnsJob, DownIsIdle
    <2>6. \A r \in Requests : /\ row[r].state \in Terminal \cup {Absent} => row'[r] = row[r]
                              /\ row'[r].state \notin InFlight
                              /\ row'[r].state = Absent => row[r].state = Absent
      BY <2>2, StateSets DEF Absent, InFlight, Terminal,
                             LeaseHolding
    <2>7. RowBehindHandler' /\ FrameEndsJob'
      BY <2>1, <2>6 DEF SyncInv, RowBehindHandler, FrameEndsJob
    <2>8. KilledRecovered' /\ StreamEnds'
      BY <2>1, <2>6 DEF SyncInv, KilledRecovered, StreamEnds
    <2> QED BY <2>3, <2>5, <2>7, <2>8 DEF SyncInv
  <1> QED BY <1>1, <1>2

\* Every step preserves the invariant.
LEMMA SyncKeeps ==
    SyncInv /\ [SyncNext]_syncVars => SyncInv'
  <1> SUFFICES ASSUME SyncInv, [SyncNext]_syncVars PROVE SyncInv'
    OBVIOUS
  <1>1. ASSUME NEW r \in Requests, NEW key \in Keys \cup {None},
               NEW stream \in BOOLEAN, Arrive(r, key, stream)
        PROVE  SyncInv'
    <2>1. /\ asked' \in [Requests -> [key : Keys \cup {None}, stream : BOOLEAN]]
          /\ \A s \in Requests \ {r} : asked'[s] = asked[s]
      BY <1>1 DEF Arrive, SyncInv, SyncTypeOK
    <2> QED BY <1>1, <2>1, AttachStep DEF Arrive
  <1>2. ASSUME NEW r \in Requests, FailReserved(r) \/ Persist(r) PROVE SyncInv'
    BY <1>2, WriteStep DEF FailReserved, Persist
  <1>3. ASSUME NEW r \in Requests, KeyExpires(r) PROVE SyncInv'
    <2>1. /\ expired \subseteq expired' /\ expired' \subseteq Requests
          /\ UNCHANGED <<row, pc, asked, watched, frames, up>>
      BY <1>3 DEF KeyExpires, SyncInv, SyncTypeOK
    <2> QED BY <2>1 DEF SyncInv, SyncTypeOK, RowBehindHandler,
                        KeyNamesOne, HandlerOwnsJob,
               FrameEndsJob, DownIsIdle, KilledRecovered,
               StreamEnds, Executing
  <1>4. CASE UNCHANGED syncVars
    BY <1>4 DEF syncVars, SyncInv, SyncTypeOK, RowBehindHandler,
                KeyNamesOne, HandlerOwnsJob,
               FrameEndsJob, DownIsIdle, KilledRecovered,
               StreamEnds, Executing
  <1> QED BY <1>1, <1>2, <1>3, <1>4, InsertStep, HandlerStep, BackstopStep,
             OutsideStep, RestartStep DEF SyncNext

\* What every reachable state satisfies, for all requests and keys.
THEOREM SyncInvariance ==
    SyncSpec => []SyncInv
  BY SyncStarts, SyncKeeps, PTL DEF SyncSpec

-----------------------------------------------------------------------------
\* No interleaving of lookups, inserts, expiries, cancels, crashes and
\* recoveries gives two executions one unexpired key, a job two terminal
\* frames, or leaves a row in flight but behind a request that was never started
\* or a plain one that raised.
THEOREM SyncSafety ==
    SyncSpec => []SyncSafe
  <1>1. SyncInv => OneExecutionPerKey
    BY DEF SyncInv, KeyNamesOne, OneExecutionPerKey,
           Executing
  <1>2. SyncInv => OrphansRaised
    <2> SUFFICES ASSUME SyncInv, up, NEW r \in Requests,
                        pc[r] \in {"over", "unstarted", "killed"},
                        row[r].state \in InFlight
                 PROVE  /\ pc[r] = "over" => ~asked[r].stream
                        /\ pc[r] # "killed"
                        /\ frames[r] = 0
      BY DEF OrphansRaised
    <2>1. row[r].state \notin Terminal /\ row[r].state # Absent
      BY StateSets DEF JobState, Active
    <2> QED BY <2>1 DEF SyncInv, SyncTypeOK, KilledRecovered,
                        StreamEnds, FrameEndsJob
  <1>3. SyncInv => SyncSafe
    BY <1>1, <1>2 DEF SyncInv, SyncSafe
  <1> QED BY <1>3, SyncInvariance, PTL

\* A stream whose producer thread ran and ended has one terminal frame and a
\* terminal job.
THEOREM StreamsEnd ==
    SyncSpec => []StreamEnds
  <1>1. SyncInv => StreamEnds
    BY DEF SyncInv
  <1> QED BY <1>1, SyncInvariance, PTL

\* Only a cancelled job whose handler still runs changes its verdict.
THEOREM VerdictKept ==
    SyncSpec => TerminalKept
  <1>1. SyncInv /\ [SyncNext]_syncVars =>
          [\A r \in Requests :
              row[r].state \in Terminal /\ row'[r].state # row[r].state =>
                 row[r].state = "cancelled" /\ pc[r] \in {"routing", "calling"}]_syncVars
    <2> SUFFICES ASSUME SyncInv, SyncNext, NEW r \in Requests,
                        row[r].state \in Terminal, row'[r].state # row[r].state
                 PROVE  row[r].state = "cancelled" /\ pc[r] \in {"routing", "calling"}
      OBVIOUS
    <2>1. row[r].state \notin Waiting \cup InFlight \cup {Absent}
      BY DEF Absent, Terminal, Waiting, InFlight,
             LeaseHolding
    <2>2. ASSUME NEW s \in Requests, NEW key, NEW next, Attach(s, key, next) PROVE FALSE
      BY <2>2 DEF Attach, SyncInv, SyncTypeOK
    <2>3. ASSUME NEW s \in Requests, Insert(s) PROVE FALSE
      <3>1. row[s].state = Absent
        BY <2>3 DEF Insert, SyncInv, RowBehindHandler
      <3> QED BY <2>1, <2>2, <2>3, <3>1 DEF Insert, SyncInv,
                                            SyncTypeOK
    <2>4. ASSUME NEW s \in Requests, Backstop(s) PROVE FALSE
      BY <2>4 DEF Backstop, SyncInv, SyncTypeOK
    <2>5. ASSUME NEW s \in Requests, CancelJob(s) \/ Watchdog(s) PROVE FALSE
      <3>1. s = r
        BY <2>5 DEF CancelJob, Watchdog, Moves, SyncInv,
                    SyncTypeOK
      <3> QED BY <2>1, <2>5, <3>1, CancelTargets
                 DEF CancelJob, Watchdog, InFlight,
                     JobState
    <2>6. ASSUME Recover PROVE FALSE
      <3>1. recovery_target(row[r].state, row[r].idempotent) = None
        BY <2>1, RecoveryTargets DEF SyncInv, SyncTypeOK
      <3> QED BY <2>6, <3>1 DEF Recover
    <2>7. ASSUME NEW s \in Requests, NEW state, Write(s, state), pc[s] \in {"routing", "calling"}
          PROVE  row[r].state = "cancelled" /\ pc[r] \in {"routing", "calling"}
      <3>1. s = r
        BY <2>7 DEF Write, SyncInv, SyncTypeOK
      <3> QED BY <2>7, <3>1 DEF SyncInv, HandlerOwnsJob,
                                Executing, Terminal
    <2> QED BY <2>2, <2>3, <2>4, <2>5, <2>6, <2>7
            DEF SyncNext, Arrive, StopWaiting, KeyExpires, Start, StartFails,
                Route, FailReserved, Persist, Raise,
                Crash
  <1> QED BY <1>1, SyncInvariance, PTL DEF SyncSpec, TerminalKept

HIDE SyncAssumption

-----------------------------------------------------------------------------
(* LeaseKeeper: how many missed renewals a live worker's lease survives,   *)
(* that no delay of the scheduler alone costs a lease, and how late a dead *)
(* worker's is reaped.                                                     *)

USE LeaseKeeperAssumption

\* Products over the naturals, as the misses count them.
LEMMA Products ==
    ASSUME NEW m \in Nat, NEW n \in Nat, NEW k \in Nat
    PROVE  /\ 0 * k = 0 /\ m * k \in Nat
           /\ (m + 1) * k = m * k + k
           /\ m <= n => m * k <= n * k
  OBVIOUS

\* The initial states satisfy the invariant.
LEMMA KeeperStarts ==
    KeeperInit => KeeperInv
  BY DEF KeeperInit, KeeperInv, KeeperTypeOK, Fresh, Hold

\* The workers' own steps and the clock.
LEMMA WorkerSteps ==
    ASSUME KeeperInv,
           \/ Advance
           \/ \E w \in Workers : \/ Claim(w) \/ Register(w)
                                 \/ Finish(w) \/ Die(w)
    PROVE  KeeperInv'
  <1>1. CASE Advance
    BY <1>1 DEF Advance, KeeperInv, KeeperTypeOK, Fresh
  <1>2. ASSUME NEW w \in Workers, Claim(w) PROVE KeeperInv'
    <2>1. KeeperTypeOK' /\ (now <= tick.now + Gap)'
      BY <1>2 DEF Claim, KeeperInv, KeeperTypeOK, Hold
    <2> QED BY <1>2, <2>1 DEF Claim, KeeperInv, KeeperTypeOK,
                              Fresh
  <1>3. ASSUME NEW w \in Workers,
               Register(w) \/ Finish(w) \/ Die(w)
        PROVE  KeeperInv'
    <2>1. KeeperTypeOK' /\ (now <= tick.now + Gap)'
      BY <1>3 DEF Register, Finish, Die, KeeperInv,
                  KeeperTypeOK, Hold
    <2> QED BY <1>3, <2>1 DEF Register, Finish, Die,
                              KeeperInv, KeeperTypeOK, Fresh
  <1> QED BY <1>1, <1>2, <1>3

\* The steps of a tick up to the keeper's pass.
LEMMA TickSteps ==
    ASSUME KeeperInv,
           StartTick \/ KeeperNotDue \/ ReaperNotDue
    PROVE  KeeperInv'
  <1>1. CASE StartTick
    <2>1. tick'.at = "keeper" /\ tick'.now = now
      BY <1>1 DEF StartTick
    <2>2. KeeperTypeOK' /\ (now <= tick.now + Gap)'
      BY <1>1 DEF StartTick, KeeperInv, KeeperTypeOK
    <2> QED BY <1>1, <2>1, <2>2 DEF StartTick, KeeperInv,
                                    KeeperTypeOK, Fresh
  <1>2. CASE KeeperNotDue \/ ReaperNotDue
    <2>1. /\ tick'.now = tick.now
          /\ tick' \in [at : {"idle", "keeper", "reaper"}, now : 0 .. now]
          /\ UNCHANGED <<now, last, hold, expires, renewed, missed>>
          /\ tick.at # "keeper" \/ ~Due("keeper", Renewal)
      BY <1>2 DEF KeeperNotDue, ReaperNotDue, KeeperInv,
                  KeeperTypeOK
    <2> QED BY <2>1 DEF Due, KeeperInv, KeeperTypeOK, Fresh
  <1> QED BY <1>1, <1>2

\* A keeper pass at a due tick, whether it renews every hold or raises midway:
\* the holds of S start afresh, the others count one miss more.
LEMMA KeeperPass ==
    ASSUME KeeperInv, tick.at = "keeper",
           \E S \in SUBSET Registered : Renew(S),
           last' = [last EXCEPT !.keeper = tick.now],
           tick' \in [at : {"idle", "reaper"}, now : {tick.now}],
           UNCHANGED <<now, hold>>
    PROVE  KeeperInv'
  <1>1. PICK S \in SUBSET Registered : Renew(S)
    OBVIOUS
  <1>2. last'.keeper = tick.now /\ last'.reaper = last.reaper
    BY DEF KeeperInv, KeeperTypeOK
  <1>3. tick'.now = tick.now /\ tick'.at \in {"idle", "reaper"}
    OBVIOUS
  <1>4. KeeperTypeOK' /\ (now <= tick.now + Gap)'
    BY <1>1, <1>2, <1>3 DEF Renew, KeeperInv, KeeperTypeOK
  <1>5. ASSUME NEW w \in Workers
        PROVE  (Fresh(w) /\ (hold[w] = "claimed" => ~renewed[w]))'
    <2>1. CASE w \in S
      <3>1. /\ hold[w] = "registered" /\ expires'[w] = tick.now + Lease
            /\ missed'[w] = 0
        BY <1>1, <2>1 DEF Renew, Registered
      <3> QED BY <1>2, <1>3, <3>1, Products
                 DEF Fresh, KeeperInv, KeeperTypeOK
    <2>2. CASE w \notin S /\ hold[w] = "registered"
      <3>1. /\ expires'[w] = expires[w] /\ renewed'[w] = renewed[w]
            /\ missed'[w] = missed[w] + 1
        BY <1>1, <2>2 DEF Renew, KeeperInv, KeeperTypeOK
      <3>2. missed'[w] * (Renewal + Gap)
              = missed[w] * (Renewal + Gap) + (Renewal + Gap)
        BY <3>1, Products DEF KeeperInv, KeeperTypeOK
      <3>3. missed[w] * (Renewal + Gap) \in Nat
        BY Products DEF KeeperInv, KeeperTypeOK
      <3> HIDE DEF KeeperInv
      <3>4. renewed[w] => /\ tick.now < last.keeper + Renewal + Gap
                          /\ last.keeper + Lease <=
                                expires[w] + missed[w] * (Renewal + Gap)
        BY <2>2 DEF KeeperInv, Fresh
      <3>5. renewed[w] => tick.now + Lease <=
                             expires[w] + missed'[w] * (Renewal + Gap)
        BY <3>2, <3>3, <3>4 DEF KeeperInv, KeeperTypeOK
      <3> QED BY <1>2, <1>3, <2>2, <3>1, <3>5
                 DEF Fresh, KeeperInv, KeeperTypeOK
    <2>3. CASE hold[w] # "registered"
      <3>1. renewed'[w] = renewed[w]
        BY <1>1, <2>3 DEF Renew, Registered, KeeperInv,
                          KeeperTypeOK
      <3> QED BY <1>2, <1>3, <2>3, <3>1 DEF Fresh, KeeperInv,
                                            KeeperTypeOK
    <2> QED BY <2>1, <2>2, <2>3
  <1> QED BY <1>4, <1>5 DEF KeeperInv

\* Every step preserves the invariant.
LEMMA KeeperKeeps ==
    KeeperInv /\ [KeeperNext]_keeperVars => KeeperInv'
  <1> SUFFICES ASSUME KeeperInv, [KeeperNext]_keeperVars PROVE KeeperInv'
    OBVIOUS
  <1>1. CASE KeepLeases \/ KeeperFails
    <2>1. /\ tick.at = "keeper"
          /\ \E S \in SUBSET Registered : Renew(S)
          /\ last' = [last EXCEPT !.keeper = tick.now]
          /\ UNCHANGED <<now, hold>>
      BY <1>1 DEF KeepLeases, KeeperFails
    <2>2. tick' \in [at : {"idle", "reaper"}, now : {tick.now}]
      BY <1>1 DEF KeepLeases, KeeperFails, KeeperInv,
                  KeeperTypeOK
    <2> QED BY <2>1, <2>2, KeeperPass
  <1>2. CASE ReapExpiredLeases
    <2>1. /\ tick'.now = tick.now /\ tick'.at = "idle" /\ tick.at = "reaper"
          /\ last'.keeper = last.keeper
      BY <1>2 DEF ReapExpiredLeases, KeeperInv, KeeperTypeOK
    <2>2. KeeperTypeOK' /\ (now <= tick.now + Gap)'
      BY <1>2, <2>1 DEF ReapExpiredLeases, KeeperInv, KeeperTypeOK,
                        Hold
    <2>3. \A w \in Workers : hold'[w] \in {hold[w], "none", "lost"}
      BY <1>2 DEF ReapExpiredLeases
    <2> QED BY <1>2, <2>1, <2>2, <2>3 DEF ReapExpiredLeases,
                                          KeeperInv, KeeperTypeOK,
                                          Fresh
  <1>3. CASE UNCHANGED keeperVars
    BY <1>3 DEF keeperVars, KeeperInv, KeeperTypeOK, Fresh
  <1> QED BY <1>1, <1>2, <1>3, WorkerSteps, TickSteps DEF KeeperNext

\* The age of every lease is bounded by its misses, for all settings.
THEOREM KeeperInvariance ==
    KeeperSpec => []KeeperInv
  BY KeeperStarts, KeeperKeeps, PTL DEF KeeperSpec

\* The margin: a lease of (n + 1) renewal intervals and n tick delays survives
\* n missed renewals in a row, for every n, every interval and every delay.
\* With n = 0 the delay does not matter: since the keeper runs before the
\* reaper, no stall of the scheduler thread alone costs a worker its lease.
THEOREM Margin ==
    ASSUME Lease >= Tolerated * (Renewal + Gap) + Renewal
    PROVE  KeeperSpec => SurvivesMisses
  <1>1. KeeperInv /\ [KeeperNext]_keeperVars =>
          [\A w \in Workers :
              hold[w] = "registered" /\ hold'[w] = "lost" /\ renewed[w] =>
                  missed[w] > Tolerated]_keeperVars
    <2> SUFFICES ASSUME KeeperInv, KeeperNext, NEW w \in Workers,
                        hold[w] = "registered", hold'[w] = "lost", renewed[w],
                        missed[w] <= Tolerated
                 PROVE  FALSE
      BY DEF KeeperInv, KeeperTypeOK
    <2>1. ReapExpiredLeases
      BY DEF KeeperNext, Advance, Claim, Register,
             Finish, Die, StartTick, KeepLeases,
             KeeperFails, KeeperNotDue, ReaperNotDue,
             KeeperInv, KeeperTypeOK
    <2>2. tick.at = "reaper" /\ expires[w] < tick.now
      BY <2>1 DEF ReapExpiredLeases, Expired
    <2>3. /\ tick.now < last.keeper + Renewal
          /\ last.keeper + Lease <= expires[w] + missed[w] * (Renewal + Gap)
      BY <2>2 DEF KeeperInv, Fresh
    <2>4. /\ missed[w] * (Renewal + Gap) <= Tolerated * (Renewal + Gap)
          /\ missed[w] * (Renewal + Gap) \in Nat
          /\ Tolerated * (Renewal + Gap) \in Nat
      BY Products DEF KeeperInv, KeeperTypeOK
    <2> QED BY <2>2, <2>3, <2>4 DEF KeeperInv, KeeperTypeOK
  <1> QED BY <1>1, KeeperInvariance, PTL DEF KeeperSpec, SurvivesMisses

-----------------------------------------------------------------------------
(* How late a dead worker's lease is reaped.                               *)

\* Outside the keeper's and the reaper's passes a lease only gets younger.
LEMMA LapseSteps ==
    ASSUME ReapInv, Gap < Renewal,
           \/ Advance \/ StartTick
           \/ KeeperNotDue \/ ReaperNotDue
           \/ \E w \in Workers : \/ Claim(w) \/ Register(w)
                                 \/ Finish(w) \/ Die(w),
           NEW v \in Workers
    PROVE  Lapse(v)'
  <1>1. CASE Advance
    BY <1>1 DEF Advance, ReapInv, Lapse, Due
  <1>2. CASE StartTick
    <2>1. tick'.at = "keeper" /\ tick'.now = now
      BY <1>2 DEF StartTick
    <2> QED BY <1>2, <2>1 DEF StartTick, ReapInv, KeeperInv,
                              KeeperTypeOK, Lapse, Due
  <1>3. CASE KeeperNotDue
    <2>1. tick'.at = "reaper" /\ tick'.now = tick.now
      BY <1>3 DEF KeeperNotDue, ReapInv, KeeperInv,
                  KeeperTypeOK
    <2> QED BY <1>3, <2>1 DEF KeeperNotDue, ReapInv, Lapse
  <1>4. CASE ReaperNotDue
    <2>1. tick'.at = "idle" /\ tick'.now = tick.now
      BY <1>4 DEF ReaperNotDue, ReapInv, KeeperInv,
                  KeeperTypeOK
    <2> QED BY <1>4, <2>1 DEF ReaperNotDue, ReapInv, KeeperInv,
                              KeeperTypeOK, Lapse, Due
  <1>5. ASSUME NEW w \in Workers, Claim(w) PROVE Lapse(v)'
    BY <1>5 DEF Claim, ReapInv, KeeperInv, KeeperTypeOK,
                Lapse, Due
  <1>6. ASSUME NEW w \in Workers,
               Register(w) \/ Finish(w) \/ Die(w)
        PROVE  Lapse(v)'
    BY <1>6 DEF Register, Finish, Die, ReapInv,
                KeeperInv, KeeperTypeOK, Lapse, Due
  <1> QED BY <1>1, <1>2, <1>3, <1>4, <1>5, <1>6

\* A keeper pass renews a lease or leaves its age alone; the tick it cuts short
\* was the first the reaper could have been due in.
LEMMA LapseKeeper ==
    ASSUME ReapInv,
           KeepLeases \/ KeeperFails, NEW v \in Workers
    PROVE  Lapse(v)'
  <1>1. PICK S \in SUBSET Registered : Renew(S)
    BY DEF KeepLeases, KeeperFails
  <1>2. /\ tick.at = "keeper" /\ Due("keeper", Renewal)
        /\ tick'.now = tick.now /\ tick'.at \in {"idle", "reaper"}
        /\ last'.keeper = tick.now /\ last'.reaper = last.reaper
        /\ hold' = hold
    BY DEF KeepLeases, KeeperFails, ReapInv, KeeperInv,
           KeeperTypeOK
  <1>3. expires'[v] = tick.now + Lease \/ expires'[v] = expires[v]
    BY <1>1 DEF Renew
  <1> QED BY <1>2, <1>3 DEF ReapInv, KeeperInv, KeeperTypeOK,
                            Lapse

\* A reaper pass leaves only leases that have not expired at its instant.
LEMMA LapseReaper ==
    ASSUME ReapInv, ReapExpiredLeases, NEW v \in Workers
    PROVE  Lapse(v)'
  <1>1. /\ tick'.at = "idle" /\ tick'.now = tick.now
        /\ last'.reaper = tick.now
        /\ expires' = expires
    BY DEF ReapExpiredLeases, ReapInv, KeeperInv, KeeperTypeOK
  <1>2. hold'[v] \in {"claimed", "registered", "dead"} => expires[v] >= tick.now
    BY DEF ReapExpiredLeases, Expired, ReapInv,
           KeeperInv, KeeperTypeOK, Hold
  <1> QED BY <1>1, <1>2 DEF ReapInv, KeeperInv, KeeperTypeOK,
                            Lapse

\* Every lease of a dead thread is reaped within one reaper interval and two
\* ticks of its expiry, whatever the workers do and whichever keeper passes
\* fail, provided a tick starts before the keeper is due again after the tick
\* before it.  Without that hypothesis every tick can be cut short by a failing
\* keeper and the reaper never runs.
THEOREM DeadLeases ==
    ASSUME Gap < Renewal
    PROVE  KeeperSpec => []KeeperSafe
  <1>1. KeeperInit => ReapInv
    BY KeeperStarts DEF KeeperInit, ReapInv, Lapse
  <1>2. ReapInv /\ [KeeperNext]_keeperVars => ReapInv'
    <2> SUFFICES ASSUME ReapInv, [KeeperNext]_keeperVars
                 PROVE  ReapInv'
      OBVIOUS
    <2>1. KeeperInv'
      BY KeeperKeeps DEF ReapInv
    <2>2. ASSUME NEW v \in Workers PROVE Lapse(v)'
      <3>1. CASE UNCHANGED keeperVars
        BY <3>1 DEF keeperVars, ReapInv, Lapse, Due
      <3> QED BY <3>1, LapseSteps, LapseKeeper, LapseReaper DEF KeeperNext
    <2> QED BY <2>1, <2>2 DEF ReapInv
  <1>3. ReapInv => KeeperSafe
    BY DEF ReapInv, KeeperInv, KeeperTypeOK, Lapse,
           KeeperSafe, DeadLeaseReaped
  <1> QED BY <1>1, <1>2, <1>3, PTL DEF KeeperSpec
=============================================================================

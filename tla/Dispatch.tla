------------------------------ MODULE Dispatch ------------------------------
(***************************************************************************)
(* One job from its claim to its end: the worker routes it with the        *)
(* machine as it is, admits, defers or fails it (services/worker.py,       *)
(* domain/admission.py), the scheduler re-evaluates the deferral, and the  *)
(* attempts follow the failure table (domain/retry_policy.py).             *)
(*                                                                         *)
(* The row's own transitions, leases and cancellation are in JobQueue;     *)
(* here a job is what routing and the attempts make of it.  The machine    *)
(* changes between the reads a routing is made of, and between the routing *)
(* and what is done with the answer.                                       *)
(***************************************************************************)
EXTENDS Routing

CONSTANT Worlds   \* case -> [w, q, machines, moves]: what is stored, the request, the
                  \* states the machine may be in, and a bound on how often it changes

\* PROTOCOL_ERROR_RETRIES
ProtocolRetries == 1

VARIABLES world,     \* a case of Worlds, fixed
          machine,   \* telemetry, residency, in-flight jobs and breakers
          job,       \* the job row: state, deferral record, attempts spent
          view,      \* what the latest routing has read of the machine
          decision,  \* the routing decision of the latest claim
          run,       \* the attempt loop of the worker that holds the job
          moves,     \* how often the machine has changed
          quiet      \* no change since the latest routing began to read

dispatchVars == <<world, machine, job, view, decision, run, moves, quiet>>

w == Worlds[world].w
q == Worlds[world].q
Machines == Worlds[world].machines

-----------------------------------------------------------------------------
(* What admission sees of the machine.  machine = [gpus, ram, rows, others,*)
(* open, probing]: rows of residency [canonical, gpu, bytes], in-flight    *)
(* jobs [canonical, gpu, bytes], subjects whose breaker is open, and those *)
(* half-open with a probe out.                                             *)

\* resident_canonical_ids, and resident_devices.
LoadedModels(mc)   == {r.canonical : r \in mc.rows}
Resident(mc) == {<<r.canonical, r.gpu>> : r \in mc.rows}

\* The sum of a field's bytes over records on one device.
BytesOn(records, g) ==
    SumFunction([r \in records |-> IF r.gpu = g /\ r.bytes # None THEN r.bytes ELSE 0])

\* reserved_bytes_by_device: what other in-flight jobs will hold, unless the
\* model is resident there, where telemetry already counts it.
Reservations(mc) == {o \in mc.others : <<o.canonical, o.gpu>> \notin Resident(mc)}

\* evictable_bytes_by_device: what idle resident models would give back.
Evictable(mc) == {r \in mc.rows : \A o \in mc.others : o.canonical # r.canonical}

\* admission_snapshot, adjust_snapshot: used memory per device, raised by
\* what is reserved and lowered by what can be evicted.
AdjustSnapshot(mc) ==
    [ram |-> mc.ram,
     gpus |-> [g \in DOMAIN mc.gpus |->
        LET gpu == mc.gpus[g]
        IN  IF gpu.used = None \/ gpu.total = None
            THEN [total |-> gpu.total, used |-> None]
            ELSE [total |-> gpu.total,
                  used  |-> Min({gpu.total,
                                 Max({0, gpu.used + BytesOn(Reservations(mc), g)
                                           - BytesOn(Evictable(mc), g)})})]]]

\* CircuitBreakers.excluded.
Excluded(mc) == mc.open \cup mc.probing

\* What a routing reads of a machine that does not change meanwhile: the five
\* reads, and, of the subjects excluded, those that were half-open.
RoutingView(mc) ==
    [snapshot |-> AdjustSnapshot(mc), loaded |-> LoadedModels(mc), breakers |-> Excluded(mc),
     halfOpen |-> mc.probing, resident |-> Resident(mc), details |-> mc.probing]

\* What telemetry, residency and the queue can report; the worker has a snapshot
\* and a breaker state, empty or not.
IsMachine(mc) ==
    /\ DOMAIN mc.gpus \subseteq Nat
    /\ \A g \in DOMAIN mc.gpus : {mc.gpus[g].total, mc.gpus[g].used} \subseteq NatOrNone
    /\ IsFiniteSet(mc.rows) /\ IsFiniteSet(mc.others)
    /\ \A r \in mc.rows \cup mc.others : r.bytes \in NatOrNone
    /\ AdjustSnapshot(mc) # None
    /\ \A subjects \in SUBSET (mc.open \cup mc.probing) : subjects # None

ASSUME WorldsAssumption ==
    \A k \in DOMAIN Worlds :
        /\ IsStored(Worlds[k].w) /\ IsRequest(Worlds[k].q)
        /\ \A mc \in Worlds[k].machines : IsMachine(mc)
        /\ Worlds[k].w.task.max_attempts \in Nat \ {0} /\ Worlds[k].moves \in Nat

-----------------------------------------------------------------------------
(* Admission.                                                              *)

\* RESOURCE_REJECTION_REASONS
ResourceReasons == {"insufficient_vram", "insufficient_ram"}

\* Mutant: a probe in flight is a verdict about the model.
ClassifyRejectionsHard(rejected, details) ==
    LET short == {r \in rejected : r.reason \in ResourceReasons}
        known == {r.estimate : r \in {s \in short : s.estimate # None}}
    IN  [defer |-> short # {}, required |-> IF known = {} THEN None ELSE Min(known),
         candidates |-> {r.subject.facts.canonical_id : r \in short}, probes |-> {}]

\* classify_rejections: a shortage or a probe in flight is waited for, anything
\* else is permanent; both are recorded by canonical id.  A probe in flight is
\* known from the details of the breakers.
ClassifyRejections(rejected, details) ==
    LET short   == {r \in rejected : r.reason \in ResourceReasons}
        probing == {r \in rejected :
                       /\ r.reason = "recently_failing"
                       /\ SubjectOf(r.subject.facts, r.subject.adapter) \in details}
        known   == {r.estimate : r \in {s \in short : s.estimate # None}}
    IN  [defer |-> short # {} \/ probing # {},
         required |-> IF known = {} THEN None ELSE Min(known),
         candidates |-> {r.subject.facts.canonical_id : r \in short},
         probes |-> {r.subject.facts.canonical_id : r \in probing}]

\* Mutant: a deferral is looked at again whenever any memory is free.
WaitingJobCanProceedHopeful(record, gpus, headroom, resident) ==
    \E g \in DOMAIN gpus : FreeVram(gpus[g]) # None /\ FreeVram(gpus[g]) > 0

\* Mutant: a model that has become resident wakes nobody.
WaitingJobCanProceedDeaf(record, gpus, headroom, resident) ==
    DeviceFits(record.required, gpus, headroom) # {}

\* waiting_job_can_proceed.
WaitingJobCanProceed(record, gpus, headroom, resident) ==
    \/ \E g \in DOMAIN gpus, c \in record.candidates : <<c, g>> \in resident
    \/ DeviceFits(record.required, gpus, headroom) # {}

\* reevaluate_waiting: whether the deferred job is put back.  The subject
\* string of a bare model is its canonical id, that of an adapter is not.
Proceeds(record, mc) ==
    LET snapshot == AdjustSnapshot(mc)
        stillOut == {c \in record.probes : <<c, "">> \in Excluded(mc)}
    IN  IF record.probes # {} /\ stillOut = {} THEN TRUE
        ELSE IF record.probes # {} /\ record.candidates = {} THEN FALSE
        ELSE IF DOMAIN snapshot.gpus = {} THEN TRUE
        ELSE WaitingJobCanProceed(record, snapshot.gpus, w.policy.headroom, Resident(mc))

NoDecision == [error |-> "none", ordered |-> <<>>, fallbacks |-> <<>>,
               rejected |-> {}, budget |-> None, flags |-> {}, evidence |-> None]

NoView == [snapshot |-> None, loaded |-> {}, breakers |-> {}, halfOpen |-> {},
           resident |-> {}, details |-> {}]

NoRun == [index |-> 0, here |-> 0, tried |-> <<>>, last |-> None, sent |-> None]

DispatchInit ==
    /\ world \in DOMAIN Worlds /\ machine \in Machines
    /\ job = [state |-> "queued", record |-> None, attempt |-> 0]
    /\ view = NoView /\ decision = NoDecision /\ run = NoRun /\ moves = 0 /\ quiet = TRUE

\* A read of _route, from one state of the job to the next.
Reads(from, to) ==
    /\ job.state = from /\ job' = [job EXCEPT !.state = to]
    /\ UNCHANGED <<world, machine, decision, run, moves, quiet>>

\* A worker claims the job; _route reads first the snapshot ...
ReadSnapshot ==
    /\ job.state = "queued" /\ job' = [job EXCEPT !.state = "snapshot_read"]
    /\ view' = [NoView EXCEPT !.snapshot = AdjustSnapshot(machine)]
    /\ decision' = NoDecision /\ quiet' = TRUE
    /\ UNCHANGED <<world, machine, run, moves>>

\* ... then what is loaded, which breakers exclude, where models are resident, ...
ReadLoaded ==
    /\ Reads("snapshot_read", "loaded_read")
    /\ view' = [view EXCEPT !.loaded = LoadedModels(machine)]

ReadExcluded ==
    /\ Reads("loaded_read", "excluded_read")
    /\ view' = [view EXCEPT !.breakers = Excluded(machine), !.halfOpen = machine.probing]

ReadDevices ==
    /\ Reads("excluded_read", "devices_read")
    /\ view' = [view EXCEPT !.resident = Resident(machine)]

\* ... and last the details of the breakers; then it routes.
RouteJob ==
    /\ job.state = "devices_read"
    /\ view' = [view EXCEPT !.details = machine.probing]
    /\ decision' = Route(w, view', q)
    /\ job' = [job EXCEPT !.state = "leased",
                          !.record = ClassifyRejections(decision'.rejected, view'.details)]
    /\ UNCHANGED <<world, machine, run, moves, quiet>>

\* _defer
Defer ==
    /\ job.state = "leased" /\ decision.error = "NO_ELIGIBLE_MODEL" /\ job.record.defer
    /\ job' = [job EXCEPT !.state = "waiting"]
    /\ UNCHANGED <<world, machine, view, decision, run, moves, quiet>>

\* _fail_admission, and the refusals that are not about candidates.
FailAdmission ==
    /\ job.state = "leased" /\ decision.error # None
    /\ decision.error = "NO_ELIGIBLE_MODEL" => ~job.record.defer
    /\ job' = [job EXCEPT !.state = "refused"]
    /\ UNCHANGED <<world, machine, view, decision, run, moves, quiet>>

\* _admit
Admit ==
    /\ job.state = "leased" /\ decision.error = None
    /\ job' = [job EXCEPT !.state = "admitted"]
    /\ run' = [NoRun EXCEPT !.index = 1]
    /\ UNCHANGED <<world, machine, view, decision, moves, quiet>>

\* reevaluate_waiting
Reevaluate ==
    /\ job.state = "waiting" /\ Proceeds(job.record, machine)
    /\ job' = [job EXCEPT !.state = "queued"]
    /\ UNCHANGED <<world, machine, view, decision, run, moves, quiet>>

-----------------------------------------------------------------------------
(* The attempts.                                                           *)

Candidates == <<decision.ordered[1]>> \o decision.fallbacks
Tokens(i) == Candidates[i].subject.served.tokens
SubjectAt(i) == SubjectOf(Candidates[i].subject.facts, Candidates[i].subject.adapter)

\* next_candidate_index: the next in rank, of a larger context if need be.
NextCandidate(current, larger) ==
    LET later == {i \in current + 1 .. Len(Candidates) :
                    larger => Tokens(i) > Tokens(current)}
    IN  IF later = {} THEN None ELSE Min(later)

\* Mutant: every failure is worth another try.
NextActionStubborn(kind, here) ==
    IF kind = "cancelled" THEN "stop" ELSE "retry_same"

\* next_action: the failure table.
NextAction(kind, here) ==
    CASE kind = "cancelled"                                          -> "stop"
      [] kind \in {"timeout", "validation"} /\ here < w.task.attempts -> "retry_same"
      [] kind = "protocol" /\ here <= ProtocolRetries                 -> "retry_same"
      [] OTHER                                                        -> "fallback"

\* The state after the candidates ran out, or were all skipped.
Ended(state) == job' = [job EXCEPT !.state = state] /\ run' = [run EXCEPT !.index = 0]

\* allow_probe refused while another probe is out: the candidate is skipped,
\* and with none left the job goes back to the queue.
SkipBusyProbe ==
    /\ job.state = "admitted" /\ run.here = 0
    /\ SubjectAt(run.index) \in machine.probing
    /\ LET next == NextCandidate(run.index, FALSE)
       IN  IF next = None THEN Ended("queued")
           ELSE run' = [run EXCEPT !.index = next] /\ UNCHANGED job
    /\ UNCHANGED <<world, machine, view, decision, moves, quiet>>

\* The sampling an attempt is sent with: what the request states over what the
\* profile states (sampling_for).
SentOutput == IF q.output = None THEN w.task.output ELSE q.output

\* _start_executing and the provider call, unless the job's attempts are spent.
StartAttempt ==
    /\ job.state = "admitted"
    /\ run.here = 0 => SubjectAt(run.index) \notin machine.probing
    /\ IF job.attempt >= w.task.max_attempts
       THEN Ended("failed")
       ELSE /\ job' = [job EXCEPT !.state = "executing", !.attempt = @ + 1]
            /\ run' = [run EXCEPT !.here = @ + 1, !.tried = Append(@, run.index),
                                  !.sent = SentOutput]
    /\ UNCHANGED <<world, machine, view, decision, moves, quiet>>

\* The provider's answer passes validation.
Completes ==
    /\ job.state = "executing" /\ Ended("completed")
    /\ UNCHANGED <<world, machine, view, decision, moves, quiet>>

\* The attempt fails: retry here, fall back, or end.
AttemptFails(kind) ==
    /\ job.state = "executing"
    /\ LET action == NextAction(kind, run.here)
           next   == NextCandidate(run.index, kind = "context_limit")
       IN  IF action = "stop" THEN Ended("cancelled")
           ELSE IF action = "retry_same"
           THEN IF job.attempt >= w.task.max_attempts THEN Ended("failed")
                ELSE /\ job' = [job EXCEPT !.state = "admitted"]
                     /\ run' = [run EXCEPT !.last = kind]
           ELSE IF next = None THEN Ended("failed")
           ELSE /\ job' = [job EXCEPT !.state = "admitted"]
                /\ run' = [run EXCEPT !.index = next, !.here = 0, !.last = kind]
    /\ UNCHANGED <<world, machine, view, decision, moves, quiet>>

\* FailureKind
FailureKinds == {"timeout", "connection", "protocol", "validation", "context_limit",
                 "cancelled", "rejected"}

-----------------------------------------------------------------------------
(* The machine changes by itself: other jobs, other programs, breakers.    *)

MachineChanges ==
    /\ moves < Worlds[world].moves
    /\ \E mc \in Machines : mc # machine /\ machine' = mc
    /\ moves' = moves + 1 /\ quiet' = FALSE
    /\ UNCHANGED <<world, job, view, decision, run>>

Claiming == ReadSnapshot \/ ReadLoaded \/ ReadExcluded \/ ReadDevices
              \/ RouteJob \/ Defer \/ FailAdmission \/ Admit
Attempting == SkipBusyProbe \/ StartAttempt \/ Completes
                \/ \E kind \in FailureKinds : AttemptFails(kind)

DispatchNext == Claiming \/ Reevaluate \/ Attempting \/ MachineChanges

\* The scheduler keeps re-evaluating; nothing is promised of the machine, and
\* nothing more is needed of the workers.
DispatchSpec == DispatchInit /\ [][DispatchNext]_dispatchVars /\ WF_dispatchVars(Reevaluate)
-----------------------------------------------------------------------------
(* Properties.                                                             *)

Jobs == {"queued", "snapshot_read", "loaded_read", "excluded_read", "devices_read", "leased",
         "waiting", "refused", "admitted", "executing", "completed", "failed", "cancelled"}

\* Every variable has its type.
DispatchTypeOK ==
    /\ world \in DOMAIN Worlds /\ machine \in Machines
    /\ job.state \in Jobs /\ job.attempt \in Nat
    /\ run.index \in 0 .. Len(decision.ordered) /\ run.here \in Nat
    /\ moves \in 0 .. Worlds[world].moves /\ quiet \in BOOLEAN

Ranked == {decision.ordered[i] : i \in DOMAIN decision.ordered}

\* route(), budget_context: each candidate in the ranking can serve the
\* request with an answer the profile accepts, and the allowance in the
\* decision is one that fits the selected candidate.
Budgeted ==
    LET asked == RequestedOutput(w, q)
        least == IF w.task.min_output = None THEN asked
                 ELSE Min({asked, w.task.min_output})
        Fits(r, output) == q.input + output + SafetyMargin <= r.subject.served.tokens
    IN  (q.input # None /\ Ranked # {}) =>
            /\ \A r \in Ranked : \E output \in least .. asked : Fits(r, output)
            /\ decision.budget.output \in least .. asked
            /\ Fits(decision.ordered[1], decision.budget.output)

\* device_fits, admission_snapshot: a candidate is aimed at a device that
\* holds it already, or that alone has room for it once the jobs in flight
\* have what was estimated for them and idle models are gone.
DeviceHolds ==
    (quiet /\ DOMAIN machine.gpus # {}) =>
        \A r \in Ranked :
            LET g     == r.target
                idle  == {o \in machine.rows : ~\E j \in machine.others : j.canonical = o.canonical}
                owed  == {j \in machine.others :
                            ~\E o \in machine.rows : o.canonical = j.canonical /\ o.gpu = j.gpu}
            IN  \/ \E o \in machine.rows : o.canonical = r.subject.facts.canonical_id /\ o.gpu = g
                \/ /\ r.estimate # None
                   /\ machine.gpus[g].used # None /\ machine.gpus[g].total # None
                   /\ r.estimate + w.policy.headroom + machine.gpus[g].used + BytesOn(owed, g)
                        <= machine.gpus[g].total + BytesOn(idle, g)

\* A stored measurement of this subject, under the profile it would run with and
\* from a machine that counts.
Concerns(e, s) ==
    /\ e.match_state = "bound" /\ <<e.model, e.adapter>> = KeyOf(s)
    /\ e.profile = s.profile
    /\ (e.machine # None /\ w.policy.machine # None /\ e.machine # w.policy.machine)
            => e.capability \notin PerformanceCapabilities

\* One that describes this execution with enough confidence.
Describes(e, s) == Concerns(e, s) /\ e.confidence >= MinConfidence

\* _check_adapter with bound_signals_for_routing: without a pin, an adapter is
\* ranked only on a measurement of that adapter on that model, under the profile
\* it would run with, of the capability the task weighs most.
AdapterGate ==
    (w.policy.gate /\ q.overrides.adapter = None) =>
        \A r \in Ranked : r.subject.adapter # None =>
            \E e \in w.evidence : Describes(e, r.subject)
                                    /\ e.capability = TopWeighted(w.task.weights)

\* The decision as the caller sees it.
Shown(d) == [i \in DOMAIN d.ordered |->
    <<SubjectOf(d.ordered[i].subject.facts, d.ordered[i].subject.adapter),
      FinalScore(d.ordered[i]), d.ordered[i].target>>]

\* resolve_capability, collapse_evidence: a measurement that does not concern the
\* execution it is stored for changes nothing, neither the order nor a score.
ExclusionNeutral ==
    (job.state = "leased" /\ quiet /\ decision.error \in {None, "NO_ELIGIBLE_MODEL"}) =>
        LET pool   == ReadCandidates(w)
            merged == MergedConstraints(w.task.constraints, q.constraints)
            kept   == {e \in w.evidence : \E i \in DOMAIN pool :
                          Concerns(e, BuildSubject(w, q, merged, pool[i]))}
        IN  Shown(decision) = Shown(Route([w EXCEPT !.evidence = kept],
                                          RoutingView(machine), q))

\* build_explanation: a decision without the low_evidence flag rests, for the
\* weight it promises, on measurements that describe the selected subject or on
\* manual scores of the bare model.
HonestEvidence ==
    (Ranked # {} /\ "low_evidence" \notin decision.flags) =>
        LET s == decision.ordered[1].subject
            Rests(c) ==
                \/ \E e \in w.evidence : Describes(e, s) /\ e.capability = c
                \/ /\ s.adapter = None
                   /\ \E i \in DOMAIN w.capabilities[s.facts.model_id] :
                        LET row == w.capabilities[s.facts.model_id][i]
                        IN  /\ row.capability = c /\ row.source = "manual"
                            /\ row.score # None /\ row.confidence >= MinConfidence
        IN  SumFunctionOnSet(w.task.weights, {c \in DOMAIN w.task.weights : Rests(c)})
                >= w.policy.min_present

\* route(), rank_candidates: a pinned model or adapter is what runs, or nothing
\* does; no attempt ever runs the bare model in place of a pinned adapter.
PinHonoured ==
    \A i \in DOMAIN run.tried :
        LET s == Candidates[run.tried[i]].subject
        IN  job.state \in {"admitted", "executing"} =>
              /\ q.overrides.model # None => s.facts.canonical_id = q.overrides.model
              /\ q.overrides.adapter # None =>
                    s.adapter # None /\ s.adapter.name = q.overrides.adapter

\* _merged_constraints: whatever a request adds, what is ranked satisfies every
\* constraint of the task profile.
ProfileRespected ==
    \A r \in Ranked :
        LET s == r.subject   base == w.task.constraints
        IN  /\ s.served.tokens >= base.min_context
            /\ s.facts.canonical_id \notin base.exclude
            /\ s.facts.remote => base.allow_remote
            /\ \A c \in base.requires : Supports(s.provider, c)
            /\ \A c \in DOMAIN r.fit.scores \cap DOMAIN base.min_scores :
                  r.fit.scores[c].score # None => r.fit.scores[c].score >= base.min_scores[c]

\* _attempts: the job's attempts and those on one candidate are bounded, and
\* candidates are tried in the order of their rank, never one again after another.
AttemptsBounded ==
    /\ job.attempt <= w.task.max_attempts
    /\ \A i, k \in DOMAIN run.tried : i < k => run.tried[i] <= run.tried[k]
    /\ \A c \in ToSet(run.tried) :
          Cardinality({i \in DOMAIN run.tried : run.tried[i] = c})
              <= Max({w.task.attempts, 1 + ProtocolRetries})

\* The probes that were out when the breakers were asked for what they exclude
\* and were over when they were asked for its details.
Torn == view.halfOpen \ view.details

\* classify_rejections: a job fails at admission only if no memory the machine
\* comes to have free would let it run, and no end of a probe either, unless
\* the probe ended between the two looks at the breakers: that one is taken for
\* an open breaker, as its details are gone.
FailureIsPermanent ==
    (job.state = "refused" /\ decision.error = "NO_ELIGIBLE_MODEL") =>
        \A mc \in Machines :
            Route(w, [RoutingView(mc) EXCEPT
                        !.breakers = (view.breakers \ view.halfOpen) \cup Torn], q).ordered = <<>>

\* reevaluate_waiting: while nothing has changed, a deferred job stays deferred;
\* on a machine with a device, and for a job that waits for no adapter's probe.
NoBounce ==
    (/\ quiet /\ job.state = "waiting" /\ DOMAIN machine.gpus # {}
     /\ \A s \in machine.probing : s[2] = "")
        => ~Proceeds(job.record, machine)

\* The subjects that would be admitted with the machine as it is.
AdmittedNow ==
    {r.subject.facts.canonical_id : r \in ToSet(Route(w, RoutingView(machine), q).ordered)}

\* The job is deferred for a model that would be admitted.
Overlooked == job.state = "waiting" /\ AdmittedNow \cap job.record.candidates # {}

\* reevaluate_waiting: a deferred job does not wait for ever while a model it
\* was deferred for could be admitted.
DeferralEnds == ~<>[]Overlooked

\* Every candidate that is ranked, and every one that is tried, is one the
\* request, the profile, the memory of the device and the adapter gate allow
\* (route, apply_hard_constraints, rank_candidates, _attempts).
ChoiceSound ==
    DispatchTypeOK /\ Budgeted /\ DeviceHolds /\ AdapterGate /\ PinHonoured /\ ProfileRespected

\* A decision rests on the measurements that describe the execution and on no
\* others, and says so (resolve_capability, build_explanation).
EvidenceSound == HonestEvidence /\ ExclusionNeutral
=============================================================================

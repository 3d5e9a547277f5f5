----------------------------- MODULE MCDispatch -----------------------------
(***************************************************************************)
(* Families of stored states, requests and machines around one base, each  *)
(* varying what one part of the pipeline looks at.  Figures are small: a   *)
(* context of 8, a key-value cache of 2 bytes a token, weights of 10.      *)
(***************************************************************************)
EXTENDS Dispatch

CONSTANTS Quality, Speed, Goal   \* capabilities

MCPerformance == {Speed}
MCUser == {Goal}

Empty == [x \in {} |-> 0]

Ollama ==
    [kind |-> "llamacpp", healthy |-> TRUE, context_configurable |-> FALSE,
     reported |-> 8, tool_use |-> TRUE, structured_output |-> FALSE,
     thinking_control |-> FALSE, adapter_hot_swap |-> TRUE,
     adapters_registered |-> None, remote |-> FALSE]

ModelA == [canonical_id |-> 1, model_id |-> 1, name |-> "alpha", kind |-> "llamacpp",
           digest |-> "d1", available |-> TRUE, enabled |-> TRUE, max_context |-> 32,
           size |-> 10, geometry |-> 1, parameters |-> 7, provider |-> "p", remote |-> FALSE]
ModelB == [ModelA EXCEPT !.canonical_id = 2, !.model_id = 2, !.name = "beta",
                         !.digest = "d2", !.size = 20, !.parameters = 13]

Adapter1 == [id |-> "a1", name |-> "a1", base |-> "alpha", base_digest |-> "d1",
             declared |-> {Quality}, available |-> TRUE]
Adapter2 == [Adapter1 EXCEPT !.id = "a2", !.name = "a2", !.base_digest = None]

Constraints == [min_context |-> 0, requires |-> {}, min_scores |-> Empty,
                exclude |-> {}, allow_remote |-> FALSE]

Task == [weights |-> (Quality :> 7 @@ Speed :> 3), constraints |-> Constraints,
         output |-> 3, min_output |-> None, fallback_depth |-> 1, think |-> FALSE,
         attempts |-> 2, max_attempts |-> 3]

Policy == [defaults |-> Unstated, per_model |-> Empty, machine |-> "here",
           headroom |-> 2, gate |-> TRUE, bonus |-> 1, penalty |-> 1,
           remote_cost |-> 9, min_present |-> 5]

World == [models |-> <<ModelA, ModelB>>, adapters |-> <<>>,
          providers |-> [p \in {"p"} |-> Ollama], provider |-> Ollama,
          capabilities |-> [m \in {1, 2} |-> <<>>], evidence |-> {},
          reliability |-> Empty, task |-> Task, policy |-> Policy]

Overrides == [model |-> None, adapter |-> None, profile |-> None,
              disallow_fallback |-> FALSE, require_evidence |-> FALSE,
              ignore_residency |-> FALSE]

Request == [input |-> 3, output |-> None, constraints |-> None, requires |-> {},
            think |-> FALSE, overrides |-> Overrides]

Machine == [gpus |-> [g \in {0} |-> [total |-> 100, used |-> 0]], ram |-> 100,
            rows |-> {}, others |-> {}, open |-> {}, probing |-> {}]

Case(world_, request, machines, n) ==
    [w |-> world_, q |-> request, machines |-> machines, moves |-> n]

-----------------------------------------------------------------------------
\* A family lists the cases of a product: the n-th takes, of each factor, the
\* value at its own digit of n.
Digit(values, n, stride) == values[(((n - 1) \div stride) % Len(values)) + 1]

Bool == <<FALSE, TRUE>>

\* What is served, what is asked for and what the profile accepts.
ContextWorlds == [n \in 1 .. 576 |->
    Case([World EXCEPT
            !.models = <<[ModelA EXCEPT !.max_context = Digit(<<None, 6>>, n, 1)]>>,
            !.providers = [p \in {"p"} |-> [Ollama EXCEPT
                !.reported = Digit(<<None, 8>>, n, 2),
                !.context_configurable = Digit(Bool, n, 4)]],
            !.policy.defaults["context_size"] = Digit(<<None, 7>>, n, 8),
            !.task.min_output = Digit(<<None, 2>>, n, 16),
            !.task.constraints.min_context = Digit(<<0, 7>>, n, 32)],
         [Request EXCEPT !.input = Digit(<<2, 4, 8>>, n, 64),
                         !.output = Digit(<<None, 4, 0>>, n, 192)],
         {Machine}, 0)]

\* Devices, residency, other jobs in flight, breakers: the machine moves.
Gpu(total, used) == [total |-> total, used |-> used]
Row(c, g, b) == [canonical |-> c, gpu |-> g, bytes |-> b]

DeviceMachines ==
    {Machine,
     [Machine EXCEPT !.gpus[0].used = 80],
     [Machine EXCEPT !.gpus[0].used = 80, !.rows = {Row(2, 0, 50)}],
     [Machine EXCEPT !.gpus[0].used = 80, !.rows = {Row(2, 0, 50)},
                     !.others = {Row(2, 0, 50)}],
     [Machine EXCEPT !.gpus[0].used = 50, !.others = {Row(1, 0, 30)}],
     [Machine EXCEPT !.gpus = [g \in {0, 1} |-> Gpu(100, 80)]],
     [Machine EXCEPT !.gpus = [g \in {0, 1} |-> Gpu(100, IF g = 0 THEN 80 ELSE None)]],
     [Machine EXCEPT !.gpus[0].used = 80, !.open = {<<1, "">>}],
     [Machine EXCEPT !.gpus[0].used = 80, !.probing = {<<1, "">>}],
     [Machine EXCEPT !.probing = {<<1, "">>, <<2, "">>}],
     [Machine EXCEPT !.probing = {<<2, "">>}],
     [Machine EXCEPT !.open = {<<1, "">>, <<2, "">>}]}

DeviceWorlds == [n \in 1 .. 4 |->
    Case([World EXCEPT !.models = <<[ModelA EXCEPT !.size = Digit(<<10, None>>, n, 1)], ModelB>>,
                       !.task.constraints.exclude = Digit(<<{}, {1}>>, n, 2)],
         Request, DeviceMachines, 2)]

\* A machine without a device, and one whose only model has an adapter.
HostMachines == {[Machine EXCEPT !.gpus = Empty, !.ram = ram] : ram \in {100, 20, None}}
ProbeMachines == {[Machine EXCEPT !.probing = probing] : probing \in {{}, {<<1, "a1">>}, {<<1, "">>}}}

HostWorlds ==
    <<Case(World, Request, HostMachines, 1)>> \o
    [n \in 1 .. 2 |->
        Case([World EXCEPT !.models = <<ModelA>>, !.adapters = <<Adapter1>>],
             [Request EXCEPT !.overrides.adapter = Digit(<<"a1", None>>, n, 1)],
             ProbeMachines, 1)]

\* Evidence: whose, of what, under which profile, from which machine.
Evidence(model, adapter, capability, profile, machine_, score) ==
    [id |-> score, model |-> model, adapter |-> adapter, match_state |-> "bound",
     capability |-> capability, profile |-> profile, machine |-> machine_,
     policy |-> 1, measured_at |-> 1, score |-> score, confidence |-> 8,
     sample_count |-> 20, stale |-> FALSE]

Other == [Unstated EXCEPT !["keep_alive"] = "5m"]
Rows ==
    <<Evidence(1, "", Quality, Unstated, "here", 9),
     Evidence(1, "", Quality, Unstated, "there", 2),
     Evidence(1, "", Quality, Other, "here", 3),
     Evidence(1, "a1", Quality, Unstated, "here", 8),
     Evidence(1, "a1", Quality, Other, "here", 7),
     Evidence(2, "", Speed, Unstated, "there", 6),
     Evidence(2, "", Goal, Unstated, "here", 5),
     [Evidence(1, "", Quality, Unstated, "here", 4) EXCEPT !.measured_at = 2, !.confidence = 0]>>

Declared == [capability |-> Quality, source |-> "declared", score |-> 10, confidence |-> 10]
Produced == [Declared EXCEPT !.source = "production", !.score = 6, !.confidence = 7]
Manual   == [Produced EXCEPT !.source = "manual"]

\* None, one, two, or all but one of them.
EvidenceSets ==
    << {} >>
    \o [n \in 1 .. 64 |-> {Digit(Rows, n, 1), Digit(Rows, n, 8)}]
    \o [n \in 1 .. 8 |-> {Rows[i] : i \in 1 .. 8 \ {n}}]

EvidenceWorlds == [n \in 1 .. 73 * 32 |->
    Case([World EXCEPT
            !.adapters = <<Adapter1, Adapter2>>,
            !.evidence = Digit(EvidenceSets, n, 32),
            !.capabilities = (1 :> <<>>) @@
                (2 :> Digit(<< <<>>, <<Declared>>, <<Produced>>, <<Manual>> >>, n, 1)),
            !.policy.gate = Digit(Bool, n, 4)],
         [Request EXCEPT !.overrides.adapter = Digit(<<None, "a1">>, n, 8),
                         !.overrides.require_evidence = Digit(Bool, n, 16)],
         {Machine}, 0)]

\* Constraints of the profile and of the request, remote providers, pins.
Bases ==
    <<Constraints,
      [Constraints EXCEPT !.allow_remote = TRUE, !.requires = {"tool_use"}],
      [Constraints EXCEPT !.allow_remote = TRUE, !.exclude = {1}],
      [Constraints EXCEPT !.min_scores = (Quality :> 6), !.allow_remote = TRUE,
                          !.min_context = 5]>>

AskedFor ==
    LET asked == [Constraints EXCEPT !.exclude = {2}]
    IN  <<None, asked, [asked EXCEPT !.allow_remote = TRUE],
          [asked EXCEPT !.min_scores = (Quality :> 4)],
          [asked EXCEPT !.exclude = {}, !.min_context = 6],
          [asked EXCEPT !.exclude = {}, !.requires = {"structured_output"}]>>

ConstraintWorlds == [n \in 1 .. 144 |->
    Case([World EXCEPT !.models = <<ModelA, [ModelB EXCEPT !.remote = TRUE]>>,
                       !.task.constraints = Digit(Bases, n, 1),
                       !.reliability = (<<2, "">> :> 12),
                       !.capabilities = [m \in {1, 2} |->
                           <<[Manual EXCEPT !.score = IF m = 1 THEN 5 ELSE 8]>>]],
         [Request EXCEPT !.constraints = Digit(AskedFor, n, 4),
                         !.overrides.model = Digit(<<None, 2, 3>>, n, 24),
                         !.overrides.disallow_fallback = Digit(Bool, n, 72)],
         {Machine}, 0)]

\* Attempts: what one job may spend, and candidates of different contexts.
AttemptWorlds == [n \in 1 .. 15 |->
    Case([World EXCEPT !.models = <<ModelA, [ModelB EXCEPT !.provider = "big"],
                                    [ModelB EXCEPT !.canonical_id = 3, !.model_id = 3]>>,
                       !.providers = ("p" :> Ollama) @@
                                     ("big" :> [Ollama EXCEPT !.reported = 16]),
                       !.capabilities = [m \in 1 .. 3 |->
                           <<[Manual EXCEPT !.score = 10 - m]>>],
                       !.task.fallback_depth = 2,
                       !.task.attempts = Digit(<<1, 2, 3>>, n, 1),
                       !.task.max_attempts = Digit(<<1, 2, 3, 4, 5>>, n, 3)],
         Request, {Machine, [Machine EXCEPT !.probing = {<<2, "">>}]}, 1)]

MCWorlds == ContextWorlds \o DeviceWorlds \o HostWorlds \o EvidenceWorlds
                \o ConstraintWorlds \o AttemptWorlds
=============================================================================

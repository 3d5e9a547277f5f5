-------------------------- MODULE HardConstraints --------------------------
(***************************************************************************)
(* domain/routing/constraints.py and context_budget.py: what a candidate   *)
(* needs of a device, whether the request fits the context it would be     *)
(* served, and the hard constraints, of which the first that fails names   *)
(* the rejection.                                                          *)
(*                                                                         *)
(* A subject is [facts, provider, profile, served, signals, adapter]; a    *)
(* telemetry snapshot is [gpus, ram], where gpus maps the index of every   *)
(* visible device to its [total, used]; None is a figure nobody reported.  *)
(***************************************************************************)
EXTENDS CapabilityScoring

CONSTANTS LoadingOverhead,     \* LOADING_OVERHEAD_FACTOR, in tenths
          ActivationOverhead,  \* ACTIVATION_OVERHEAD_BYTES
          SafetyMargin         \* SAFETY_MARGIN_TOKENS

ASSUME FootprintAssumption ==
    LoadingOverhead \in Nat /\ ActivationOverhead \in Nat \ {0} /\ SafetyMargin \in Nat

-----------------------------------------------------------------------------
(* The footprint of a candidate.                                           *)

\* _BYTES_PER_ELEMENT, in eighths of a byte; None is ASSUMED_KV_CACHE_PRECISION.
EighthsPerElement(precision) ==
    CASE precision = "f32"                -> 32
      [] precision \in {None, "f16"}      -> 16
      [] precision = "q8_0"               -> 8
      [] precision \in {"q5_0", "q5_1"}   -> 5
      [] precision = "q4_0"               -> 4
      [] OTHER                            -> None

\* kv_bytes_per_token, in eighths: geometry is layers x kv_heads x head_dim,
\* and None when one of the three was never reported.  Routing passes no
\* measured figure.
KvEighthsPerToken(geometry, precision) ==
    IF geometry = None \/ EighthsPerElement(precision) = None THEN None
    ELSE 2 * geometry * EighthsPerElement(precision)

\* estimate_vram: weights, key-value cache over the served context and the
\* activations; unknown, never nought, when an input is.
EstimateVram(facts, profile, served) ==
    LET kv == KvEighthsPerToken(facts.geometry, profile["kv_cache_precision"])
    IN  IF facts.size = None \/ kv = None THEN None
        ELSE (facts.size * LoadingOverhead) \div One + (kv * served) \div 8
                + ActivationOverhead

\* free_vram_by_gpu, for one device.
FreeVram(gpu) ==
    IF gpu.total = None \/ gpu.used = None THEN None
    ELSE Max({gpu.total - gpu.used, 0})

\* device_fits: every device on its own; what is unknown does not fit.
DeviceFits(estimate, gpus, headroom) ==
    {g \in DOMAIN gpus :
        /\ estimate # None /\ FreeVram(gpus[g]) # None
        /\ estimate + headroom <= FreeVram(gpus[g])}

\* _check_host_ram: only a known shortage rejects.
RamShort(estimate, ram) == estimate # None /\ ram # None /\ estimate > ram

-----------------------------------------------------------------------------
(* budget_context.                                                         *)

Budget(fits, output, reduced, required) ==
    [fits |-> fits, output |-> output, reduced |-> reduced, required |-> required]

\* budget_context: fit the request into what is served, shortening the answer
\* down to the profile's floor where the profile has one.
BudgetContext(input, output, served, floor) ==
    LET required == input + output + SafetyMargin
        room     == served - input - SafetyMargin
    IN  IF required <= served THEN Budget(TRUE, output, FALSE, required)
        ELSE IF floor # None /\ room >= floor
        THEN Budget(TRUE, Min({output, room}), TRUE,
                    input + Min({output, room}) + SafetyMargin)
        ELSE Budget(FALSE, output, FALSE, required)

-----------------------------------------------------------------------------
(* evaluate_constraints.                                                   *)

\* The reasons a Rejection carries.
RejectionReasons ==
    {"model_disabled", "runtime_setting_unhonoured", "kv_cache_needs_flash_attention",
     "model_unavailable", "context_too_small", "context_not_configurable",
     "context_limit_exceeded", "capability_unsupported", "insufficient_vram",
     "insufficient_ram", "below_minimum_score", "excluded_by_policy",
     "adapter_incompatible", "adapter_unmeasured", "adapter_classification_conflict",
     "recently_failing"}

ASSUME ReasonAssumption == None \notin RejectionReasons

\* _CAPABILITY_SUPPORT_ATTRIBUTE: the capabilities a provider declares.
Supports(provider, capability) ==
    CASE capability = "tool_use"          -> provider.tool_use
      [] capability = "structured_output" -> provider.structured_output
      [] OTHER                            -> TRUE

\* Devices the subject's model is resident on, of those that are visible.
ResidentHere(s, in) ==
    IF in.snapshot = None THEN {}
    ELSE {g \in DOMAIN in.snapshot.gpus : <<s.facts.canonical_id, g>> \in in.resident}

OutOfMemory(s, estimate, in) ==
    /\ in.snapshot # None /\ DOMAIN in.snapshot.gpus # {}
    /\ ResidentHere(s, in) = {}
    /\ DeviceFits(estimate, in.snapshot.gpus, in.headroom) = {}

\* target_gpu_index: the device that already holds the model, whatever the
\* estimate says, else the first that fits.
TargetGpu(s, estimate, in) ==
    IF in.snapshot = None \/ DOMAIN in.snapshot.gpus = {} THEN None
    ELSE IF ResidentHere(s, in) # {} THEN Min(ResidentHere(s, in))
    ELSE Min(DeviceFits(estimate, in.snapshot.gpus, in.headroom))

\* A resolved score below its floor; an absent score is below none.
BelowMinimum(in) ==
    \E c \in DOMAIN in.scores \cap DOMAIN in.min_scores :
        in.scores[c].score # None /\ in.scores[c].score < in.min_scores[c]

\* _MEASURED_SOURCES: what the adapter gate counts as a measurement.
MeasuredSources == {"benchmark", "production"}

\* require_adapter_evidence, read off the resolved score.
AdapterMeasured(s, in) ==
    /\ in.top \in DOMAIN in.scores /\ Present(in.scores[in.top])
    /\ in.scores[in.top].source \in MeasuredSources

\* _check_adapter: what the provider cannot load on this base, ...
AdapterIncompatible(s) ==
    /\ s.adapter # None
    /\ \/ ~s.provider.adapter_hot_swap
       \/ /\ s.adapter.base_digest # None /\ s.facts.digest # None
          /\ s.adapter.base_digest # s.facts.digest

\* ... what nobody has measured for the task, where that is asked for, ...
AdapterUnmeasured(s, in) ==
    s.adapter # None /\ in.gate /\ in.top # None /\ ~AdapterMeasured(s, in)

\* ... and what would leave the machine.
AdapterConflict(s) == s.adapter # None /\ (s.facts.remote \/ s.provider.remote)

\* The hard constraints in the order of evaluate_constraints, each with the
\* reason it gives and whether it fails.
Checks(s, estimate, in) ==
    LET refusal   == RuntimeProfileRefusal(s.profile, s.facts.kind)
        requested == s.profile["context_size"]
    IN  <<
          <<"model_disabled", ~s.facts.enabled>>,
          <<refusal, refusal # None>>,
          <<"model_unavailable", ~s.facts.available \/ ~s.provider.healthy>>,
          <<"context_too_small", in.min_context > s.served.tokens>>,
          <<"context_not_configurable",
            requested # None /\ ~s.provider.context_configurable
                /\ requested # s.served.tokens>>,
          <<"context_limit_exceeded",
            in.required_context # None /\ in.required_context > s.served.tokens>>,
          <<"capability_unsupported",
            \E c \in in.requires : ~Supports(s.provider, c)>>,
          <<"capability_unsupported", in.thinking /\ ~s.provider.thinking_control>>,
          <<"insufficient_vram", OutOfMemory(s, estimate, in)>>,
          <<"insufficient_ram",
            in.snapshot # None /\ DOMAIN in.snapshot.gpus = {}
                /\ RamShort(estimate, in.snapshot.ram)>>,
          <<"below_minimum_score", BelowMinimum(in)>>,
          <<"excluded_by_policy", s.facts.canonical_id \in in.exclude>>,
          <<"excluded_by_policy", s.facts.remote /\ ~in.allow_remote>>,
          <<"adapter_incompatible", AdapterIncompatible(s)>>,
          <<"adapter_unmeasured", AdapterUnmeasured(s, in)>>,
          <<"adapter_classification_conflict", AdapterConflict(s)>>,
          <<"recently_failing", SubjectOf(s.facts, s.adapter) \in in.breakers>> >>

\* evaluate_constraints: the first check that fails names the rejection.
EvaluateConstraints(s, estimate, in) ==
    LET checks  == Checks(s, estimate, in)
        failing == {i \in DOMAIN checks : checks[i][2]}
    IN  IF failing = {} THEN None ELSE checks[Min(failing)][1]
=============================================================================

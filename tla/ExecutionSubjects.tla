------------------------- MODULE ExecutionSubjects -------------------------
(***************************************************************************)
(* domain/routing/subject.py: what a routing candidate is.  A candidate is *)
(* a model, the adapter it would run with, the runtime profile it would    *)
(* run under and the context it would be served; all four are resolved     *)
(* before a constraint is looked at.                                       *)
(*                                                                         *)
(* A runtime profile is a function from the names of its fields to values, *)
(* None meaning that nothing is said; its hash is the profile itself.      *)
(***************************************************************************)
EXTENDS Integers, Sequences, FiniteSets

CONSTANT None   \* an absent value: never reported, not stated, not there

ASSUME NoneAssumption == None \notin Int /\ None \notin BOOLEAN

\* The fields an operator or a request can state (an entry of
\* provider_options behaves like one more of them).
Fields == {"context_size", "kv_cache_precision", "flash_attention", "keep_alive"}

\* RuntimeProfile(): provider defaults.
Unstated == [f \in Fields \cup {"adapters_registered"} |-> None]

NatOrNone == Nat \cup {None}

\* ModelFacts: geometry is layers x kv_heads x head_dim; nothing optional is
\* nought for unknown.
IsModelFacts(f) ==
    /\ {"canonical_id", "model_id", "available", "enabled", "remote", "max_context", "size",
        "geometry", "parameters", "name", "kind", "digest"} \subseteq DOMAIN f
    /\ {f.canonical_id, f.model_id} \subseteq Nat
    /\ {f.available, f.enabled, f.remote} \subseteq BOOLEAN
    /\ {f.max_context, f.size, f.geometry, f.parameters} \subseteq NatOrNone \ {0}

\* ProviderFacts
IsProviderFacts(p) ==
    /\ {p.healthy, p.context_configurable, p.tool_use, p.structured_output,
        p.thinking_control, p.remote, p.adapter_hot_swap} \subseteq BOOLEAN
    /\ p.reported \in NatOrNone /\ p.adapters_registered \in BOOLEAN \cup {None}

\* AdapterFacts, with the availability of its row: an adapter is keyed by its
\* id, and "" is the key of no adapter.
IsAdapterFacts(a) ==
    a.id # "" /\ a.name # "" /\ a.available \in BOOLEAN /\ IsFiniteSet(a.declared)

\* RuntimeOverrides
IsOverrides(o) ==
    /\ {o.disallow_fallback, o.require_evidence, o.ignore_residency} \subseteq BOOLEAN
    /\ o.profile # None => DOMAIN o.profile = DOMAIN Unstated
                           /\ o.profile["context_size"] \in NatOrNone

\* _merge: every field the layer states overrides the base; which adapters a
\* server holds is said by no layer.
Merge(base, layer) ==
    IF layer = None THEN base
    ELSE [f \in DOMAIN Unstated |->
            IF f \notin Fields THEN None
            ELSE IF layer[f] = None THEN base[f] ELSE layer[f]]

\* _apply_task_profile_context: the task profile's requirement becomes the
\* setting where the provider takes one and no earlier level stated one.
ApplyTaskProfileContext(profile, min_context, configurable) ==
    IF min_context > 0 /\ configurable /\ profile["context_size"] = None
    THEN [profile EXCEPT !["context_size"] = min_context]
    ELSE profile

\* resolve_runtime_profile: defaults, per model, task profile, request; then
\* what is true of the server.
ResolveRuntimeProfile(defaults, per_model, context, configurable, override, registered) ==
    LET configured == ApplyTaskProfileContext(Merge(defaults, per_model),
                                              context, configurable)
        stated     == Merge(configured, override)
    IN  IF registered = None THEN stated
        ELSE [stated EXCEPT !["adapters_registered"] = registered]

\* runtime_profile_refusal: a resolved profile the provider cannot serve as
\* stated, by the reason a rejection carries.
RuntimeProfileRefusal(profile, provider_kind) ==
    IF /\ provider_kind = "ollama"
       /\ profile["flash_attention"] # None \/ profile["kv_cache_precision"] # None
    THEN "runtime_setting_unhonoured"
    ELSE IF /\ profile["kv_cache_precision"] \in {"q8_0", "q4_0"}
            /\ profile["flash_attention"] # TRUE
    THEN "kv_cache_needs_flash_attention"
    ELSE None

\* resolve_served_context: a setting the provider accepts, else what it
\* reports, else what the model advertises, else unknown.
ServedContext(profile, provider, max_context) ==
    IF profile["context_size"] # None /\ provider.context_configurable
    THEN [tokens |-> profile["context_size"], source |-> "configured"]
    ELSE IF provider.reported # None
    THEN [tokens |-> provider.reported, source |-> "reported"]
    ELSE IF max_context # None
    THEN [tokens |-> max_context, source |-> "assumed"]
    ELSE None

\* subject_canonical_id: the model alone, or the model and the adapter.
SubjectOf(facts, adapter) ==
    <<facts.canonical_id, IF adapter = None THEN "" ELSE adapter.name>>

\* signals_by_capability: the places of the signals of one capability.
SignalsOf(signals, capability) == {i \in DOMAIN signals : signals[i].capability = capability}
=============================================================================

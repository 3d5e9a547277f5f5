------------------------------ MODULE Routing ------------------------------
(***************************************************************************)
(* services/routing.py with domain/routing/ranking.py and explanation.py:  *)
(* one routing decision as a function of what the registry, the evidence   *)
(* store and the configuration hold (w), of the machine's state (env) and  *)
(* of the request (q).                                                     *)
(*                                                                         *)
(*   w.models      the rows of models, by ascending canonical id           *)
(*   w.adapters    the rows of adapters, by ascending name                 *)
(*   w.providers   registration name -> provider facts; w.provider is the  *)
(*                 fallback                                                *)
(*   w.capabilities, w.evidence, w.reliability   what is stored per subject*)
(*   w.task        the stored task profile;  w.policy   RoutingPolicy      *)
(*   env           [snapshot, loaded, breakers, resident]                  *)
(*                                                                         *)
(* Canonical ids and row ids are naturals, so that they have an order.     *)
(***************************************************************************)
EXTENDS HardConstraints

-----------------------------------------------------------------------------
(* What is stored and asked for, as the loaders let it through.            *)

\* TaskProfileConstraints
IsConstraints(c) ==
    /\ c.min_context \in Nat /\ c.allow_remote \in BOOLEAN
    /\ \A k \in DOMAIN c.min_scores : c.min_scores[k] \in 0 .. One

\* _validate_one: the profiles that are loaded.
IsTaskProfile(t) ==
    /\ DOMAIN t.weights # {} /\ IsFiniteSet(DOMAIN t.weights) /\ None \notin DOMAIN t.weights
    /\ \A c \in DOMAIN t.weights : t.weights[c] \in Int
    /\ IsConstraints(t.constraints)
    /\ SumFunction(t.weights) = One
    /\ t.output \in Nat \ {0} /\ t.attempts \in Nat \ {0} /\ t.fallback_depth \in Nat
    /\ t.min_output # None => t.min_output \in 1 .. t.output

\* RoutingPolicy, whose layers come from runtime_layers.
IsPolicy(p) ==
    /\ {p.headroom, p.bonus, p.penalty, p.remote_cost, p.min_present} \subseteq Nat
    /\ p.gate \in BOOLEAN
    /\ \A layer \in {p.defaults} \cup {p.per_model[c] : c \in DOMAIN p.per_model} :
          /\ DOMAIN layer = DOMAIN Unstated /\ layer["adapters_registered"] = None
          /\ layer["context_size"] \in NatOrNone

\* RouteRequest
IsRequest(r) ==
    /\ {r.input, r.output} \subseteq NatOrNone /\ r.think \in BOOLEAN
    /\ IsOverrides(r.overrides)
    /\ r.constraints # None => IsConstraints(r.constraints)

\* A row of model_capabilities, which has no column for a number of samples.
StoredSources == {"declared", "manual", "prior", "production"}

IsCapabilityRow(r) ==
    /\ r.score \in 0 .. One \cup {None} /\ r.confidence \in 0 .. One
    /\ r.source \in StoredSources

\* A row of capability_evidence, which always names a machine; its id and its
\* policy version have an order, like canonical ids.
IsRecord(e) == {e.id, e.policy, e.measured_at} \subseteq Nat /\ e.machine # None

\* The registry, the evidence store and the configuration together.
IsStored(s) ==
    /\ DOMAIN s = {"models", "adapters", "providers", "provider", "capabilities", "evidence",
                   "reliability", "task", "policy"}
    /\ s.models \in Seq(ToSet(s.models)) /\ s.adapters \in Seq(ToSet(s.adapters))
    /\ \A i \in DOMAIN s.models : /\ IsModelFacts(s.models[i])
                                  /\ s.models[i].model_id \in DOMAIN s.capabilities
    /\ \A i \in DOMAIN s.adapters : IsAdapterFacts(s.adapters[i])
    /\ \A p \in DOMAIN s.providers : IsProviderFacts(s.providers[p])
    /\ IsFiniteSet(s.evidence) /\ \A e \in s.evidence : IsSignal(e) /\ IsRecord(e)
    /\ \A e, f \in s.evidence : e.id = f.id => e = f
    /\ \A m \in DOMAIN s.capabilities :
          /\ s.capabilities[m] \in Seq(ToSet(s.capabilities[m]))
          /\ \A row \in ToSet(s.capabilities[m]) : IsCapabilityRow(row)
    /\ IsProviderFacts(s.provider) /\ IsTaskProfile(s.task) /\ IsPolicy(s.policy)

-----------------------------------------------------------------------------
(* The candidates.                                                         *)

ProviderOf(w, m) ==
    IF m.provider \in DOMAIN w.providers THEN w.providers[m.provider] ELSE w.provider

\* _facts_for: a row without a registration takes the fallback's egress class.
FactsFor(w, m) ==
    IF m.provider = "" THEN [m EXCEPT !.remote = w.provider.remote] ELSE m

\* The defaults of CapabilitySignal: a production row is never usable, for want
\* of a sample count.
SignalOf(row) ==
    [capability |-> row.capability, source |-> row.source, score |-> row.score,
     confidence |-> row.confidence, profile |-> None, machine |-> None,
     sample_count |-> None, match_state |-> None, stale |-> FALSE]

\* _signals_for: what model_capabilities says, rows without a score left out.
SignalsFor(rows) ==
    FoldLeft(LAMBDA signals, r : IF r.score = None THEN signals ELSE Append(signals, SignalOf(r)),
             <<>>, rows)

\* _adapter_signals: a manifest's claims, and nothing of the base.
AdapterSignals(adapter) ==
    LET claims == SetToSeq(adapter.declared)
    IN  [i \in DOMAIN claims |->
            [capability |-> claims[i], source |-> "declared", score |-> One,
             confidence |-> One, profile |-> None, machine |-> None,
             sample_count |-> None, match_state |-> None, stale |-> FALSE]]

\* bound_signals_for_routing: the bound evidence of exactly this subject, one
\* record per capability and profile.
BoundSignals(w, model, adapter_key) ==
    LET rows == {r \in w.evidence : /\ r.match_state = "bound" /\ r.model = model
                                    /\ r.adapter = adapter_key
                                    /\ WeightsAdmit(r.capability, w.task.weights)}
        chosen == SetToSeq(Collapse(rows, w.policy.machine))
    IN  [i \in DOMAIN chosen |->
            [capability |-> chosen[i].capability, source |-> "benchmark",
             score |-> chosen[i].score, confidence |-> chosen[i].confidence,
             profile |-> chosen[i].profile, machine |-> chosen[i].machine,
             sample_count |-> chosen[i].sample_count, match_state |-> "bound",
             stale |-> chosen[i].stale]]

\* adapter_facts_by_base_name: an available adapter that names this base, on
\* a provider that can swap them.
RunsOn(w, m, a) == ProviderOf(w, m).adapter_hot_swap /\ a.available /\ a.base = m.name

\* Candidate: the model bare (adapter None) or under an adapter, and what is
\* known of that subject.
Candidate(w, m, adapter) ==
    [facts |-> FactsFor(w, m), provider |-> ProviderOf(w, m), adapter |-> adapter,
     signals |-> IF adapter = None
                 THEN SignalsFor(w.capabilities[m.model_id]) \o BoundSignals(w, m.model_id, "")
                 ELSE AdapterSignals(adapter) \o BoundSignals(w, m.model_id, adapter.id)]

\* _read_candidates, for one model: the bare model, and one subject for each
\* adapter.
CandidatesOf(w, m) ==
    FoldLeft(LAMBDA pool, a : IF RunsOn(w, m, a) THEN Append(pool, Candidate(w, m, a)) ELSE pool,
             <<Candidate(w, m, None)>>, w.adapters)

ReadCandidates(w) == FoldLeft(LAMBDA pool, m : pool \o CandidatesOf(w, m), <<>>, w.models)

-----------------------------------------------------------------------------
(* The constraints of the profile and of the request.                      *)

\* The fields of a request's constraints that would loosen the profile's.
Loosening(base, asked) ==
    \/ asked.min_context > 0 /\ asked.min_context < base.min_context
    \/ asked.allow_remote /\ ~base.allow_remote
    \/ \E c \in DOMAIN asked.min_scores \cap DOMAIN base.min_scores :
            asked.min_scores[c] < base.min_scores[c]

\* Mutant: what the request states replaces what the profile states.
MergedConstraintsReplaced(base, asked) ==
    IF asked = None THEN base ELSE IF Loosening(base, asked) THEN None ELSE asked

\* _merged_constraints: the tighter of the two, field by field.
MergedConstraints(base, asked) ==
    IF asked = None THEN base
    ELSE IF Loosening(base, asked) THEN None
    ELSE [min_context |-> Max({base.min_context, asked.min_context}),
          requires    |-> base.requires \cup asked.requires,
          min_scores  |-> [c \in DOMAIN base.min_scores \cup DOMAIN asked.min_scores |->
                             Max({IF c \in DOMAIN f THEN f[c] ELSE 0 :
                                    f \in {base.min_scores, asked.min_scores}})],
          exclude     |-> base.exclude \cup asked.exclude,
          allow_remote |-> base.allow_remote /\ asked.allow_remote]

\* _top_weighted_capability, the tie broken by an order of the names.
TopWeighted(weights) ==
    IF DOMAIN weights = {} THEN None
    ELSE CHOOSE c \in DOMAIN weights : \A d \in DOMAIN weights : weights[d] <= weights[c]

\* parameter_band_priors, over the pool.
Band(w, m) ==
    BandPrior(m.parameters, {w.models[i].parameters : i \in DOMAIN w.models})

-----------------------------------------------------------------------------
(* One candidate through the pipeline.                                     *)

\* _build_subject: served is None when no context can be established.
BuildSubject(w, q, constraints, c) ==
    LET per_model == IF c.facts.canonical_id \in DOMAIN w.policy.per_model
                     THEN w.policy.per_model[c.facts.canonical_id] ELSE None
        profile   == ResolveRuntimeProfile(w.policy.defaults, per_model,
                        constraints.min_context, c.provider.context_configurable,
                        q.overrides.profile, c.provider.adapters_registered)
    IN  [facts |-> c.facts, provider |-> c.provider, adapter |-> c.adapter,
         signals |-> c.signals, profile |-> profile,
         served |-> ServedContext(profile, c.provider, c.facts.max_context)]

\* A pin selects: everything else leaves the pool.
Pinned(q, s) ==
    /\ q.overrides.model \in {None, s.facts.canonical_id}
    /\ q.overrides.adapter # None =>
          s.adapter # None /\ s.adapter.name = q.overrides.adapter

\* An allowance of nought counts as none stated.
RequestedOutput(w, q) == IF q.output \in {None, 0} THEN w.task.output ELSE q.output

BudgetFor(w, q, served) ==
    IF q.input = None THEN None
    ELSE BudgetContext(q.input, RequestedOutput(w, q), served.tokens, w.task.min_output)

ScoreOf(w, q, s) ==
    ScoreSubject(w.task.weights, s.signals, s.profile, Band(w, s.facts),
                 q.overrides.require_evidence, w.policy.machine)

KeyOf(s) == <<s.facts.model_id, IF s.adapter = None THEN "" ELSE s.adapter.id>>

\* ConstraintInputs, as route() fills it in; loaded goes to the factors only.
ConstraintInputs(w, env, q, constraints, s, fit) ==
    LET budget == BudgetFor(w, q, s.served)
    IN  [min_context |-> constraints.min_context,
         requires |-> constraints.requires \cup q.requires,
         min_scores |-> constraints.min_scores, exclude |-> constraints.exclude,
         allow_remote |-> constraints.allow_remote,
         required_context |-> IF q.input = None \/ budget.fits THEN None
                              ELSE budget.required,
         scores |-> fit.scores, snapshot |-> env.snapshot,
         headroom |-> w.policy.headroom,
         breakers |-> IF env.breakers = None THEN {} ELSE env.breakers,
         resident |-> env.resident, loaded |-> env.loaded,
         thinking |-> q.think \/ w.task.think,
         gate |-> w.policy.gate /\ q.overrides.adapter = None,
         top |-> TopWeighted(w.task.weights)]

\* A subject with its rejection, or with what the ranking needs of it.
Outcome(w, q, s, fit, estimate, in) ==
    LET reason == EvaluateConstraints(s, estimate, in)
    IN  IF reason # None
        THEN [subject |-> s, reason |-> reason, estimate |-> estimate]
        ELSE [subject |-> s, reason |-> None, estimate |-> estimate, fit |-> fit,
              factor |-> FactorProduct(
                  IF KeyOf(s) \in DOMAIN w.reliability THEN w.reliability[KeyOf(s)] ELSE One,
                  ResidencyTerm(s.facts.canonical_id, in.loaded, w.policy.bonus,
                                w.policy.penalty, q.overrides.ignore_residency),
                  s.facts.remote, w.policy.remote_cost),
              target |-> TargetGpu(s, estimate, in),
              resident |-> s.facts.canonical_id \in in.loaded]

\* A subject and its score under the constraints.
Constrained(w, env, q, constraints, s, fit) ==
    Outcome(w, q, s, fit, EstimateVram(s.facts, s.profile, s.served.tokens),
            ConstraintInputs(w, env, q, constraints, s, fit))

\* One pass of the loop of route(), from its subject on.
Evaluate(w, env, q, constraints, s) ==
    IF s.served = None
    THEN [subject |-> s, reason |-> "context_too_small", estimate |-> None]
    ELSE Constrained(w, env, q, constraints, s, ScoreOf(w, q, s))

-----------------------------------------------------------------------------
(* Ranking.                                                                *)

\* a / b < c / d
QuotientLess(a, b, c, d) == a * d < c * b

FinalScore(r) == <<r.fit.num * r.factor, r.fit.present>>

\* Of pairs <<before, after>> for the places of two keys, the first that is
\* not a tie decides.
FirstDifference(places) ==
    LET differ == {i \in DOMAIN places : places[i][1] \/ places[i][2]}
    IN  differ # {} /\ places[Min(differ)][1]

\* order_key, with its six places.
OrderedBefore(a, b) ==
    LET fa == FinalScore(a)            fb == FinalScore(b)
        ca == MeanConfidence(a.fit)    cb == MeanConfidence(b.fit)
        ka == a.subject.facts          kb == b.subject.facts
    IN  FirstDifference(<<
          <<QuotientLess(fb[1], fb[2], fa[1], fa[2]), QuotientLess(fa[1], fa[2], fb[1], fb[2])>>,
          <<QuotientLess(cb[1], cb[2], ca[1], ca[2]), QuotientLess(ca[1], ca[2], cb[1], cb[2])>>,
          <<a.resident /\ ~b.resident, b.resident /\ ~a.resident>>,
          <<a.estimate # None /\ (b.estimate = None \/ a.estimate < b.estimate),
            b.estimate # None /\ (a.estimate = None \/ b.estimate < a.estimate)>>,
          <<ka.canonical_id < kb.canonical_id, kb.canonical_id < ka.canonical_id>>,
          <<ka.model_id < kb.model_id, kb.model_id < ka.model_id>> >>)

\* A candidate in its place of a ranking: behind its equals.
Placed(ordered, e) ==
    LET behind == {i \in DOMAIN ordered : OrderedBefore(e, ordered[i])}
    IN  InsertAt(ordered, IF behind = {} THEN Len(ordered) + 1 ELSE Min(behind), e)

\* rank_candidates: sorted() is stable, so the pool's order settles a tie.
RankCandidates(outcomes, eligible) ==
    FoldLeftDomain(LAMBDA ordered, i : IF i \in eligible THEN Placed(ordered, outcomes[i])
                                       ELSE ordered,
                   <<>>, outcomes)

\* The fallbacks of a ranking.
FallbacksOf(ordered, depth, disallowed) ==
    IF disallowed THEN <<>> ELSE SubSeq(ordered, 2, Min({Len(ordered), 1 + depth}))

-----------------------------------------------------------------------------
(* The decision.                                                           *)

\* evidence_summary_of: what the ranked candidates were scored on.
EvidenceSummary(ordered) ==
    LET scores  == UNION {{<<i, ordered[i].fit.scores[c]>> : c \in DOMAIN ordered[i].fit.scores}
                             : i \in DOMAIN ordered}
        From(source) == {p \in scores : p[2].source = source}
    IN  [source     |-> IF \E p \in From("benchmark") : Present(p[2])
                        THEN "freeweight" ELSE "none",
         mismatched |-> Cardinality(From("evidence_profile_mismatch")),
         foreign    |-> Cardinality(From("evidence_foreign_machine")),
         unbound    |-> Cardinality(From("evidence_unbound")),
         stale_used |-> Cardinality({p \in scores : Present(p[2]) /\ p[2].stale})]

\* build_explanation: the flags of a decision.
FlagsOf(w, env, ordered, budget) ==
    (IF ordered # <<>> /\ ordered[1].fit.measured < w.policy.min_present
     THEN {"low_evidence"} ELSE {})
    \cup (IF ordered # <<>> /\ ordered[1].subject.served.source = "assumed"
          THEN {"assumed_context"} ELSE {})
    \cup (IF budget # None /\ budget.reduced THEN {"output_tokens_reduced"} ELSE {})
    \cup (IF env.breakers = None THEN {"breaker_state_unavailable"} ELSE {})

\* _persist: the decision as it is stored, selection or not.
Persist(ordered, fallbacks, rejected, budget, flags) ==
    [error |-> IF ordered = <<>> THEN "NO_ELIGIBLE_MODEL" ELSE None,
     ordered |-> ordered, fallbacks |-> fallbacks, rejected |-> rejected,
     budget |-> budget, flags |-> flags, evidence |-> EvidenceSummary(ordered)]

\* The codes of NoEligibleModel and of the refusals that are not about candidates.
RoutingErrors == {"NO_ELIGIBLE_MODEL", "VALIDATION_ERROR", "ADAPTER_NOT_FOUND"}

ASSUME ErrorAssumption == None \notin RoutingErrors

\* A refusal that is not about candidates.
Refused(error) ==
    [error |-> error, ordered |-> <<>>, fallbacks |-> <<>>, rejected |-> {},
     budget |-> None, flags |-> {}, evidence |-> None]

\* _refuse_unknown_adapter.
UnknownAdapter(q, pool) ==
    /\ q.overrides.adapter # None
    /\ \A i \in DOMAIN pool :
          pool[i].adapter = None \/ pool[i].adapter.name # q.overrides.adapter

\* The loop of route(): what becomes of every candidate of the pool.
OutcomesOf(w, env, q, constraints, pool) ==
    [i \in DOMAIN pool |-> Evaluate(w, env, q, constraints,
                                    BuildSubject(w, q, constraints, pool[i]))]

\* A subject no context can be established for is rejected before the pins look.
Considered(q, e) == e.subject.served = None \/ Pinned(q, e.subject)

\* The rest of route(): the ranking, its budget, its fallbacks and its flags.
Conclude(w, env, q, ordered, rejected) ==
    LET budget == IF ordered = <<>> THEN None
                  ELSE BudgetFor(w, q, ordered[1].subject.served)
    IN  Persist(ordered, FallbacksOf(ordered, w.task.fallback_depth,
                                     q.overrides.disallow_fallback),
                rejected, budget, FlagsOf(w, env, ordered, budget))

Decide(w, env, q, outcomes) ==
    LET considered == {i \in DOMAIN outcomes : Considered(q, outcomes[i])}
        eligible   == {i \in considered : outcomes[i].reason = None}
    IN  Conclude(w, env, q, RankCandidates(outcomes, eligible),
                 {outcomes[i] : i \in considered \ eligible})

RouteOver(w, env, q, constraints, pool) ==
    IF constraints = None THEN Refused("VALIDATION_ERROR")
    ELSE IF UnknownAdapter(q, pool) THEN Refused("ADAPTER_NOT_FOUND")
    ELSE Decide(w, env, q, OutcomesOf(w, env, q, constraints, pool))

\* route().
Route(w, env, q) ==
    RouteOver(w, env, q, MergedConstraints(w.task.constraints, q.constraints),
              ReadCandidates(w))
=============================================================================

--------------------------- MODULE EvidencePolicy ---------------------------
(***************************************************************************)
(* domain/evidence_policy.py: which installed model a measurement is of,   *)
(* when it may score here, and when it carries a staleness badge.          *)
(*                                                                         *)
(* Instants are days.  A name-only identity has the digest None.           *)
(***************************************************************************)
EXTENDS ExecutionSubjects, FiniteSetsExt

CONSTANTS PerformanceCapabilities,  \* speed, latency, memory, energy roots
          UserCapabilities,         \* user.<goal> terms
          QualityHalfLife,          \* QUALITY_HALF_LIFE_DAYS
          PerformanceHalfLife       \* PERFORMANCE_HALF_LIFE_DAYS

ASSUME HalfLifeAssumption ==
    /\ QualityHalfLife \in Nat \ {0} /\ PerformanceHalfLife \in Nat \ {0}
    /\ PerformanceCapabilities \cap UserCapabilities = {}

-----------------------------------------------------------------------------
(* Binding.                                                                *)

\* EvidenceIdentity: what a record says it measured.
IsIdentity(i) == {"kind", "name", "digest", "adapter"} \subseteq DOMAIN i

\* LocalModel and LocalAdapter: what binding reads of a registry row.
IsLocalModel(r)   == {"id", "kind", "name", "digest"} \subseteq DOMAIN r
IsLocalAdapter(r) == {"id", "digest"} \subseteq DOMAIN r

Unmatched == [state |-> "unmatched", model |-> None, adapter |-> None,
              upgrade |-> None]

Bound(model, adapter, digest) ==
    [state |-> "bound", model |-> model, adapter |-> adapter, upgrade |-> digest]

\* Mutant: a name is enough to bind name-only evidence.
BindBaseByName(identity, registry) ==
    LET named == {r \in registry : r.kind = identity.kind /\ r.name = identity.name}
        exact == {r \in named : r.digest = identity.digest}
    IN  IF exact # {} THEN Bound((CHOOSE r \in exact : TRUE).id, None, None)
        ELSE IF named # {} THEN Bound((CHOOSE r \in named : TRUE).id, None, None)
        ELSE Unmatched

\* _bind_base, the four rules in their order: the exact triple; a digest
\* for a row known by name only, which is then upgraded; a name for a row
\* whose digest is known, which proves nothing; no row.
BindBase(identity, registry) ==
    LET named    == {r \in registry : r.kind = identity.kind /\ r.name = identity.name}
        exact    == {r \in named : r.digest = identity.digest}
        nameOnly == {r \in named : r.digest = None}
    IN  IF exact # {} THEN Bound((CHOOSE r \in exact : TRUE).id, None, None)
        ELSE IF identity.digest # None /\ nameOnly # {}
        THEN Bound((CHOOSE r \in nameOnly : TRUE).id, None, identity.digest)
        ELSE IF identity.digest = None /\ named # {}
        THEN [Unmatched EXCEPT !.state = "ambiguous_name_only"]
        ELSE Unmatched

\* Mutant: a record measured under an adapter binds to the bare model when
\* the adapter is not known.
BindIdentityBase(identity, registry, adapters) ==
    LET base  == BindBase(identity, registry)
        found == {a \in adapters : a.digest = identity.adapter}
    IN  IF identity.adapter = None \/ found = {} \/ base.state # "bound" THEN base
        ELSE [base EXCEPT !.adapter = (CHOOSE a \in found : TRUE).id]

\* bind_identity: both axes must resolve, the adapter by its digest.
BindIdentity(identity, registry, adapters) ==
    LET base  == BindBase(identity, registry)
        found == {a \in adapters : a.digest = identity.adapter}
    IN  IF identity.adapter = None THEN base
        ELSE IF found = {} THEN Unmatched
        ELSE IF base.state # "bound" THEN [Unmatched EXCEPT !.state = base.state]
        ELSE [base EXCEPT !.adapter = (CHOOSE a \in found : TRUE).id]

-----------------------------------------------------------------------------
(* What may score.                                                         *)

\* weights_admit: a user's goal counts only where the profile names it.
WeightsAdmit(capability, weights) ==
    capability \in UserCapabilities => capability \in DOMAIN weights

\* machine_admits: speed measured elsewhere says nothing about this machine.
MachineAdmits(measured_on, here, capability) ==
    here = None \/ measured_on = here \/ capability \notin PerformanceCapabilities

HalfLife(capability) ==
    IF capability \in PerformanceCapabilities THEN PerformanceHalfLife
    ELSE QualityHalfLife

\* freshness_factor < STALE_BELOW_FRESHNESS: the decay is below one half
\* exactly when more than a half-life has passed.
StaleByAge(measured_at, now, capability) == now - measured_at > HalfLife(capability)

\* environment_drift: the fields that count, and those unequal on both sides.
DriftFields(capability) ==
    {"provider_kind", "provider_version"}
        \cup IF capability \in PerformanceCapabilities
             THEN {"gpu_driver_version", "cuda_version"} ELSE {}

Drifted(measured, current, capability) ==
    /\ measured # None /\ current # None
    /\ \E f \in DriftFields(capability) \cap DOMAIN measured \cap DOMAIN current :
          measured[f] # None /\ current[f] # None /\ measured[f] # current[f]

\* evaluate_staleness: the most important reason of the four, or None.
StaleReason(measured_at, now, capability, drifted, superseded, unreachable) ==
    IF superseded THEN "superseded"
    ELSE IF unreachable THEN "source_unreachable"
    ELSE IF drifted THEN "environment_drift"
    ELSE IF StaleByAge(measured_at, now, capability) THEN "freshness"
    ELSE None

\* _selection_key: larger is preferred; versions are naturals here.
SelectionKey(row, here) ==
    <<IF here = None \/ row.machine = here THEN 1 ELSE 0, row.policy,
      row.measured_at, row.id>>

\* The order of such keys.
KeyLess(a, b) ==
    \E i \in DOMAIN a : a[i] < b[i] /\ \A k \in 1 .. i - 1 : a[k] = b[k]

\* collapse_evidence: of the rows for one capability and profile, the one
\* that is preferred to all others; never a blend of two.
Collapse(rows, here) ==
    {r \in rows : \A o \in rows :
        (o.capability = r.capability /\ o.profile = r.profile)
            => ~KeyLess(SelectionKey(r, here), SelectionKey(o, here))}

\* EvidenceOverview.status.
OverviewStatus(configured, source_status, rows) ==
    IF ~configured /\ rows = 0 THEN "not_configured"
    ELSE IF source_status \in {"unreachable", "refused", "incompatible", "failed"}
    THEN source_status
    ELSE IF rows = 0 THEN "none" ELSE "ok"
=============================================================================

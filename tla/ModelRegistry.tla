--------------------------- MODULE ModelRegistry ---------------------------
(***************************************************************************)
(* services/models.py and the table half of services/adapters.py: the rows *)
(* a discovery pass leaves.  A model row is a record of its id, its        *)
(* identity (kind, name, digest: None for a model known by name only), the *)
(* registration that last served it and whether it is available; rows are  *)
(* never deleted.  A descriptor is [kind, name, digest].                   *)
(***************************************************************************)
EXTENDS ExecutionSubjects, SequencesExt

\* canonical_id: a function of the identity triple.
CanonicalId(m) == <<m.kind, m.name, m.digest>>

\* A row of models as a sighting leaves it.
ModelRow(id, seen, provider) ==
    [id |-> id, kind |-> seen.kind, name |-> seen.name, digest |-> seen.digest,
     provider |-> provider, available |-> TRUE]

\* A row of adapters as a scan inserts it: the digest is its identity.
AdapterRow(digest) == [id |-> digest, digest |-> digest, available |-> TRUE]

\* _upsert_model: the row of the exact triple, else the row known by name
\* only when this sighting has a digest, else a new one.
UpsertModel(registry, seen, provider) ==
    LET exact    == {m \in registry : CanonicalId(m) = CanonicalId(seen)}
        sibling  == {m \in registry : /\ seen.digest # None
                                      /\ m.kind = seen.kind /\ m.name = seen.name
                                      /\ m.digest = None}
        existing == IF exact # {} THEN exact ELSE sibling
    IN  IF existing = {} THEN registry \cup {ModelRow(Cardinality(registry) + 1, seen, provider)}
        ELSE LET old == CHOOSE m \in existing : TRUE
             IN  (registry \ {old}) \cup {ModelRow(old.id, seen, provider)}

\* The second half of discover_models: a row served by a disabled
\* registration, or not seen although its kind answered, is unavailable.
Retired(registry, seen, kinds, disabled) ==
    {IF \/ m.provider \in disabled
        \/ CanonicalId(m) \notin seen /\ m.kind \in kinds
     THEN [m EXCEPT !.available = FALSE] ELSE m : m \in registry}

\* The inner loop of discover_models: the models one registration listed.
UpsertListed(registry, listing) ==
    FoldLeft(LAMBDA r, seen : UpsertModel(r, seen, listing.name),
             registry, listing.models)

\* The outer one, over the registrations that answered (_as_registrations).
UpsertAll(registry, listed) == FoldLeft(UpsertListed, registry, listed)

\* What a pass sees of the models, and of the providers.
SeenModels(listed) == UNION {ToSet(listed[i].models) : i \in DOMAIN listed}
AnsweredKinds(listed) == {listed[i].kind : i \in DOMAIN listed}

\* discover_models up to the rebinding: the listings of the registrations
\* that answered, as a sequence of [name, kind, models].
Discovered(registry, listed, disabled) ==
    Retired(UpsertAll(registry, listed), {CanonicalId(m) : m \in SeenModels(listed)},
            AnsweredKinds(listed), disabled)

\* sync_adapters up to the rebinding: the artifacts of the directory are
\* inserted or refreshed, the others kept and marked unavailable.
SyncedAdapters(adapters, directory) ==
    LET known == {a.digest : a \in adapters}
    IN  {[a EXCEPT !.available = a.digest \in directory] : a \in adapters}
            \cup {AdapterRow(d) : d \in directory \ known}
=============================================================================

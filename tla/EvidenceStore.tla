--------------------------- MODULE EvidenceStore ---------------------------
(***************************************************************************)
(* services/evidence.py: the measurements imported from FreeWeight, their  *)
(* binding to the model registry, their badges, and the incremental pull   *)
(* that keeps them up to date; with the two discovery passes that rebind   *)
(* them (services/models.py, services/adapters.py).                        *)
(*                                                                         *)
(* A key stands for everything that identifies a measurement within one    *)
(* source: model identity, adapter digest, runtime profile, machine,       *)
(* capability and policy version; the version of a record is the instant,  *)
(* on the producer's clock, at which it was published.  Every transaction  *)
(* of the code is one action.  A pull is four: it reads the instant to     *)
(* send as ?since=, asks the source, and writes; a failed one writes       *)
(* twice.                                                                  *)
(***************************************************************************)
EXTENDS EvidencePolicy, ModelRegistry, SourceFetch

CONSTANTS Keys,           \* measurements
          Produced,       \* those the producer may publish
          Identity,       \* [Keys -> [kind, name, digest, adapter]]
          Capability,     \* [Keys -> capability id]
          MeasuredAt,     \* [Keys -> day]
          Producer,       \* the source_id in the producer's bundles
          Url,            \* evidence.freeweight_url
          Manual,         \* a bundle somebody wrote, imported from a file
          Filters,        \* what a saved export may be restricted to
          Pulls,          \* bound: the pulls that are made, which may overlap
          Scheduled,      \* those made by refresh_from_freeweight
          Answers,        \* behaviours of the source during one pull
          Majors,         \* schema majors a bundle may have
          AcceptMajors,   \* evidence.accept_schema_majors
          Listings,       \* what the registrations may answer to a discovery
          Configurations, \* sets of registrations a configuration may disable
          Directories,    \* contents of the adapter directory
          Orders,         \* orders in which the database returns the rows
          Today,          \* the day of every import here
          MaxClock        \* bound: instants of the producer's clock

\* source_key values: the producers', and the URL for a placeholder.
SourceKeys == {Producer, Manual.source, Url}

\* A placeholder has no evidence.
RowIds == {Producer, Manual.source} \X Keys

States  == {"bound", "unmatched", "ambiguous_name_only"}
Reasons == {None, "freshness", "source_unreachable", "superseded"}

\* What a row of models, of adapters, of evidence_sources and of
\* capability_evidence holds, and what a bundle does.
ModelRows ==
    LET seen == UNION {SeenModels(listed) : listed \in Listings}
    IN  [id : Nat, kind : {m.kind : m \in seen}, name : {m.name : m \in seen},
         digest : {m.digest : m \in seen} \cup {Identity[k].digest : k \in Keys},
         provider : UNION {{listed[i].name : i \in DOMAIN listed} : listed \in Listings},
         available : BOOLEAN]

AdapterRows == [id : UNION Directories, digest : UNION Directories, available : BOOLEAN]

SourceRows == [url : {Url, None}, imported : BOOLEAN,
               status : {"ok", "unreachable", "refused", "incompatible", "failed"},
               generated : Nat \cup {None}]

EvidenceRows == [version : Nat, state : States, model : Nat \cup {None},
                 adapter : (UNION Directories) \cup {None}, reason : Reasons]

Record == [key : Keys, version : Nat, valid : BOOLEAN]

IsBundle(b) == /\ b.source \in {Producer, Manual.source} /\ b.records \in Seq(Record)
               /\ b.generated \in Nat /\ b.complete \in BOOLEAN

\* One registration serves one kind of provider.
IsListed(listed) ==
    /\ listed \in Seq(ToSet(listed))
    /\ \A i \in DOMAIN listed :
          /\ listed[i].models \in Seq(ToSet(listed[i].models))
          /\ \A m \in ToSet(listed[i].models) : m.kind = listed[i].kind

ASSUME EvidenceAssumption ==
    /\ MaxClock \in Nat /\ Today \in Int /\ Scheduled \subseteq Pulls
    /\ IsFiniteSet(Keys) /\ Produced \subseteq Keys
    /\ \A k \in Keys : IsIdentity(Identity[k])
    /\ \A a \in Answers : PullOutcome(a) \in Outcomes
    /\ Producer # Url /\ Manual.source \notin {Producer, Url} /\ IsBundle(Manual)
    /\ \A o \in Orders : o \in Seq(RowIds) /\ ToSet(o) = RowIds
    /\ \A listed \in Listings : IsListed(listed)
    /\ None \notin SourceKeys \cup SourceRows \cup EvidenceRows \cup (UNION Directories)
                     \cup {"source_unreachable", "superseded"}

VARIABLES published,  \* producer: [Keys -> instant of the version, 0: none]
          clock,      \* producer: its clock
          file,       \* an export somebody saved, or None
          models, adapters,     \* the registry
          sources,    \* evidence_sources: [SourceKeys -> row or None]
          rows,       \* capability_evidence: [RowIds -> row or None]
          pull        \* [Pulls -> [pc, since, bundle]]

vars == <<published, clock, file, models, adapters, sources, rows, pull>>

\* Where a pull is; a failed one has the class of the exception.
Stages == {"waiting", "asking", "fetched", "refused", "unreachable", "marked",
           "incompatible", "failed", "over"}

Waiting == [pc |-> "waiting", since |-> None, bundle |-> None]
Over    == [Waiting EXCEPT !.pc = "over"]

-----------------------------------------------------------------------------
(* The producer (not part of this repository).                             *)

\* What was published after the instant asked for, or everything.
Carried(since) == {k \in Keys : published[k] > (IF since = None THEN 0 ELSE since)}

\* The bundles with what of it a filter asks for: the records by their
\* version.  Any of them may be one this service cannot validate, and a bundle
\* says it is complete when nothing was left out of it on request.
Exports(since, only, major) ==
    LET wanted == Carried(since) \cap only
        carried(bad) == {[key |-> k, version |-> published[k], valid |-> k \notin bad] :
                            k \in wanted}
        sorted(bad)  == {s \in SetToSeqs(carried(bad)) :
                            \A i, j \in DOMAIN s : i < j => s[i].version <= s[j].version}
    IN  {[source |-> Producer, major |-> major, complete |-> since = None /\ only = Keys,
          generated |-> clock, records |-> s] : s \in UNION {sorted(bad) : bad \in SUBSET wanted}}

\* A measurement is made or made again.
Publish(k) ==
    /\ clock < MaxClock
    /\ clock' = clock + 1
    /\ published' = [published EXCEPT ![k] = clock + 1]
    /\ UNCHANGED <<file, models, adapters, sources, rows, pull>>

\* A measurement is removed.
Withdraw(k) ==
    /\ clock < MaxClock /\ published[k] # 0
    /\ clock' = clock + 1
    /\ published' = [published EXCEPT ![k] = 0]
    /\ UNCHANGED <<file, models, adapters, sources, rows, pull>>

\* Somebody saves an export, of everything or of what a filter asks for.
SaveFile ==
    /\ clock > 0 /\ file = None
    /\ \E only \in Filters : file' \in Exports(None, only, 1)
    /\ UNCHANGED <<published, clock, models, adapters, sources, rows, pull>>

-----------------------------------------------------------------------------
(* Binding.                                                                *)

\* _upgrade in _write and rebind_evidence_in: evidence with a digest names
\* the row that was known by name only.
Upgraded(registry, binding) ==
    IF binding.upgrade = None THEN registry
    ELSE {IF m.id = binding.model /\ m.digest = None
          THEN [m EXCEPT !.digest = binding.upgrade] ELSE m : m \in registry}

\* _identity_of, _registry_of and _adapters_of feed bind_identity: the subject
\* of a record against the rows of both tables, available or not.
BindingOf(key, registry, known) == BindIdentity(Identity[key], registry, known)

\* rebind_evidence_in, one pass of its loop.
RebindRow(acc, known, id) ==
    IF acc.rows[id] = None THEN acc
    ELSE LET b == BindingOf(id[2], acc.models, known)
         IN  [models |-> Upgraded(acc.models, b),
              rows   |-> [acc.rows EXCEPT ![id] =
                  [version |-> acc.rows[id].version, state |-> b.state, model |-> b.model,
                   adapter |-> b.adapter, reason |-> acc.rows[id].reason]]]

\* rebind_evidence_in: every row again, in the order the query returns them;
\* an upgrade is seen by the rows after it.
Rebound(registry, known, order) ==
    FoldLeft(LAMBDA acc, id : RebindRow(acc, known, id),
             [models |-> registry, rows |-> rows], order)

\* A registration that is disabled is not asked.
Asked(listed, disabled) == \A i \in DOMAIN listed : listed[i].name \notin disabled

\* discover_models: one transaction, the rebinding included.  A pass in which
\* every enabled registration failed raises and writes nothing; one that had
\* none to ask does write.
Discover(listed, disabled) ==
    /\ Asked(listed, disabled)
    /\ \E order \in Orders :
          LET done == Rebound(Discovered(models, listed, disabled), adapters, order)
          IN  models' = done.models /\ rows' = done.rows
    /\ UNCHANGED <<published, clock, file, adapters, sources, pull>>

\* sync_adapters
SyncAdapters(directory) ==
    /\ adapters' = SyncedAdapters(adapters, directory)
    /\ \E order \in Orders :
          LET done == Rebound(models, adapters', order)
          IN  models' = done.models /\ rows' = done.rows
    /\ UNCHANGED <<published, clock, file, sources, pull>>

-----------------------------------------------------------------------------
(* Importing a bundle.                                                     *)

\* _negotiate and the checks of import_bundle before the transaction.
Negotiated(bundle) == bundle.major \in AcceptMajors

\* source_for_url: a row with this URL that has imported, else any (with one
\* producer there is at most one of each).
SourceForUrl(url) ==
    LET here     == {s \in SourceKeys : sources[s] # None /\ sources[s].url = url}
        imported == {s \in here : sources[s].imported}
    IN  IF here = {} THEN None
        ELSE CHOOSE s \in here : imported # {} => s \in imported

\* Mutant: the producer's instant never goes back.
UpsertSourceForward(bundle, url) ==
    LET key   == bundle.source
        adopt == sources[key] = None /\ url # None /\ sources[Url] # None
        old   == IF adopt THEN sources[Url] ELSE sources[key]
        row   == [url       |-> IF url # None \/ old = None THEN url ELSE old.url,
                  imported  |-> TRUE, status |-> "ok",
                  generated |-> IF old = None \/ old.generated = None THEN bundle.generated
                                ELSE Max({old.generated, bundle.generated})]
    IN  [s \in SourceKeys |-> IF s = key THEN row
                              ELSE IF adopt /\ s = Url THEN None ELSE sources[s]]

\* _upsert_source: the row of this producer, else the placeholder a failed
\* refresh left for the URL, which takes the producer's key, else a new one.
UpsertSource(bundle, url) ==
    LET key   == bundle.source
        adopt == sources[key] = None /\ url # None /\ sources[Url] # None
        old   == IF adopt THEN sources[Url] ELSE sources[key]
        row   == [url       |-> IF url # None \/ old = None THEN url ELSE old.url,
                  imported  |-> TRUE, status |-> "ok",
                  generated |-> bundle.generated]
    IN  [s \in SourceKeys |-> IF s = key THEN row
                              ELSE IF adopt /\ s = Url THEN None ELSE sources[s]]

\* evaluate_staleness for a row as it is written: no caller passes the
\* current environment, so drift is never found here.
ReasonNow(key) ==
    LET measured == [provider_kind |-> Identity[key].kind]
    IN  StaleReason(MeasuredAt[key], Today, Capability[key],
                    Drifted(measured, None, Capability[key]), FALSE, FALSE)

\* _row_values
RowValues(record, binding) ==
    [version |-> record.version, state |-> binding.state, model |-> binding.model,
     adapter |-> binding.adapter, reason |-> ReasonNow(record.key)]

\* One pass of the loop of _write: an invalid record was rejected before, and
\* of two valid ones with the same key the second is.
StoreRecord(acc, source, record) ==
    IF ~record.valid \/ record.key \in acc.seen THEN acc
    ELSE LET b == BindingOf(record.key, acc.models, adapters)
         IN  [seen   |-> acc.seen \cup {record.key},
              models |-> Upgraded(acc.models, b),
              rows   |-> [acc.rows EXCEPT ![<<source, record.key>>] = RowValues(record, b)]]

\* The loop of _write over the records of the bundle.
Stored(bundle) ==
    FoldLeft(LAMBDA acc, record : StoreRecord(acc, bundle.source, record),
             [seen |-> {}, models |-> models, rows |-> rows], bundle.records)

\* Mutant: only the rows a bundle carried lose their badge.
BadgesKept(table, source) == table

\* _write after the loop: a reachable source retires the badge that said it
\* was not.
BadgesCleared(table, source) ==
    [id \in RowIds |->
        IF id[1] = source /\ table[id] # None /\ table[id].reason = "source_unreachable"
        THEN [table[id] EXCEPT !.reason = ReasonNow(id[2])] ELSE table[id]]

\* _write, last: what a complete bundle omits is superseded.
Superseded(table, bundle, seen) ==
    [id \in RowIds |->
        IF /\ bundle.complete /\ id[1] = bundle.source
           /\ rows[id] # None /\ id[2] \notin seen
        THEN [table[id] EXCEPT !.reason = "superseded"] ELSE table[id]]

\* import_bundle of a bundle that negotiates.
ImportBundle(bundle, url) ==
    LET done == Stored(bundle)
    IN  /\ Negotiated(bundle)
        /\ sources' = UpsertSource(bundle, url)
        /\ models' = done.models
        /\ rows' = Superseded(BadgesCleared(done.rows, bundle.source), bundle, done.seen)
        /\ UNCHANGED <<published, clock, file, adapters>>

\* POST /evidence/import with a bundle in the body, or the command line.
ImportFile(bundle) == ImportBundle(bundle, None) /\ UNCHANGED pull

-----------------------------------------------------------------------------
(* Pulling from the configured source.                                     *)

\* last_generated_at: the producer's instant of the last bundle, or None.
LastGeneratedAt(url) ==
    LET s == SourceForUrl(url) IN IF s = None THEN None ELSE sources[s].generated

\* The argument of fetch is evaluated.
ReadSince(p) ==
    /\ pull[p].pc = "waiting"
    /\ pull' = [pull EXCEPT ![p] = [Waiting EXCEPT !.pc = "asking",
                                                !.since = LastGeneratedAt(Url)]]
    /\ UNCHANGED <<published, clock, file, models, adapters, sources, rows>>

\* version and fetch return a document or raise.  POST /evidence/import
\* lets the exception go; refresh_from_freeweight records the three it knows,
\* and one that escapes the client ends it with nothing written.
Ask(p, answer, major) ==
    LET outcome == PullOutcome(answer)
    IN  /\ pull[p].pc = "asking"
        /\ \E bundle \in Exports(pull[p].since, Keys, major) :
              pull' = [pull EXCEPT ![p] =
                  IF outcome = "fetched"
                  THEN [pc |-> "fetched", since |-> pull[p].since, bundle |-> bundle]
                  ELSE IF p \in Scheduled /\ outcome # "escaped"
                  THEN [Waiting EXCEPT !.pc = outcome] ELSE Over]
        /\ UNCHANGED <<published, clock, file, models, adapters, sources, rows>>

\* The bundle is imported; one that does not negotiate changes nothing, and
\* the refresh records it.
ImportPulled(p) ==
    /\ pull[p].pc = "fetched"
    /\ ImportBundle(pull[p].bundle, Url)
    /\ pull' = [pull EXCEPT ![p] = Over]

PulledUnusable(p) ==
    /\ pull[p].pc = "fetched" /\ ~Negotiated(pull[p].bundle)
    /\ pull' = [pull EXCEPT ![p] =
          IF p \in Scheduled THEN [Waiting EXCEPT !.pc = "failed"] ELSE Over]
    /\ UNCHANGED <<published, clock, file, models, adapters, sources, rows>>

\* mark_source_unreachable: the rows of the source are badged, superseded
\* ones excepted; the refresh goes on to record its failure.
MarkSourceUnreachable(p) ==
    LET s == SourceForUrl(Url)
    IN  /\ pull[p].pc = "unreachable"
        /\ pull' = [pull EXCEPT ![p] = [Waiting EXCEPT !.pc = "marked"]]
        /\ IF s = None THEN UNCHANGED <<sources, rows>>
           ELSE /\ sources' = [sources EXCEPT ![s].status = "unreachable"]
                /\ rows' = [id \in RowIds |->
                      IF id[1] = s /\ rows[id] # None /\ rows[id].reason # "superseded"
                      THEN [rows[id] EXCEPT !.reason = "source_unreachable"]
                      ELSE rows[id]]
        /\ UNCHANGED <<published, clock, file, models, adapters>>

\* _record_source_failure: on the source's row, or on a placeholder.
RecordSourceFailure(p) ==
    LET s      == SourceForUrl(Url)
        status == IF pull[p].pc = "marked" THEN "unreachable" ELSE pull[p].pc
    IN  /\ pull[p].pc \in {"refused", "incompatible", "failed", "marked"}
        /\ pull' = [pull EXCEPT ![p] = Over]
        /\ sources' =
              IF s = None
              THEN [sources EXCEPT ![Url] = [url |-> Url, imported |-> FALSE,
                                             status |-> status, generated |-> None]]
              ELSE [sources EXCEPT ![s].status = status]
        /\ UNCHANGED <<published, clock, file, models, adapters, rows>>

\* evidence_overview: the one word on the evidence that every page shows.  A
\* source that is not the configured one has only ever succeeded.
Overview ==
    LET s == SourceForUrl(Url)
    IN  OverviewStatus(TRUE, IF s = None THEN None ELSE sources[s].status,
                       Cardinality({id \in RowIds : rows[id] # None}))

-----------------------------------------------------------------------------
Init ==
    /\ published = [k \in Keys |-> 0] /\ clock = 0 /\ file = None
    /\ models = {} /\ adapters = {}
    /\ sources = [s \in SourceKeys |-> None]
    /\ rows = [id \in RowIds |-> None]
    /\ pull = [p \in Pulls |-> Waiting]

Next ==
    \/ \E k \in Produced : Publish(k) \/ Withdraw(k)
    \/ SaveFile
    \/ file # None /\ ImportFile(file)
    \/ ImportFile(Manual)
    \/ \E listed \in Listings, disabled \in Configurations : Discover(listed, disabled)
    \/ \E directory \in Directories : SyncAdapters(directory)
    \/ \E p \in Pulls :
          \/ ReadSince(p)
          \/ \E answer \in Answers, major \in Majors : Ask(p, answer, major)
          \/ ImportPulled(p) \/ PulledUnusable(p)
          \/ MarkSourceUnreachable(p) \/ RecordSourceFailure(p)

Spec == Init /\ [][Next]_vars

-----------------------------------------------------------------------------
\* Every variable has its type; an upgraded or inserted model row keeps an
\* id no other row has (discover_models, _write).
TypeOK ==
    /\ clock \in 0 .. MaxClock /\ published \in [Keys -> 0 .. clock]
    /\ (\A m \in models : IsLocalModel(m)) /\ \A a \in adapters : IsLocalAdapter(a)
    /\ \A m, n \in models : m.id = n.id \/ CanonicalId(m) = CanonicalId(n) => m = n
    /\ \A s \in SourceKeys : sources[s] # None =>
          /\ sources[s].url \in {Url, None}
          /\ sources[s].status \in {"ok", "unreachable", "refused", "incompatible", "failed"}
    /\ \A id \in RowIds : rows[id] # None =>
          /\ sources[id[1]] # None /\ sources[id[1]].imported
          /\ rows[id].state \in States /\ rows[id].reason \in Reasons
    /\ \A p \in Pulls : pull[p].pc \in Stages

\* Evidence that carries a digest is only ever bound to the model with that
\* digest, evidence measured under an adapter only with that adapter, and
\* evidence of the bare model with none, whatever discovery, an import or a
\* directory scan has done to the registry since it was bound
\* (bind_identity, rebind_evidence_in, _upsert_model).
HonestBinding ==
    \A id \in RowIds : rows[id] # None /\ rows[id].state = "bound" =>
        LET subject == Identity[id[2]]
        IN  /\ \E m \in models :
                  /\ m.id = rows[id].model /\ m.kind = subject.kind /\ m.name = subject.name
                  /\ subject.digest # None => m.digest = subject.digest
            /\ IF subject.adapter = None THEN rows[id].adapter = None
               ELSE \E a \in adapters : a.id = rows[id].adapter /\ a.digest = subject.adapter

\* A row is bound exactly when the registry proves its subject is here.
Settled(id, registry, table) ==
    LET subject == Identity[id[2]]
        proved  == /\ \E m \in registry : CanonicalId(m) = CanonicalId(subject)
                   /\ \/ subject.adapter = None
                      \/ \E a \in adapters : a.digest = subject.adapter
    IN  table[id] # None => (table[id].state = "bound" <=> proved)

\* The digest of every model row by its id.
Digests(registry) == {<<m.id, m.digest>> : m \in registry}

\* Whatever imports, scans and passes came before, a discovery pass that
\* finds no model and no digest it did not know leaves every evidence row
\* bound exactly when the registry proves its subject is here, with no
\* re-import (discover_models, rebind_evidence_in).
PassSettles ==
    \A listed \in Listings, disabled \in Configurations, order \in Orders :
        LET pass == Rebound(Discovered(models, listed, disabled), adapters, order)
        IN  Asked(listed, disabled) /\ Digests(pass.models) = Digests(models)
                => \A id \in RowIds : Settled(id, pass.models, pass.rows)

\* The version of a measurement that the producer had published when the last
\* bundle was made is in the store, current and not superseded.
Caught(k) ==
    sources[Producer] # None /\ published[k] \in 1 .. sources[Producer].generated =>
        /\ rows[<<Producer, k>>] # None
        /\ rows[<<Producer, k>>].version = published[k]
        /\ rows[<<Producer, k>>].reason # "superseded"

\* The bundle has a record of it that fails validation.
Rejects(b, k) == \E i \in DOMAIN b.records : b.records[i].key = k /\ ~b.records[i].valid

\* The bundle was filtered, has no record of it, and is later than the last.
Omits(b, k) ==
    /\ ~b.complete /\ \A i \in DOMAIN b.records : b.records[i].key # k
    /\ sources[Producer] = None \/ b.generated > sources[Producer].generated

\* The store falls behind the instant it will send as ?since= in three ways
\* only.  A pull is written that read a later instant than the one now stored
\* (an older export was imported while it was asking); a bundle is written
\* whose record of the measurement is rejected, although its instant counts;
\* or a file is imported that was filtered and is later than the last bundle.
\* Neither an old complete file, nor two pulls that overlap otherwise, nor a
\* failed or unusable answer opens a gap, and a gap in one measurement opens
\* none in another (last_generated_at, _upsert_source, _write).
GapOnlyFromLoss ==
    [][\A k \in Keys : Caught(k) /\ ~Caught(k)' =>
          \/ \E p \in Pulls :
                /\ pull[p].pc = "fetched" /\ pull'[p].pc = "over"
                /\ \/ pull[p].since # None /\ pull[p].since > sources[Producer].generated
                   \/ Rejects(pull[p].bundle, k)
          \/ /\ file # None /\ UNCHANGED pull
             /\ Rejects(file, k) \/ Omits(file, k)]_vars

\* A row says its source is unreachable only while the last word on that
\* source is a failure: a successful import of any kind retires the badge
\* from all of them, and while one is left the overview never says "ok"
\* (_write, mark_source_unreachable, evidence_overview).
BadgeTrue ==
    \A id \in RowIds :
        rows[id] # None /\ rows[id].reason = "source_unreachable"
            => sources[id[1]].status # "ok" /\ Overview # "ok"

\* Two rows of the registry that routing may choose never share a provider
\* kind and a name, although a name-only sighting, a digest and an upgrade
\* by evidence may each have made one (discover_models, _upsert_model).
NoTwins ==
    \A m, n \in models :
        m.available /\ n.available /\ m.kind = n.kind /\ m.name = n.name => m = n

\* In one listing a name has one digest: the registrations of one kind that
\* answer a pass do not serve two builds of a model under the same name.
OneBuildPerName ==
    \A listed \in Listings : \A m, n \in SeenModels(listed) :
        m.kind = n.kind /\ m.name = n.name => m.digest = n.digest

\* The registry and the store are well formed, no model that routing may
\* choose is there twice, and every binding is to what was measured
\* (discover_models, _upsert_model, _write, bind_identity).
BindingsSound == TypeOK /\ NoTwins /\ HonestBinding

-----------------------------------------------------------------------------
(* The inductive invariant (RoutingProofs).                                *)

\* A registry as discovery numbers it: an id and an identity name one row.
RegistryOK(registry) ==
    /\ registry \subseteq ModelRows /\ IsFiniteSet(registry)
    /\ \A m \in registry : m.id \in 1 .. Cardinality(registry)
    /\ \A m, n \in registry : m.id = n.id \/ CanonicalId(m) = CanonicalId(n) => m = n

\* The tables hold rows of their kind.
Tables ==
    /\ RegistryOK(models) /\ adapters \subseteq AdapterRows
    /\ sources \in [SourceKeys -> SourceRows \cup {None}]
    /\ rows \in [RowIds -> EvidenceRows \cup {None}]

\* The placeholder has its URL and has imported nothing, what somebody imported
\* from a file has none, and the producer's instant is one its clock has shown.
Sourced ==
    /\ sources[Url] # None =>
          /\ sources[Url].url = Url /\ ~sources[Url].imported /\ sources[Url].generated = None
    /\ sources[Manual.source] # None => sources[Manual.source].url = None
    /\ sources[Producer] # None => sources[Producer].generated \in 0 .. clock

\* Only rows of the source that was asked and failed are badged.
Badged ==
    \A id \in RowIds : rows[id] # None /\ rows[id].reason = "source_unreachable" =>
        /\ id[1] = Producer /\ sources[Producer].url = Url
        /\ sources[Producer].status # "ok"

\* A bundle of the producer, however old: unless it was filtered it has a
\* record, valid or not, of what is published now and was published between the
\* instant asked for and its own; what it has is published now, or was
\* withdrawn or measured again since.
Snapshot(b, since, whole, versions, now) ==
    LET floor == IF since = None THEN 0 ELSE since
    IN  /\ IsBundle(b) /\ b.source = Producer /\ b.generated \in floor .. now
        /\ b.complete <=> since = None /\ whole
        /\ whole => \A k \in Keys : versions[k] \in floor + 1 .. b.generated =>
              \E i \in DOMAIN b.records : b.records[i].key = k
        /\ \A i \in DOMAIN b.records :
              LET k == b.records[i].key
              IN  /\ b.records[i].version > floor
                  /\ \/ versions[k] \in {0, b.records[i].version}
                     \/ versions[k] > b.generated

\* The bundles under way.
Fetched ==
    /\ DOMAIN pull = Pulls
    /\ file # None => Snapshot(file, None, file.complete, published, clock)
    /\ \A p \in Pulls :
          /\ pull[p].since # None => pull[p].since \in 0 .. clock /\ sources[Producer] # None
          /\ pull[p].pc = "fetched" =>
                Snapshot(pull[p].bundle, pull[p].since, TRUE, published, clock)

\* What every step preserves.
EvidenceInv == TypeOK /\ HonestBinding /\ Tables /\ Sourced /\ Badged /\ Fetched
=============================================================================

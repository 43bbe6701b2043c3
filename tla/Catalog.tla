------------------------------- MODULE Catalog -------------------------------
(***************************************************************************)
(* The catalog store (elucid-metastore/src/catalog.rs) behind the catalog  *)
(* endpoint (elucid-service/src/http/catalog.rs): processes that apply     *)
(* manifests to one PostgreSQL database, each with a mutation gate and an  *)
(* in-memory snapshot that admissions pin identities from.  Clients go     *)
(* away, answers to COMMIT get lost, processes stop and start again.       *)
(*                                                                         *)
(* An application holds its process's gate from the first step to the end, *)
(* and the advisory lock on its source's name from "planned" until COMMIT. *)
(***************************************************************************)
EXTENDS SchemaAdapter

CONSTANTS
    Processes, Requests,
    Workloads,          \* what clients may do: the documents they send, and to which processes
    Records,            \* objects that are ingested and queried
    MaxApplications,    \* a bound on the plans that are made
    MaxPins,            \* a bound on the batches admitted
    MaxCrashes

\* Clients reach the processes there are, and an absent option is neither a request nor an error.
ASSUME CatalogAssumption ==
    /\ \A workload \in Workloads : workload.processes \subseteq Processes
    /\ None \notin Requests
    /\ None # "Corrupt"

VARIABLES
    offered,    \* the workload of this behaviour
    rows,       \* the four catalog tables
    commits,    \* for each source name, how many commits it has had
    snapshot,   \* each process's in-memory sources, None while it is down
    gate,       \* each process's mutation gate: the request that holds it
    request,
    plans,      \* how many plans have been made: the nonce of generated identities
    pins,       \* the identities of admitted batches, with the plan they had then
    crashes

vars == <<offered, rows, commits, snapshot, gate, request, plans, pins, crashes>>

---------------------------------------------------------------------------
(* Rows to sources.                                                        *)

NoRows == [sources |-> {}, schemas |-> {}, inputs |-> {}, profiles |-> {}]

\* decode_stored_schema_definition: the data fields are materialised again and compared.
DecodeSchema(row) ==
    LET data   == SelectSeq(row.definition.fields, LAMBDA field : field.role = "Data")
        fields == [i \in DOMAIN data |-> UserField(data[i].id, data[i], i)]
        schema == [id |-> row.id, source |-> row.source, version |-> row.version,
                   fields |-> MaterializeUserFields(fields),
                   declaration |-> SchemaDeclaration(row.version, fields)]
    IN  IF UserFieldsValid(fields) /\ SchemaMaterialized(schema) = row.definition THEN schema ELSE None

DecodeProfile(row, schemas) ==
    LET target  == Find(schemas, LAMBDA schema : schema.id = row.target)
        profile == [id |-> row.id, input |-> row.input, revision |-> row.revision, target |-> row.target,
                    eventTime |-> row.definition.eventTime, mappings |-> row.definition.mappings]
    IN  IF target = None \/ ProfileMaterialized(profile) # row.definition THEN None
        ELSE [declaration |-> StoredProfileDeclaration(profile, target)] @@ profile

DecodedInput(row, revisions) ==
    LET input == [id |-> row.id, source |-> row.source, name |-> row.name, active |-> row.active,
                  revisions |-> revisions]
    IN  IF None \in Range(revisions) THEN None ELSE IF InputValid(input) THEN input ELSE None

DecodeProfiles(ordered, schemas) == [i \in DOMAIN ordered |-> DecodeProfile(ordered[i], schemas)]

DecodeInput(row, stored, schemas) ==
    DecodedInput(row, DecodeProfiles(Ordered({profile \in stored.profiles : profile.input = row.id},
                                             LAMBDA left, right : left.revision < right.revision),
                                     schemas))

DecodeInputs(named, stored, schemas) == [i \in DOMAIN named |-> DecodeInput(named[i], stored, schemas)]

DecodeSchemas(ordered) == [i \in DOMAIN ordered |-> DecodeSchema(ordered[i])]

ValidSource(source) ==
    IF None \in Range(source.inputs) THEN None
    ELSE IF SourceError(source) = None THEN source ELSE None

\* The inputs are decoded against the schemas.
AssembleInputs(row, stored, schemas) ==
    IF None \in Range(schemas) THEN None
    ELSE ValidSource([id |-> row.id, name |-> row.name, display |-> row.display, active |-> row.active,
                      schemas |-> schemas,
                      inputs  |-> DecodeInputs(SortByName({input \in stored.inputs : input.source = row.id}),
                                               stored, schemas)])

\* One source row with its children; None when what is stored is not a source.
AssembleSource(row, stored) ==
    AssembleInputs(row, stored,
                   DecodeSchemas(Ordered({schema \in stored.schemas : schema.source = row.id},
                                         LAMBDA left, right : left.version < right.version)))

\* Whether the tables as a whole load: every child has a parent, names and identities are unique.
Loadable(stored) ==
    LET sources == {row.id : row \in stored.sources}
        inputs  == {row.id : row \in stored.inputs}
    IN  /\ \A row \in stored.sources : AssembleSource(row, stored) # None
        /\ {row.source : row \in stored.schemas \cup stored.inputs} \subseteq sources
        /\ {row.input : row \in stored.profiles} \subseteq inputs
        /\ \A row, other \in stored.sources : row.id = other.id \/ row.name = other.name => row = other

SourceRow(name) ==
    IF \E row \in rows.sources : row.name = name
    THEN CHOOSE row \in rows.sources : row.name = name ELSE None

\* load_source_for_update.
StoredSource(name) == IF SourceRow(name) = None THEN None ELSE AssembleSource(SourceRow(name), rows)

---------------------------------------------------------------------------
(* Sources to rows.                                                        *)

SchemaRow(schema) ==
    [id |-> schema.id, source |-> schema.source, version |-> schema.version,
     definition |-> SchemaMaterialized(schema)]

ProfileRow(profile, source) ==
    [id |-> profile.id, input |-> profile.input, source |-> source, revision |-> profile.revision,
     target |-> profile.target, definition |-> ProfileMaterialized(profile)]

InputRow(input) == [id |-> input.id, source |-> input.source, name |-> input.name, active |-> input.active]

\* A version that does not fit its column fails the transaction.
VersionsFit(source) ==
    /\ \A schema \in Range(source.schemas) : schema.version <= MaximumVersion
    /\ \A input \in Range(source.inputs) :
         \A profile \in Range(input.revisions) : profile.revision <= MaximumVersion

Missing(new, stored) == {row \in new : \A known \in stored : known.id # row.id}

\* New inputs are inserted, the active revision of the others is replaced.
PersistedInputs(stored, plan) ==
    LET inputs == {InputRow(input) : input \in Range(plan.source.inputs)}
    IN  Missing(stored.inputs, inputs) \cup inputs

\* Mutant: only the revisions of inputs that are new are inserted.
PersistedProfiles_NewInputsOnly(stored, plan) ==
    LET inputs == Missing(Range(plan.source.inputs), stored.inputs)
    IN  stored.profiles
          \cup UNION {{ProfileRow(profile, plan.source.id) : profile \in Range(input.revisions)} : input \in inputs}

PersistedProfiles(stored, plan) ==
    LET profiles == UNION {{ProfileRow(profile, plan.source.id) : profile \in Range(input.revisions)}
                             : input \in Range(plan.source.inputs)}
    IN  stored.profiles \cup Missing(profiles, stored.profiles)

\* The tables after the plan: definitions whose identity is stored are left alone, the source's
\* display name and active schema are replaced.
PersistPlan(stored, plan) ==
    LET source == plan.source
        new    == [id |-> source.id, name |-> source.name, display |-> source.display,
                   active |-> source.active]
    IN  IF plan.outcome = "Unchanged" THEN stored
        ELSE [sources  |-> Missing(stored.sources, {new}) \cup {new},
              schemas  |-> stored.schemas
                             \cup Missing({SchemaRow(schema) : schema \in Range(source.schemas)}, stored.schemas),
              inputs   |-> PersistedInputs(stored, plan),
              profiles |-> PersistedProfiles(stored, plan)]

---------------------------------------------------------------------------
(* The store.                                                              *)

Idle == [state |-> "idle"]

Init ==
    /\ offered \in Workloads
    /\ rows = NoRows
    /\ commits = [name \in ValidNames |-> 0]
    /\ snapshot = [p \in Processes |-> <<>>]
    /\ gate = [p \in Processes |-> None]
    /\ request = [r \in Requests |-> Idle]
    /\ plans = 0
    /\ pins = {}
    /\ crashes = 0

Settled(r) == request[r].state \in {"idle", "applied", "refused"}

\* The client is told of an error; nothing of the application remains.
Refuse(r, error) == request' = [request EXCEPT ![r] = [state |-> "refused", outcome |-> error]]

Succeed(r) ==
    request' = [request EXCEPT ![r] =
      [state |-> "applied", process |-> @.process, manifest |-> @.manifest, commit |-> @.commit,
       outcome |-> IF @.plan.outcome = "Unchanged" THEN "Unchanged" ELSE "Applied"]]

Release(r) == gate' = [gate EXCEPT ![request[r].process] = None]

\* Mutant: nothing keeps the applications of a process apart.
GateFree_Always(p) == TRUE

GateFree(p) == gate[p] = None

\* The endpoint: a document that does not decode is refused on the spot, others wait for the
\* gate (which changes nothing) and take it.
Submit(r, p, manifest) ==
    /\ Settled(r)
    /\ snapshot[p] # None
    /\ plans < MaxApplications
    /\ ManifestValid(manifest)
    /\ GateFree(p)
    /\ gate' = [gate EXCEPT ![p] = r]
    /\ request' = [request EXCEPT ![r] = [state |-> "gated", process |-> p, manifest |-> manifest]]
    /\ UNCHANGED <<offered, rows, commits, snapshot, plans, pins, crashes>>

\* The advisory lock on the source's name lasts as long as the transaction.
NameLocked(name) == \E r \in Requests : request[r].state = "planned" /\ request[r].manifest.name = name

\* begin, lock, load_source_for_update, plan and persist_plan: nothing is visible before COMMIT.
\* The plan against the stored source; a row that is no source is corrupt.
PlanAgainst(manifest, current) ==
    IF current = None /\ SourceRow(manifest.name) # None THEN [error |-> "Corrupt"]
    ELSE PlanCatalogApplication(manifest, current, plans + 1)

PlanError(plan) ==
    IF plan.error # None THEN plan.error
    ELSE IF VersionsFit(plan.source) THEN None ELSE "DefinitionConflict"

Plan(r) ==
    LET manifest == request[r].manifest
    IN  /\ request[r].state = "gated"
        /\ ~NameLocked(manifest.name)
        /\ plans < MaxApplications
        /\ plans' = plans + 1
        /\ \E plan \in {PlanAgainst(manifest, StoredSource(manifest.name))} :
             IF PlanError(plan) # None THEN Refuse(r, PlanError(plan)) /\ Release(r)
             ELSE /\ request' = [request EXCEPT ![r] = [state |-> "planned", process |-> @.process,
                                                        manifest |-> manifest, plan |-> plan, commit |-> 0]]
                  /\ UNCHANGED gate
        /\ UNCHANGED <<offered, rows, commits, snapshot, pins, crashes>>

Commit(r) ==
    LET name == request[r].manifest.name
    IN  /\ request[r].state = "planned"
        /\ rows' = PersistPlan(rows, request[r].plan)
        /\ commits' = [commits EXCEPT ![name] = @ + 1]
        /\ request' = [request EXCEPT ![r] = [@ EXCEPT !.state = "committed",
                                                       !.commit = commits[name] + 1]]
        /\ UNCHANGED <<offered, snapshot, gate, plans, pins, crashes>>

\* merge_source: the source takes the place of the one of its name.
Replacing(sources, source, commit) ==
    LET name == source.name
    IN  IF \/ \E other \in DOMAIN sources : other # name /\ sources[other].source.id = source.id
           \/ name \in DOMAIN sources /\ sources[name].source.id # source.id
        THEN None
        ELSE [other \in DOMAIN sources \cup {name} |->
                IF other = name THEN [source |-> source, commit |-> commit] ELSE sources[other]]

\* The answer to COMMIT arrives: the snapshot follows and the client is told.
Merge(r) ==
    LET p    == request[r].process
        next == Replacing(snapshot[p], request[r].plan.source, request[r].commit)
    IN  /\ request[r].state = "committed"
        /\ IF next = None THEN Refuse(r, "Corrupt") /\ UNCHANGED snapshot
           ELSE /\ Succeed(r)
                /\ snapshot' = [snapshot EXCEPT ![p] = next]
        /\ Release(r)
        /\ UNCHANGED <<offered, rows, commits, plans, pins, crashes>>

\* PostgreSQL cannot be reached: the transaction rolls back, or its COMMIT goes unanswered.
Unavailable(r) ==
    /\ request[r].state \in {"gated", "planned", "committed"}
    /\ Refuse(r, "Unavailable")
    /\ Release(r)
    /\ UNCHANGED <<offered, rows, commits, snapshot, plans, pins, crashes>>

\* The client goes away: the handler is dropped where it waits.
Disconnect(r) ==
    /\ ~Settled(r)
    /\ request' = [request EXCEPT ![r] = Idle]
    /\ IF gate[request[r].process] = r THEN Release(r) ELSE UNCHANGED gate
    /\ UNCHANGED <<offered, rows, commits, snapshot, plans, pins, crashes>>

Crash(p) ==
    /\ crashes < MaxCrashes
    /\ snapshot[p] # None
    /\ crashes' = crashes + 1
    /\ snapshot' = [snapshot EXCEPT ![p] = None]
    /\ gate' = [gate EXCEPT ![p] = None]
    /\ request' = [r \in Requests |-> IF ~Settled(r) /\ request[r].process = p
                                      THEN Idle ELSE request[r]]
    /\ UNCHANGED <<offered, rows, commits, plans, pins>>

\* CatalogStore::load at start: without a snapshot the process does not come up.
Load(p) ==
    /\ snapshot[p] = None
    /\ Loadable(rows)
    /\ snapshot' = [snapshot EXCEPT ![p] =
         [name \in {row.name : row \in rows.sources} |->
            [source |-> StoredSource(name), commit |-> commits[name]]]]
    /\ UNCHANGED <<offered, rows, commits, gate, request, plans, pins, crashes>>

\* The identities that name a source's parts for normalisation.
Keyed(source) ==
    [id |-> source.id,
     schemas |-> [id \in {schema.id : schema \in Range(source.schemas)} |->
                    CHOOSE schema \in Range(source.schemas) : schema.id = id],
     inputs  |-> [id \in {input.id : input \in Range(source.inputs)} |->
                    LET revisions == Range((CHOOSE input \in Range(source.inputs) : input.id = id).revisions)
                    IN  [revision \in {profile.id : profile \in revisions} |->
                           CHOOSE profile \in revisions : profile.id = revision]]]

\* Mutant: the batch is given the schema that queries use.
PinnedIdentities_ActiveSchema(source, input) ==
    [source |-> source.id, input |-> input.id, revision |-> input.active, schema |-> source.active]

PinnedIdentities(source, input) ==
    LET profile == Find(input.revisions, LAMBDA revision : revision.id = input.active)
    IN  [source |-> source.id, input |-> input.id, revision |-> profile.id, schema |-> profile.target]

\* A batch is admitted under the active revision of its input in the snapshot of that moment.
Admit(p) ==
    /\ snapshot[p] # None
    /\ Cardinality(pins) < MaxPins
    /\ \E name \in DOMAIN snapshot[p] :
         \E input \in Range(snapshot[p][name].source.inputs) :
           LET source == snapshot[p][name].source
               pinned == PinnedIdentities(source, input)
           IN  pins' = pins \cup {[process |-> p, name |-> name, identities |-> pinned,
                                   plan |-> Resolve(pinned, Keyed(source))]}
    /\ UNCHANGED <<offered, rows, commits, snapshot, gate, request, plans, crashes>>

Step(r) == Plan(r) \/ Commit(r) \/ Merge(r)

Next ==
    \/ \E r \in Requests :
         \/ Step(r) \/ Unavailable(r) \/ Disconnect(r)
         \/ \E p \in offered.processes, manifest \in offered.documents : Submit(r, p, manifest)
    \/ \E p \in offered.processes : Crash(p) \/ Load(p) \/ Admit(p)

Spec == Init /\ [][Next]_vars

---------------------------------------------------------------------------
(* Properties.                                                             *)

\* No process's snapshot is ahead of the database, and the source that apply installs in memory is
\* the one a restart would read back: canonical documents, identities, order and active pointers
\* survive the way through the rows.
SnapshotIsDurable ==
    \A p \in Processes : snapshot[p] # None =>
      \A name \in DOMAIN snapshot[p] :
        /\ snapshot[p][name].commit \in 1 .. commits[name]
        /\ snapshot[p][name].commit = commits[name] =>
             snapshot[p][name].source = StoredSource(name)

\* Whatever was applied, the rows still assemble into sources, those that are in memory, and no
\* application is answered "corrupt": a process that starts now gets the snapshot that the others
\* have (assemble_snapshot, plan_catalog_application, merge_source).
CatalogLoads ==
    /\ Loadable(rows)
    /\ \A r \in Requests : request[r].state = "refused" => request[r].outcome # "Corrupt"
    /\ SnapshotIsDurable

\* An application that was answered with success is in its process's snapshot, or a later one of
\* that source is: no interleaving of applications, disconnects and restarts takes it out again.
AnsweredVisible ==
    \A r \in Requests :
      LET applied == request[r]
      IN  /\ applied.state = "applied"
          /\ snapshot[applied.process] # None
          => /\ applied.manifest.name \in DOMAIN snapshot[applied.process]
             /\ snapshot[applied.process][applied.manifest.name].commit >= applied.commit

\* A batch admitted under a snapshot resolves against every later snapshot of its process, after a
\* restart too, and to the plan it was admitted under (NormalizationPlan::resolve).
PinnedResolves ==
    \A pin \in pins : snapshot[pin.process] # None =>
      /\ pin.name \in DOMAIN snapshot[pin.process]
      /\ LET source == Keyed(snapshot[pin.process][pin.name].source)
         IN  /\ ResolveError(pin.identities, source) = None
             /\ Resolve(pin.identities, source) = pin.plan

\* A manifest applied last can be applied again without changing anything: it plans to the stored
\* source and is reported as unchanged (plan_catalog_application, classify_application_outcome).
ReapplyUnchanged ==
    \A r \in Requests :
      LET applied == request[r]
          name    == applied.manifest.name
      IN  /\ applied.state = "applied"
          /\ applied.commit = commits[name]
          => \E stored \in {StoredSource(name)} :
               PlanCatalogApplication(applied.manifest, stored, plans + 1) =
                 [error |-> None, outcome |-> "Unchanged", source |-> stored]

\* The source of an application whose COMMIT has just succeeded.
JustCommitted == {request[r].plan.source : r \in {q \in Requests : request[q].state = "committed"}}

SchemaOf(source, id) == Find(source.schemas, LAMBDA schema : schema.id = id)

\* Every stored schema can be read as the active one, be it older or newer, alone and beside the
\* others, and a file's Arrow schema determines how (StoredSchemaPlan::build, load_stored_schemas).
SchemasAdapt ==
    \A source \in JustCommitted :
      LET active == SchemaOf(source, source.active)
          plan   == [i \in DOMAIN source.schemas |-> StoredSchemaPlan(active, source.schemas[i])]
      IN  \A i \in DOMAIN plan :
            /\ ~PlanCorrupt(plan[i])
            /\ FilePlan(plan, plan[i].arrow).columns = plan[i].columns
            /\ AnalysedHistory(source, active, {i}) = None

\* What a field holds for a row: what its profile promoted, else what the declared pointer finds in
\* the remainder by the conversion of ingestion, else null.
OrdinaryCell(field, stored, row, format) ==
    LET kept == Find(row.fields, LAMBDA cell : cell.field = field.id)
        old  == IF row.remainder = None \/ field.pointer = None THEN None
                ELSE ResolvePointer([type |-> "object", members |-> row.remainder], field.pointer)
        new  == IF old = None \/ old.type = "null" THEN None ELSE ConvertValue(old, field.type, format)
    IN  IF kept # None THEN kept.value ELSE IF new = None THEN NullValue ELSE new

\* Whether the engine, for any two columns, reads a record of the profile's schema as it should.
AdaptedCells(source, profile, record, formats) ==
    LET active  == SchemaOf(source, source.active)
        stored  == SchemaOf(source, profile.target)
        plan    == StoredSchemaPlan(active, stored)
        pinned  == [fields |-> FieldPlans(stored, profile), eventTime |-> profile.eventTime,
                    removed |-> RemovedProperties(profile)]
        row     == NormalizeRecord(pinned, record, 0)
        data    == {i \in DOMAIN active.fields : active.fields[i].role = "Data"}
    IN  row.code = None /\ profile.eventTime.format \in formats =>
          \A i, j \in data :
            AdaptRow(plan, <<i, j>>, StoredCells(stored, row)) =
              <<OrdinaryCell(active.fields[i], stored, row, profile.eventTime.format),
                OrdinaryCell(active.fields[j], stored, row, profile.eventTime.format)>>

\* Every stored schema reads as the active one, and a record that is normalised under an older schema
\* and queried under the active one has the values its own profile promoted, those the declared
\* pointers find in the remainder by the conversion of ingestion, and null otherwise, in whatever
\* order columns are projected (map_schema, map_batch, historical_array).
HistoricalReads ==
    /\ SchemasAdapt
    /\ \A source \in JustCommitted : \A input \in Range(source.inputs) :
         \A profile \in Range(input.revisions), record \in Records :
           AdaptedCells(source, profile, record, {"Rfc3339"})
---------------------------------------------------------------------------
(* The inductive invariant behind AnsweredVisible.                         *)

\* An application that holds its process's gate.
Working(r) == request[r].state \in {"gated", "planned", "committed"}

\* What the steps of an application make of its request.
CatalogTypeOK ==
    /\ offered \in Workloads
    /\ plans \in Nat
    /\ commits \in [ValidNames -> Nat]
    /\ gate \in [Processes -> Requests \cup {None}]
    /\ snapshot = [p \in Processes |-> snapshot[p]]
    /\ request = [r \in Requests |-> request[r]]
    /\ \A r \in Requests :
         /\ Working(r) \/ Settled(r)
         /\ Working(r) \/ request[r].state = "applied" =>
              request[r].process \in Processes /\ request[r].manifest.name \in ValidNames
         /\ request[r].state \in {"planned", "committed"} =>
              request[r] = [state |-> request[r].state, process |-> request[r].process,
                            manifest |-> request[r].manifest, plan |-> request[r].plan,
                            commit |-> request[r].commit]

\* The identities of sources that plans so far have generated.
GeneratedSources == {<<nonce, "source">> : nonce \in 1 .. plans}

\* The names with a row are those with a commit, and no two of them share an identity.
RowsNamed ==
    /\ \A name \in ValidNames : commits[name] > 0 <=> \E row \in rows.sources : row.name = name
    /\ \A row \in rows.sources : row.name \in ValidNames /\ row.id \in GeneratedSources
    /\ \A row, other \in rows.sources : row.id = other.id => row.name = other.name

\* A plan is for the source of its manifest's name, under the identity stored for that name or one
\* that nothing else has.
PlansNamed ==
    /\ \A r \in Requests : request[r].state \in {"planned", "committed"} =>
         request[r].plan.source.name = request[r].manifest.name
    /\ \A r \in Requests : request[r].state = "planned" =>
         /\ request[r].plan.source.id \in GeneratedSources
         /\ \A row \in rows.sources :
              row.id = request[r].plan.source.id => row.name = request[r].manifest.name
         /\ request[r].plan.outcome = "Unchanged" =>
              \E row \in rows.sources : row.name = request[r].manifest.name
    /\ \A r, q \in Requests :
         /\ request[r].state = "planned" /\ request[q].state = "planned"
         /\ request[r].plan.source.id = request[q].plan.source.id
         => request[r].manifest.name = request[q].manifest.name

\* An application under way holds the gate of a process that is up.
GatesHeld ==
    \A r \in Requests : Working(r) =>
      gate[request[r].process] = r /\ snapshot[request[r].process] # None

\* No snapshot is ahead of the database.
SnapshotsBehind ==
    \A p \in Processes : snapshot[p] # None =>
      \A name \in DOMAIN snapshot[p] :
        name \in ValidNames /\ snapshot[p][name].commit \in 1 .. commits[name]

\* A commit that its process has still to merge, or has answered, is one of the database, and
\* while it is to be merged the process's snapshot is behind it.
CommitsCounted ==
    \A r \in Requests :
      LET name == request[r].manifest.name
          p    == request[r].process
      IN  /\ request[r].state \in {"committed", "applied"} => request[r].commit \in 1 .. commits[name]
          /\ request[r].state = "committed" /\ name \in DOMAIN snapshot[p] =>
               snapshot[p][name].commit < request[r].commit

VisibilityInvariant ==
    /\ CatalogTypeOK
    /\ RowsNamed
    /\ PlansNamed
    /\ GatesHeld
    /\ SnapshotsBehind
    /\ CommitsCounted
    /\ AnsweredVisible
=============================================================================

---------------------------- MODULE CatalogModel ----------------------------
(***************************************************************************)
(* The catalog's domain model (elucid-catalog/src): what a manifest must   *)
(* satisfy, the documents its definitions are stored as, how a manifest is *)
(* planned against the source that is already stored, and how stored rows  *)
(* become a source again.  Pure: the state machine is in Catalog.          *)
(*                                                                         *)
(* A manifest is [format, name, display, active, schemas, inputs]; a       *)
(* declared schema is [version, fields], a declared field [name, type,     *)
(* nullable, pointer], a declared input [name, active, revisions], and a   *)
(* declared revision [revision, target, eventTime, mappings].  A digest is *)
(* the document it is taken of.  Identities are generated: <<nonce, kind,  *)
(* place>> for the nonce of the application that generates them.           *)
(***************************************************************************)
EXTENDS Normalization

CONSTANTS
    NameOrder,      \* the names is_valid_name accepts, in order
    MaximumVersion  \* the largest version a BIGINT column holds

ValidNames == Range(NameOrder)

NameLess(left, right) ==
    \E i, j \in DOMAIN NameOrder : i < j /\ NameOrder[i] = left /\ NameOrder[j] = right

Increasing(versions) == \A i, j \in DOMAIN versions : i < j => versions[i] < versions[j]

Versions(schemas) == [i \in DOMAIN schemas |-> schemas[i].version]

Revisions(revisions) == [i \in DOMAIN revisions |-> revisions[i].revision]

NamesOf(entities) == [i \in DOMAIN entities |-> entities[i].name]

\* The first element that passes a test, None if there is none.
Find(sequence, Test(_)) ==
    LET passing == SelectSeq(sequence, Test)
    IN  IF passing = <<>> THEN None ELSE passing[1]

---------------------------------------------------------------------------
(* The manifest.                                                           *)

ManifestSchemaValid(schema) ==
    /\ schema.version > 0
    /\ Range(NamesOf(schema.fields)) \subseteq ValidNames
    /\ IsInjective(NamesOf(schema.fields))

ManifestProfileValid(profile, schemas) ==
    LET target  == Find(schemas, LAMBDA schema : schema.version = profile.target)
        targets == [i \in DOMAIN profile.mappings |-> profile.mappings[i].target]
    IN  /\ profile.revision > 0
        /\ target # None
        /\ IsInjective(targets)
        /\ Range(targets) \subseteq Range(NamesOf(target.fields))
        /\ \A field \in Range(target.fields) : field.nullable \/ field.name \in Range(targets)

ManifestInputValid(input, schemas) ==
    /\ input.name \in ValidNames
    /\ input.revisions # <<>>
    /\ \A profile \in Range(input.revisions) : ManifestProfileValid(profile, schemas)
    /\ Increasing(Revisions(input.revisions))
    /\ input.active \in Range(Revisions(input.revisions))

\* CatalogManifest::decode: what is rejected before a transaction is opened.
ManifestValid(manifest) ==
    /\ manifest.format = 1
    /\ manifest.name \in ValidNames
    /\ manifest.schemas # <<>>
    /\ \A schema \in Range(manifest.schemas) : ManifestSchemaValid(schema)
    /\ Increasing(Versions(manifest.schemas))
    /\ manifest.active \in Range(Versions(manifest.schemas))
    /\ \A input \in Range(manifest.inputs) : ManifestInputValid(input, manifest.schemas)
    /\ IsInjective(NamesOf(manifest.inputs))

---------------------------------------------------------------------------
(* Canonical documents.                                                    *)

SchemaDeclaration(version, fields) ==
    [domain |-> "schema declaration", version |-> version,
     fields |-> [i \in DOMAIN fields |->
                   [name |-> fields[i].name, type |-> fields[i].type,
                    nullable |-> fields[i].nullable, pointer |-> fields[i].pointer]]]

ProfileDeclaration(profile, target, mappings) ==
    [domain |-> "profile declaration", revision |-> profile.revision, target |-> target,
     eventTime |-> profile.eventTime, mappings |-> mappings]

\* The declaration of a stored revision names the fields its mappings identify.
StoredProfileDeclaration(profile, schema) ==
    ProfileDeclaration(profile, schema.version,
        [i \in DOMAIN profile.mappings |->
           [target  |-> Find(schema.fields, LAMBDA field : field.id = profile.mappings[i].target).name,
            pointer |-> profile.mappings[i].pointer]])

\* The Arrow type of a column, and the metadata that tells apart what shares one.
ArrowField(field) ==
    LET arrow == CASE field.type = "Datetime" -> "Timestamp"
                   [] field.type = "Eid"      -> "FixedSizeBinary"
                   [] field.type = "Json"     -> "Utf8"
                   [] OTHER                   -> field.type
    IN  [id |-> field.id, name |-> field.name, type |-> arrow, nullable |-> field.nullable,
         logical |-> IF field.type \in {"Eid", "Json"} THEN field.type ELSE None]

ArrowSchema(schema) == [i \in DOMAIN schema.fields |-> ArrowField(schema.fields[i])]

SchemaMaterialized(schema) ==
    [domain |-> "schema materialized", id |-> schema.id, source |-> schema.source,
     version |-> schema.version, fields |-> schema.fields, arrow |-> ArrowSchema(schema)]

ProfileMaterialized(profile) ==
    [domain |-> "profile materialized", id |-> profile.id, input |-> profile.input,
     revision |-> profile.revision, target |-> profile.target,
     eventTime |-> profile.eventTime, mappings |-> profile.mappings]

---------------------------------------------------------------------------
(* Schemas.                                                                *)

SystemField(name, role, type, nullable, ordinal) ==
    [id |-> <<name>>, name |-> name, role |-> role, type |-> type, nullable |-> nullable,
     pointer |-> None, ordinal |-> ordinal]

RemainderId == <<"@rest">>

\* A user field with the identity it is given; it takes its place after three system fields.
UserField(id, field, index) ==
    [id |-> id, name |-> field.name, role |-> "Data", type |-> field.type,
     nullable |-> field.nullable, pointer |-> field.pointer, ordinal |-> index + 2]

\* A historical remainder pointer needs a nullable field; identities and names are unique.
UserFieldsValid(fields) ==
    /\ \A field \in Range(fields) : field.pointer # None => field.nullable
    /\ IsInjective([i \in DOMAIN fields |-> fields[i].id])
    /\ IsInjective(NamesOf(fields))

MaterializeUserFields(fields) ==
    <<SystemField("@event_time", "EventTime", "Datetime", FALSE, 0),
      SystemField("@ingestion_time", "IngestionTime", "Datetime", FALSE, 1),
      SystemField("@event_id", "EventId", "Eid", FALSE, 2)>>
    \o fields \o
    <<SystemField("@rest", "Remainder", "Json", TRUE, Len(fields) + 3)>>

\* A later schema keeps the earlier fields as they are and appends nullable ones.
AdditiveEvolution(earlier, later) ==
    LET old == DataFields(earlier)
        new == DataFields(later)
        Kept(field) == [id |-> field.id, name |-> field.name, type |-> field.type,
                        nullable |-> field.nullable, pointer |-> field.pointer]
    IN  /\ Len(old) <= Len(new)
        /\ \A i \in DOMAIN old : Kept(old[i]) = Kept(new[i])
        /\ \A i \in DOMAIN new : i > Len(old) => new[i].nullable

\* Over the whole history one identity has one name and one name one identity.
HistoricalFieldIdentity(schemas) ==
    LET fields == UNION {Range(DataFields(schema)) : schema \in Range(schemas)}
    IN  \A f, g \in fields : (f.id = g.id) <=> (f.name = g.name)

\* Why a history is not one source's; None if it is.
SchemaHistoryError(source, active, schemas) ==
    IF \/ \E schema \in Range(schemas) : schema.source # source
       \/ ~Increasing(Versions(schemas))
       \/ ~IsInjective([i \in DOMAIN schemas |-> schemas[i].id])
       \/ ~HistoricalFieldIdentity(schemas)
    THEN "Corrupt"
    ELSE IF \E i \in 1 .. Len(schemas) - 1 : ~AdditiveEvolution(schemas[i], schemas[i + 1])
    THEN "SchemaIncompatible"
    ELSE IF active \notin {schemas[i].id : i \in DOMAIN schemas} THEN "Corrupt"
    ELSE None

---------------------------------------------------------------------------
(* Inputs and sources.                                                     *)

InputValid(input) ==
    /\ input.revisions # <<>>
    /\ \A profile \in Range(input.revisions) :
         /\ profile.input = input.id
         /\ IsInjective([i \in DOMAIN profile.mappings |-> profile.mappings[i].target])
    /\ Increasing(Revisions(input.revisions))
    /\ IsInjective([i \in DOMAIN input.revisions |-> input.revisions[i].id])
    /\ input.active \in {input.revisions[i].id : i \in DOMAIN input.revisions}

ProfileMappingsValid(profile, schema) ==
    LET data   == Range(DataFields(schema))
        mapped == {profile.mappings[i].target : i \in DOMAIN profile.mappings}
    IN  /\ mapped \subseteq {field.id : field \in data}
        /\ \A field \in data : field.nullable \/ field.id \in mapped

InputsValid(source, schemas, inputs) ==
    /\ IsInjective([i \in DOMAIN inputs |-> inputs[i].id])
    /\ IsInjective(NamesOf(inputs))
    /\ \A input \in Range(inputs) :
         /\ input.source = source
         /\ \A profile \in Range(input.revisions) :
              \E schema \in Range(schemas) :
                schema.id = profile.target /\ ProfileMappingsValid(profile, schema)

\* Source::new.
SourceError(source) ==
    IF source.schemas = <<>> THEN "Corrupt"
    ELSE LET history == SchemaHistoryError(source.id, source.active, source.schemas)
         IN  IF history # None THEN history
             ELSE IF InputsValid(source.id, source.schemas, source.inputs) THEN None
             ELSE "Corrupt"

---------------------------------------------------------------------------
(* Planning an application: each part is [error, ...].                     *)

\* A declared schema that is not stored yet; its fields keep the identities their names have.
NewSchema(declared, index, source, fieldIds, nonce) ==
    LET fields == [j \in DOMAIN declared.fields |->
                     LET name == declared.fields[j].name
                     IN  UserField(IF name \in DOMAIN fieldIds THEN fieldIds[name]
                                   ELSE <<nonce, "field", index, j>>, declared.fields[j], j)]
    IN  [error  |-> IF UserFieldsValid(fields) THEN None ELSE "ManifestInvalid",
         schema |-> [id |-> <<nonce, "schema", index>>, source |-> source,
                     version |-> declared.version, fields |-> MaterializeUserFields(fields),
                     declaration |-> SchemaDeclaration(declared.version, declared.fields)]]

PlannedSchema(declared, index, stored, source, fieldIds, nonce) ==
    IF index \in DOMAIN stored
    THEN [schema |-> stored[index],
          error  |-> IF stored[index].declaration # SchemaDeclaration(declared.version, declared.fields)
                     THEN "DefinitionConflict" ELSE None]
    ELSE NewSchema(declared, index, source, fieldIds, nonce)

\* The plan with one more schema, and the identities of the names in it.
AddSchema(plan, planned) ==
    LET data == Range(DataFields(planned.schema))
    IN  [error    |-> planned.error,
         schemas  |-> Append(plan.schemas, planned.schema),
         fieldIds |-> [name \in {field.name : field \in data} |->
                         (CHOOSE field \in data : field.name = name).id] @@ plan.fieldIds]

PlanSchema(manifest, stored, source, nonce, plan, index) ==
    IF plan.error # None THEN plan
    ELSE AddSchema(plan, PlannedSchema(manifest.schemas[index], index, stored, source, plan.fieldIds, nonce))

\* Declared schemas are matched with the stored ones by their place in the history.
PlanSchemas(manifest, stored, source, nonce) ==
    FoldIndices(LAMBDA plan, index : PlanSchema(manifest, stored, source, nonce, plan, index),
                [error    |-> IF Len(stored) > Len(manifest.schemas) THEN "HistoryDiverged" ELSE None,
                 schemas  |-> <<>>, fieldIds |-> <<>>],
                manifest.schemas)

NewProfile(declared, place, input, schema, nonce) ==
    [id |-> <<nonce, "profile", place>>, input |-> input, revision |-> declared.revision,
     target |-> schema.id, eventTime |-> declared.eventTime,
     mappings |-> [i \in DOMAIN declared.mappings |->
                     [target  |-> Find(schema.fields,
                                       LAMBDA field : /\ field.role = "Data"
                                                      /\ field.name = declared.mappings[i].target).id,
                      pointer |-> declared.mappings[i].pointer]],
     declaration |-> ProfileDeclaration(declared, declared.target, declared.mappings)]

PlanProfile(declared, place, stored, input, schemas, target, nonce) ==
    IF target = None THEN [error |-> "Corrupt"]
    ELSE IF stored = None
    THEN [error |-> None, profile |-> NewProfile(declared, place, input, target, nonce)]
    ELSE IF stored.target \notin {schema.id : schema \in Range(schemas)} THEN [error |-> "Corrupt"]
    ELSE [profile |-> stored,
          error   |-> IF stored.declaration # ProfileDeclaration(declared, declared.target, declared.mappings)
                      THEN "DefinitionConflict" ELSE None]

\* The first error of planned parts, None if every part is planned.
FirstError(planned) ==
    LET failing == {i \in DOMAIN planned : planned[i].error # None}
    IN  IF failing = {} THEN None ELSE planned[Min(failing)].error

CheckedInput(input) ==
    IF input.active # None /\ InputValid(input) THEN [error |-> None, input |-> input]
    ELSE [error |-> "Corrupt"]

PlannedInput(declared, id, source, planned) ==
    LET active == {i \in DOMAIN planned : planned[i].profile.revision = declared.active}
    IN  IF FirstError(planned) # None THEN [error |-> FirstError(planned)]
        ELSE CheckedInput([id |-> id, source |-> source, name |-> declared.name,
                           active |-> IF active = {} THEN None ELSE planned[Min(active)].profile.id,
                           revisions |-> [i \in DOMAIN planned |-> planned[i].profile]])

\* One declared input; place is its position among the names in order.
PlanInput(declared, place, stored, source, schemas, nonce) ==
    LET id       == IF stored = None THEN <<nonce, "input", place>> ELSE stored.id
        known    == IF stored = None THEN <<>> ELSE stored.revisions
        Profile(i, revision) ==
            PlanProfile(revision, <<place, i>>, IF i \in DOMAIN known THEN known[i] ELSE None, id, schemas,
                        Find(schemas, LAMBDA schema : schema.version = revision.target), nonce)
    IN  IF Len(known) > Len(declared.revisions) THEN [error |-> "HistoryDiverged"]
        ELSE PlannedInput(declared, id, source,
                          [i \in DOMAIN declared.revisions |-> Profile(i, declared.revisions[i])])

SortByName(entities) ==
    Ordered(entities, LAMBDA left, right : NameLess(left.name, right.name))

PlannedInputs(planned) ==
    IF FirstError(planned) # None THEN [error |-> FirstError(planned)]
    ELSE [error |-> None, inputs |-> [i \in DOMAIN planned |-> planned[i].input]]

PlanInputs(manifest, stored, source, schemas, nonce) ==
    LET Planned(declared) ==
          [i \in DOMAIN declared |->
             PlanInput(declared[i], i, Find(stored, LAMBDA input : input.name = declared[i].name),
                       source, schemas, nonce)]
    IN  IF ~(Range(NamesOf(stored)) \subseteq Range(NamesOf(manifest.inputs)))
        THEN [error |-> "HistoryDiverged"]
        ELSE PlannedInputs(Planned(SortByName(Range(manifest.inputs))))

\* The identities an application brings into the catalog.
Identities(source) ==
    {source.id} \cup {schema.id : schema \in Range(source.schemas)}
      \cup UNION {{input.id} \cup {profile.id : profile \in Range(input.revisions)}
                    : input \in Range(source.inputs)}

\* Mutant: active revisions are compared across inputs.
Outcome_AcrossInputs(current, source) ==
    IF current = None \/ ~(Identities(source) \subseteq Identities(current)) THEN "Created"
    ELSE IF \/ current.display # source.display
            \/ current.active # source.active
            \/ \E input \in Range(source.inputs), stored \in Range(current.inputs) :
                 stored.active # input.active
    THEN "Updated"
    ELSE "Unchanged"

\* Created when any definition is new, else Updated when a mutable attribute differs.
Outcome(current, source) ==
    IF current = None \/ ~(Identities(source) \subseteq Identities(current)) THEN "Created"
    ELSE IF \/ current.display # source.display
            \/ current.active # source.active
            \/ \E input \in Range(source.inputs), stored \in Range(current.inputs) :
                 stored.name = input.name /\ stored.active # input.active
    THEN "Updated"
    ELSE "Unchanged"

PlannedSource(current, source) ==
    [error |-> SourceError(source), source |-> source, outcome |-> Outcome(current, source)]

\* The plan once its schemas and inputs are planned.
PlanSource(manifest, current, id, schemas, active, inputs) ==
    IF active = None THEN [error |-> "Corrupt"]
    ELSE IF inputs.error # None THEN [error |-> inputs.error]
    ELSE PlannedSource(current, [id |-> id, name |-> manifest.name, display |-> manifest.display,
                                 active |-> active.id, schemas |-> schemas, inputs |-> inputs.inputs])

PlanCatalogApplication(manifest, current, nonce) ==
    LET id == IF current = None THEN <<nonce, "source">> ELSE current.id
        WithSchemas(planned) ==
            IF planned.error # None THEN [error |-> planned.error]
            ELSE PlanSource(manifest, current, id, planned.schemas,
                            Find(planned.schemas, LAMBDA schema : schema.version = manifest.active),
                            PlanInputs(manifest, IF current = None THEN <<>> ELSE current.inputs,
                                       id, planned.schemas, nonce))
    IN  IF current # None /\ current.name # manifest.name THEN [error |-> "Corrupt"]
        ELSE WithSchemas(PlanSchemas(manifest, IF current = None THEN <<>> ELSE current.schemas, id, nonce))
=============================================================================

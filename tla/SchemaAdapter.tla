---------------------------- MODULE SchemaAdapter ----------------------------
(***************************************************************************)
(* How the query engine reads a Parquet file that was written under one    *)
(* stored schema as rows of the active schema                              *)
(* (elucid-engine/src/schema_adapter.rs).                                  *)
(***************************************************************************)
EXTENDS CatalogModel

\* StoredSchemaPlan::build for one active field: its error, or where its values come from.
ColumnPlan(field, stored) ==
    LET places    == {i \in DOMAIN stored.fields : stored.fields[i].id = field.id}
        remainder == {i \in DOMAIN stored.fields : stored.fields[i].id = RemainderId}
    IN  IF remainder = {} THEN [kind |-> "Corrupt"]
        ELSE IF places # {}
        THEN LET found == stored.fields[Min(places)]
             IN  IF found.type # field.type \/ found.nullable # field.nullable
                 THEN [kind |-> "Corrupt"]
                 ELSE [kind |-> "Direct", stored |-> Min(places)]
        ELSE IF ~field.nullable THEN [kind |-> "Corrupt"]
        ELSE IF field.pointer = None THEN [kind |-> "Null"]
        ELSE IF field.type \notin Conversions THEN [kind |-> "Corrupt"]
        ELSE [kind |-> "Historical", stored |-> Min(remainder),
              pointer |-> field.pointer, type |-> field.type]

StoredSchemaPlan(active, stored) ==
    [source  |-> active.source = stored.source,
     arrow   |-> ArrowSchema(stored),
     columns |-> [i \in DOMAIN active.fields |-> ColumnPlan(active.fields[i], stored)]]

PlanCorrupt(plan) == ~plan.source \/ \E i \in DOMAIN plan.columns : plan.columns[i].kind = "Corrupt"

\* A file is read through the first plan whose Arrow schema is the file's.
FilePlan(plans, arrow) == Find(plans, LAMBDA plan : plan.arrow = arrow)

\* Where a stored column is among those that are read; one not read yet comes last.
ProjectionIndex(projection, stored) ==
    LET places == {i \in DOMAIN projection : projection[i] = stored}
    IN  IF places = {} THEN Len(projection) + 1 ELSE Min(places)

\* The stored columns to read for the projected columns, and the source of each of those.
MapSchema(plan, projected) ==
    LET Step(state, index) ==
          LET column == plan.columns[index]
          IN  IF column.kind = "Null" THEN [state EXCEPT !.mappings = Append(@, column)]
              ELSE LET input == ProjectionIndex(state.projection, column.stored)
                   IN  [projection |-> IF column.stored \in Range(state.projection)
                                       THEN state.projection ELSE Append(state.projection, column.stored),
                        mappings   |-> Append(state.mappings, [column EXCEPT !.stored = input])]
    IN  FoldElements(Step, [projection |-> <<>>, mappings |-> <<>>], projected)

\* Mutant: only the property at the top is looked up.
HistoricalValue_TopLevel(remainder, pointer, type) ==
    LET value     == IF remainder = None THEN None
                     ELSE ResolvePointer([type |-> "object", members |-> remainder], SubSeq(pointer, 1, 1))
        converted == IF value = None \/ value.type = "null" THEN None
                     ELSE ConvertValue(value, type, "Rfc3339")
    IN  IF converted = None THEN NullValue ELSE converted

\* A value of an older row: absence, null and a value of another type give null.
HistoricalValue(remainder, pointer, type) ==
    LET value     == IF remainder = None THEN None
                     ELSE ResolvePointer([type |-> "object", members |-> remainder], pointer)
        converted == IF value = None \/ value.type = "null" THEN None
                     ELSE ConvertValue(value, type, "Rfc3339")
    IN  IF converted = None THEN NullValue ELSE converted

\* The columns of one row of a batch that holds the stored columns of the projection.
MapRow(mapped, batch) ==
    [i \in DOMAIN mapped.mappings |->
       LET column == mapped.mappings[i]
       IN  IF column.kind = "Null" THEN NullValue
           ELSE IF column.kind = "Direct" THEN batch[column.stored]
           ELSE HistoricalValue(batch[column.stored], column.pointer, column.type)]

\* The cells of a normalised row in the file of its segment.
StoredCells(schema, row) ==
    [i \in DOMAIN schema.fields |->
       LET field == schema.fields[i]
       IN  CASE field.role = "EventTime" -> [type |-> "Datetime", value |-> row.time]
             [] field.role = "Data"      -> Find(row.fields, LAMBDA cell : cell.field = field.id).value
             [] field.role = "Remainder" -> row.remainder
             [] OTHER                    -> [type |-> field.role, position |-> row.position]]

\* A stored row as the query sees the projected columns of the active schema.
AdaptRow(plan, projected, cells) ==
    LET mapped == MapSchema(plan, projected)
    IN  MapRow(mapped, [i \in DOMAIN mapped.projection |-> cells[mapped.projection[i]]])

\* validate_schema_adapters: the schemas of the selected segments with the active one among them.
AnalysedHistory(source, active, selected) ==
    LET chosen == {source.schemas[i] : i \in selected} \cup {active}
        sorted == Ordered(chosen, LAMBDA left, right : left.version < right.version)
    IN  SourceError([source EXCEPT !.schemas = sorted, !.inputs = <<>>])
=============================================================================

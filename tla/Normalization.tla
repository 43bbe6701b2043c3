---------------------------- MODULE Normalization ----------------------------
(***************************************************************************)
(* What becomes of the records of one admitted body                        *)
(* (elucid-ingestion/src/normalization.rs), and the Arrow columns a sealed *)
(* segment is turned into (elucid-ingestion/src/parquet.rs).  Pure: the    *)
(* body, the pinned identities and the catalog source determine the rows,  *)
(* the dead letters and their positions.                                   *)
(*                                                                         *)
(* A body is a sequence of occurrences.  Each has a number of payload      *)
(* bytes, the bytes of its line ending (0 at the end of the body, 1 for    *)
(* LF, 2 for CRLF), and a content: blank, not UTF-8, text that is not one  *)
(* JSON object with unique keys, or the object it parses to.  A JSON       *)
(* integer is an integer; a real is known by the narrowest float that      *)
(* holds it; a string by the instant it denotes, if it is a timestamp.     *)
(***************************************************************************)
EXTENDS SequenceFolds

CONSTANTS
    None,               \* an absent option
    MaximumRecordBytes, \* the profile's limit
    MaximumEventDays,   \* MAXIMUM_BATCH_EVENT_DAYS
    PayloadPrefixBytes, \* DEAD_LETTER_PAYLOAD_PREFIX_BYTES
    DayLength,          \* MILLISECONDS_PER_DAY
    NarrowBits,         \* the width of Int32 and UInt32
    WideBits,           \* the width of Int64 and UInt64
    Instants            \* the milliseconds a UTC timestamp can represent

Signed(bits) == -(2 ^ (bits - 1)) .. 2 ^ (bits - 1) - 1

Unsigned(bits) == 0 .. 2 ^ bits - 1

ArrayIndex == [token \in {"0", "1", "2"} |-> CASE token = "0" -> 1 [] token = "1" -> 2 [] token = "2" -> 3]

\* The value a pointer leads to; an index with a sign or a leading zero leads nowhere.
ResolvePointer(root, pointer) ==
    LET Descend(current, token) ==
          IF current = None THEN None
          ELSE IF current.type = "object" /\ token \in DOMAIN current.members
               THEN current.members[token]
          ELSE IF /\ current.type = "array"
                  /\ token \in DOMAIN ArrayIndex
                  /\ ArrayIndex[token] \in DOMAIN current.items
               THEN current.items[ArrayIndex[token]]
          ELSE None
    IN  FoldElements(Descend, root, pointer)

IntegerI64(value) == IF value.type = "int" /\ value.n \in Signed(WideBits) THEN value.n ELSE None

IntegerU64(value) == IF value.type = "int" /\ value.n \in Unsigned(WideBits) THEN value.n ELSE None

ParseDatetime(value, format) ==
    LET at == IF format = "Rfc3339"
              THEN IF value.type = "string" /\ ~value.fraction THEN value.at ELSE None
              ELSE IntegerI64(value)
    IN  IF at # None /\ at \in Instants THEN at ELSE None

\* A number is finite in a float that is at least as wide as the one it needs.
FiniteIn(value, bits) ==
    \/ value.type = "int"
    \/ value.type = "real" /\ value.width # None /\ value.width <= bits

\* The normalised value, or None where the value does not have the declared type.
ConvertValue(value, conversion, format) ==
    LET Typed(content) == IF content = None THEN None ELSE [type |-> conversion, value |-> content]
    IN  CASE conversion = "Bool"     -> Typed(IF value.type = "bool" THEN value.n ELSE None)
          [] conversion = "Int32"    -> Typed(IF IntegerI64(value) \in Signed(NarrowBits)
                                              THEN value.n ELSE None)
          [] conversion = "Int64"    -> Typed(IntegerI64(value))
          [] conversion = "UInt32"   -> Typed(IF IntegerU64(value) \in Unsigned(NarrowBits)
                                              THEN value.n ELSE None)
          [] conversion = "UInt64"   -> Typed(IntegerU64(value))
          [] conversion = "Float32"  -> Typed(IF FiniteIn(value, NarrowBits) THEN value ELSE None)
          [] conversion = "Float64"  -> Typed(IF FiniteIn(value, WideBits) THEN value ELSE None)
          [] conversion = "Utf8"     -> Typed(IF value.type = "string" THEN value ELSE None)
          [] conversion = "Datetime" -> Typed(ParseDatetime(value, format))

Conversions == {"Bool", "Int32", "Int64", "UInt32", "UInt64", "Float32", "Float64", "Utf8", "Datetime"}

NullValue == [type |-> "Null"]

---------------------------------------------------------------------------
(* The plan: the pinned identities resolved against the catalog source.    *)

DataFields(schema) == SelectSeq(schema.fields, LAMBDA field : field.role = "Data")

\* The pointer mapped to a field: that of the first mapping that targets it.
FieldPointer(profile, field) ==
    LET targets == {i \in DOMAIN profile.mappings : profile.mappings[i].target = field.id}
    IN  IF targets = {} THEN None ELSE profile.mappings[Min(targets)].pointer

FieldPlan(profile, field) ==
    [field |-> field.id, nullable |-> field.nullable, conversion |-> field.type,
     pointer |-> FieldPointer(profile, field)]

FieldPlans(schema, profile) ==
    LET fields == DataFields(schema)
    IN  [i \in DOMAIN fields |-> FieldPlan(profile, fields[i])]

\* Why a schema and a profile have no field plan; None if they have one.
FieldPlanError(schema, profile) ==
    LET fields   == DataFields(schema)
        Failing(i) == \/ fields[i].type \notin Conversions
                      \/ FieldPointer(profile, fields[i]) = None /\ ~fields[i].nullable
        failing  == {i \in DOMAIN fields : Failing(i)}
    IN  IF failing = {} THEN None
        ELSE IF fields[Min(failing)].type \notin Conversions THEN "UnsupportedDataFieldType"
        ELSE "RequiredFieldMappingMissing"

\* The properties of the object that a mapping of one token takes out of the remainder.
RemovedProperties(profile) ==
    LET pointers == {profile.eventTime.pointer} \cup {profile.mappings[i].pointer : i \in DOMAIN profile.mappings}
    IN  {pointer[1] : pointer \in {p \in pointers : Len(p) = 1}}

\* The error of NormalizationPlan::resolve for a pinned batch, None if it resolves.
ResolveError(pinned, source) ==
    IF pinned.source # source.id THEN "SourceMismatch"
    ELSE IF pinned.input \notin DOMAIN source.inputs THEN "InputNotFound"
    ELSE IF pinned.revision \notin DOMAIN source.inputs[pinned.input] THEN "ProfileRevisionNotFound"
    ELSE LET profile == source.inputs[pinned.input][pinned.revision]
         IN  IF profile.target # pinned.schema THEN "ProfileTargetMismatch"
             ELSE IF pinned.schema \notin DOMAIN source.schemas THEN "SchemaNotFound"
             ELSE FieldPlanError(source.schemas[pinned.schema], profile)

Resolve(pinned, source) ==
    LET profile == source.inputs[pinned.input][pinned.revision]
    IN  [fields |-> FieldPlans(source.schemas[pinned.schema], profile),
         eventTime |-> profile.eventTime, removed |-> RemovedProperties(profile)]

---------------------------------------------------------------------------
(* One record.                                                             *)

Converted(value) == [code |-> IF value = None THEN "ConversionFailed" ELSE None, value |-> value]

\* Mutant: a member that is absent counts as null whether or not the field is nullable.
FieldOutcome_AbsentIsNull(plan, field, value) ==
    IF value = None \/ value.type = "null" THEN [code |-> None, value |-> NullValue]
    ELSE Converted(ConvertValue(value, field.conversion, plan.eventTime.format))

\* What a field makes of the value its pointer leads to: a field's value, or the code of the dead
\* letter.
FieldOutcome(plan, field, value) ==
    LET NullOr(code) == IF field.nullable THEN [code |-> None, value |-> NullValue]
                        ELSE [code |-> code, value |-> None]
    IN  IF value = None THEN NullOr("FieldMissing")
        ELSE IF value.type = "null" THEN NullOr("FieldNull")
        ELSE Converted(ConvertValue(value, field.conversion, plan.eventTime.format))

FieldOutcomes(plan, root) ==
    [i \in DOMAIN plan.fields |->
       FieldOutcome(plan, plan.fields[i],
                    IF plan.fields[i].pointer = None THEN None
                    ELSE ResolvePointer(root, plan.fields[i].pointer))]

EventTimeOf(plan, root) ==
    LET value == ResolvePointer(root, plan.eventTime.pointer)
    IN  IF value = None THEN None ELSE ParseDatetime(value, plan.eventTime.format)

\* What no mapping of a whole property takes from the object.
Remainder(plan, root) ==
    LET kept == DOMAIN root.members \ plan.removed
    IN  IF kept = {} THEN None ELSE [property \in kept |-> root.members[property]]

NormalizedRow(plan, root, position, time, outcomes) ==
    LET failing == {i \in DOMAIN outcomes : outcomes[i].code # None}
    IN  IF time = None THEN [code |-> "EventTimeInvalid", position |-> position]
        ELSE IF failing # {} THEN [code |-> outcomes[Min(failing)].code, position |-> position]
        ELSE [code |-> None, position |-> position, time |-> time,
              fields |-> [i \in DOMAIN outcomes |->
                            [field |-> plan.fields[i].field, value |-> outcomes[i].value]],
              remainder |-> Remainder(plan, root)]

\* The accepted row, or the code of the first check that the object fails.
NormalizeRecord(plan, root, position) ==
    NormalizedRow(plan, root, position, EventTimeOf(plan, root), FieldOutcomes(plan, root))

\* What a dead letter keeps of the payload: a prefix that ends between two characters.
DeadLetterPayload(occurrence) ==
    LET prefix     == Min({occurrence.bytes, PayloadPrefixBytes})
        boundaries == {end \in 0 .. prefix : end % occurrence.width = 0}
    IN  [extent   |-> IF occurrence.bytes <= PayloadPrefixBytes THEN "Complete" ELSE "Prefix",
         encoding |-> IF occurrence.kind = "binary" THEN "Base64" ELSE "Utf8",
         bytes    |-> IF occurrence.kind = "binary" THEN prefix ELSE Max(boundaries)]

DeadLetterEntry(position, code, occurrence) ==
    [code |-> code, position |-> position, bytes |-> occurrence.bytes,
     payload |-> DeadLetterPayload(occurrence)]

EventDay(row) == row.time \div DayLength

---------------------------------------------------------------------------
(* One body.                                                               *)

\* The position of an occurrence is the offset of its first byte.
InputPosition(body, i) ==
    FoldElements(LAMBDA sum, occurrence : sum + occurrence.bytes + occurrence.ending,
                 0, SubSeq(body, 1, i - 1))

\* Whether the rows of a day may enter the batch.
AdmitsDay(days, day) == day \in days \/ Cardinality(days) < MaximumEventDays

AddLetter(state, occurrence, position, code) ==
    [state EXCEPT !.records = Append(@, DeadLetterEntry(position, code, occurrence))]

AddRow(state, occurrence, row) ==
    IF row.code # None THEN AddLetter(state, occurrence, row.position, row.code)
    ELSE IF AdmitsDay(state.days, EventDay(row))
         THEN [state EXCEPT !.records = Append(@, row), !.days = @ \cup {EventDay(row)}]
    ELSE AddLetter(state, occurrence, row.position, "EventDayLimitExceeded")

\* One occurrence, given what the earlier ones made of the batch.
NormalizeOccurrence(plan, occurrence, position, state) ==
    IF occurrence.kind = "blank" THEN [state EXCEPT !.ignored = @ + 1]
    ELSE IF occurrence.bytes > MaximumRecordBytes THEN AddLetter(state, occurrence, position, "TooLarge")
    ELSE IF occurrence.kind = "binary" THEN AddLetter(state, occurrence, position, "InvalidUtf8")
    ELSE IF occurrence.kind = "text" THEN AddLetter(state, occurrence, position, "ParseFailed")
    ELSE AddRow(state, occurrence, NormalizeRecord(plan, occurrence.root, position))

NormalizeRecords(plan, body) ==
    FoldIndices(LAMBDA state, i : NormalizeOccurrence(plan, body[i], InputPosition(body, i), state),
                [records |-> <<>>, ignored |-> 0, days |-> {}], body)

RemoveCoveredPositions(records, covered) ==
    SelectSeq(records, LAMBDA record : record.position \notin covered)

---------------------------------------------------------------------------
(* The columns of a sealed segment.                                        *)

\* The error a field's builder meets in a value; None if it takes it.
AppendError(field, value) ==
    IF value.type = "Null"
    THEN IF field.nullable THEN None ELSE "NonNullFieldContainsNull"
    ELSE IF value.type # field.type THEN "NormalizedFieldTypeMismatch"
    ELSE IF \/ field.type = "Float32" /\ ~FiniteIn(value.value, NarrowBits)
            \/ field.type = "Float64" /\ ~FiniteIn(value.value, WideBits)
         THEN "NormalizedFloatNotFinite"
    ELSE None

\* The errors of materialize_segment_record_batch over rows of one segment.
MaterializationErrors(rows, schema) ==
    LET fields == DataFields(schema)
        RowErrors(row) ==
          IF Len(row.fields) # Len(fields) THEN {"NormalizedFieldCountMismatch"}
          ELSE UNION {IF row.fields[i].field # fields[i].id
                      THEN {"NormalizedFieldIdentityMismatch"}
                      ELSE {AppendError(fields[i], row.fields[i].value)} \ {None} : i \in DOMAIN fields}
        unsupported == IF \E i \in DOMAIN fields : fields[i].type \notin Conversions
                       THEN {"UnsupportedDataFieldType"} ELSE {}
    IN  unsupported \cup UNION {RowErrors(row) : row \in rows}
=============================================================================

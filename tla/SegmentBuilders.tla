--------------------------- MODULE SegmentBuilders ---------------------------
(***************************************************************************)
(* The ingestion worker between the spool and the output log: it           *)
(* normalises the batches it reads, groups the accepted rows into open     *)
(* builders by source, schema and event day, seals builders at their       *)
(* targets, at their age and under pressure, and drains sealed segments    *)
(* (elucid-ingestion/src/segment.rs, the loop of                           *)
(* elucid-service/src/processing.rs).  What publication itself takes is    *)
(* the subject of Ingestion; here an output is published in one step.      *)
(*                                                                         *)
(* A builder's age stands for the time since it opened: it grows with      *)
(* Tick up to OpenDuration, past which nothing distinguishes ages.         *)
(***************************************************************************)
EXTENDS Normalization, SequencesExt

CONSTANTS
    Batches,            \* the batches the spool may receive, by identity
    Source,             \* the catalog source they are pinned to
    RecoveredCoverage,  \* per batch, the positions of outputs recovered as published
    TargetRows, TargetBytes,      \* TARGET_SEGMENT_ROWS, TARGET_SEGMENT_ESTIMATED_BYTES
    OpenDuration,                 \* MAXIMUM_SEGMENT_OPEN_DURATION
    MaximumOpenBuilders,          \* MAXIMUM_OPEN_SEGMENT_BUILDERS
    MaximumResident, MaximumStaging,
    RowSize, FieldSize, EntrySize, ValueSize  \* size_of the Rust types

ASSUME LimitsValid ==
    /\ {TargetRows, TargetBytes, OpenDuration, MaximumOpenBuilders, MaximumResident, MaximumStaging}
         \subseteq Nat \ {0}
    /\ MaximumEventDays <= MaximumOpenBuilders

VARIABLES
    pc,         \* where the worker's loop is
    spool,      \* the identities of the batches appended, in order
    taken,      \* the number of batches read from it
    candidate,  \* the normalised batch being pushed, or None
    builders,   \* SegmentBuilders
    published,  \* the occurrences with a published output, <<batch, position>>
    checkpoint  \* the number of batches before the durable checkpoint

vars == <<pc, spool, taken, candidate, builders, published, checkpoint>>

---------------------------------------------------------------------------
(* The estimates that stand for the memory and the staging bytes of a row. *)

EstimatedAllocation(bytes) == IF bytes = 0 THEN 0 ELSE bytes + 32

RECURSIVE JsonBytes(_), ResidentValue(_)

\* The bytes of a value's JSON text.
JsonBytes(value) ==
    CASE value.type = "object" ->
           1 + Max({1, Cardinality(DOMAIN value.members)})
             + MapThenSumSet(LAMBDA key : Len(key) + 3 + JsonBytes(value.members[key]), DOMAIN value.members)
      [] value.type = "array" ->
           1 + Max({1, Len(value.items)})
             + MapThenSumSet(LAMBDA i : JsonBytes(value.items[i]), DOMAIN value.items)
      [] OTHER -> value.len

\* The heap bytes behind a value of the remainder.
ResidentValue(value) ==
    CASE value.type = "object" ->
           MapThenSumSet(LAMBDA key : EntrySize + 64 + EstimatedAllocation(Len(key))
                                        + ResidentValue(value.members[key]), DOMAIN value.members)
      [] value.type = "array" ->
           EstimatedAllocation(Len(value.items) * ValueSize)
             + MapThenSumSet(LAMBDA i : ResidentValue(value.items[i]), DOMAIN value.items)
      [] value.type = "string" -> EstimatedAllocation(value.len)
      [] OTHER -> 0

EstimateUncompressedValue(value) ==
    CASE value.type = "Null" -> 1
      [] value.type = "Bool" -> 2
      [] value.type \in {"Int32", "UInt32", "Float32"} -> 5
      [] value.type \in {"Int64", "UInt64", "Float64", "Datetime"} -> 9
      [] value.type = "Utf8" -> value.value.len + 5

EstimateResidentRow(row) ==
    LET texts == {i \in DOMAIN row.fields : row.fields[i].value.type = "Utf8"}
    IN  2 * RowSize + EstimatedAllocation(Len(row.fields) * FieldSize)
          + MapThenSumSet(LAMBDA i : EstimatedAllocation(row.fields[i].value.value.len), texts)
          + (IF row.remainder = None THEN 0 ELSE ResidentValue([type |-> "object", members |-> row.remainder]))

EstimateRow(row) ==
    [uncompressed |->
       32 + MapThenSumSet(LAMBDA i : EstimateUncompressedValue(row.fields[i].value), DOMAIN row.fields)
          + (IF row.remainder = None THEN 1
             ELSE 5 + JsonBytes([type |-> "object", members |-> row.remainder])),
     resident |-> EstimateResidentRow(row)]

AcceptedRows(records) == SelectSeq(records, LAMBDA record : record.code = None)

PlanBatchRows(records) ==
    LET rows == AcceptedRows(records)
        Total(Of(_)) == MapThenSumSet(LAMBDA i : Of(EstimateRow(rows[i])), DOMAIN rows)
    IN  [uncompressed |-> Total(LAMBDA estimates : estimates.uncompressed),
         resident |-> Total(LAMBDA estimates : estimates.resident)]

---------------------------------------------------------------------------
(* The builders.                                                           *)

SegmentKey(batch, row) == <<batch.pinned.source, batch.pinned.schema, EventDay(row)>>

KeyLess(left, right) ==
    \E i \in 1 .. 3 : left[i] < right[i] /\ \A j \in 1 .. i - 1 : left[j] = right[j]

\* The digest that is the event identity orders occurrences; the model takes one order.
EventLess(left, right) ==
    \/ left.row.time < right.row.time
    \/ /\ left.row.time = right.row.time
       /\ \/ left.batch > right.batch
          \/ left.batch = right.batch /\ left.row.position < right.row.position

SegmentRow(n, row) ==
    [batch |-> n, row |-> row, ingestion |-> Batches[n].ingestion, estimates |-> EstimateRow(row)]

RowSum(rows, Of(_)) == MapThenSumSet(LAMBDA i : Of(rows[i].estimates), DOMAIN rows)

\* OpenSegment::seal
SealedSegment(builder, key, reason) ==
    LET rows       == SetToSortSeq(ToSet(builder.rows), EventLess)
        ingestions == {row.ingestion : row \in ToSet(rows)}
    IN  [key |-> key, reason |-> reason, rows |-> rows,
         bounds |-> [minimumEventTime |-> rows[1].row.time,
                     maximumEventTime |-> rows[Len(rows)].row.time,
                     minimumIngestionTime |-> Min(ingestions),
                     maximumIngestionTime |-> Max(ingestions)],
         uncompressed |-> builder.uncompressed, resident |-> builder.resident]

\* Mutant: the sealed segment is put in front of the earlier ones' place, over the last of them.
Seal_Overwrites(state, key, reason) ==
    [state EXCEPT !.open = Restrict(@, DOMAIN @ \ {key}),
                  !.sealed = Append(IF Len(@) > 1 THEN Front(@) ELSE @,
                                    SealedSegment(state.open[key], key, reason))]

Seal(state, key, reason) ==
    [state EXCEPT !.open = Restrict(@, DOMAIN @ \ {key}),
                  !.sealed = Append(@, SealedSegment(state.open[key], key, reason))]

SealEach(state, keys, reason) ==
    FoldLeft(LAMBDA current, key : Seal(current, key, reason), state, SetToSortSeq(keys, KeyLess))

\* Mutant: a builder is not yet due when its age is the maximum open duration.
ExpiredKeys_After(state) ==
    {key \in DOMAIN state.open : state.open[key].age > OpenDuration}

ExpiredKeys(state) ==
    {key \in DOMAIN state.open : state.open[key].age >= OpenDuration}

SealExpired(state) == SealEach(state, ExpiredKeys(state), "MaximumAge")

SealAll(state) == SealEach(state, DOMAIN state.open, "CapacityPressure")

\* Sequence numbers are distinct, so the key never decides between two builders.
LeastRecentlyUsed(state) ==
    CHOOSE key \in DOMAIN state.open :
        \A other \in DOMAIN state.open : state.open[key].touched <= state.open[other].touched

\* Before a row enters its builder: the builder it would overfill, and the builder limit.
MakeRoom(state, key, row) ==
    LET overfull == /\ key \in DOMAIN state.open
                    /\ state.open[key].uncompressed + row.estimates.uncompressed > TargetBytes
        kept     == IF overfull THEN Seal(state, key, "ByteTarget") ELSE state
    IN  IF key \notin DOMAIN kept.open /\ Cardinality(DOMAIN kept.open) = MaximumOpenBuilders
        THEN Seal(kept, LeastRecentlyUsed(kept), "BuilderLimit")
        ELSE kept

\* OpenSegment::new and OpenSegment::push
OpenSegment(state, key, row) ==
    LET sequence == state.access + 1
        builder  == IF key \in DOMAIN state.open THEN state.open[key]
                    ELSE [rows |-> <<>>, uncompressed |-> 0, resident |-> 0, age |-> 0, touched |-> 0]
    IN  [rows |-> Append(builder.rows, row),
         uncompressed |-> builder.uncompressed + row.estimates.uncompressed,
         resident |-> builder.resident + row.estimates.resident,
         age |-> builder.age, touched |-> sequence]

SealAtTarget(state, key) ==
    IF Len(state.open[key].rows) >= TargetRows THEN Seal(state, key, "RowTarget")
    ELSE IF state.open[key].uncompressed >= TargetBytes THEN Seal(state, key, "ByteTarget")
    ELSE state

PushRow(state, n, accepted) ==
    LET row    == SegmentRow(n, accepted)
        key    == SegmentKey(Batches[n], accepted)
        room   == MakeRoom(state, key, row)
        filled == [room EXCEPT !.open = (key :> OpenSegment(room, key, row)) @@ @,
                               !.access = @ + 1,
                               !.resident = @ + row.estimates.resident,
                               !.staging = @ + row.estimates.uncompressed]
    IN  SealAtTarget(filled, key)

PushRows(state, n, rows) ==
    FoldLeft(LAMBDA current, row : PushRow(current, n, row), state, rows)

\* take_next_sealed, for a queue that is not empty
TakeNextSealed(state) ==
    [state EXCEPT !.sealed = Tail(@),
                  !.resident = @ - Head(state.sealed).resident,
                  !.staging = @ - Head(state.sealed).uncompressed]

---------------------------------------------------------------------------
(* The worker.                                                             *)

Normalized == [n \in DOMAIN Batches |->
                 NormalizeRecords(Resolve(Batches[n].pinned, Source), Batches[n].body)]

Occurrences(n, records) == {<<n, record.position>> : record \in ToSet(records)}

\* BatchOutputRequirements::from_normalized
Required(n) == Occurrences(n, Normalized[n].records)

Init ==
    /\ pc = "poll"
    /\ spool = <<>>
    /\ taken = 0
    /\ candidate = None
    /\ builders = [open |-> <<>>, sealed |-> <<>>, resident |-> 0, staging |-> 0, access |-> 0]
    /\ published = UNION {{<<n, position>> : position \in RecoveredCoverage[n]} : n \in DOMAIN Batches}
    /\ checkpoint = 0

Arrive ==
    /\ \E n \in DOMAIN Batches \ ToSet(spool) : spool' = Append(spool, n)
    /\ UNCHANGED <<pc, taken, candidate, builders, published, checkpoint>>

\* Time passes for every open builder.
Tick ==
    /\ \E key \in DOMAIN builders.open : builders.open[key].age < OpenDuration
    /\ builders' = [builders EXCEPT !.open =
         [key \in DOMAIN @ |-> [@[key] EXCEPT !.age = Min({@ + 1, OpenDuration})]]]
    /\ UNCHANGED <<pc, spool, taken, candidate, published, checkpoint>>

\* process_batch up to its loop: normalisation, and what recovery has already covered.
ReadBatch ==
    LET n == spool[taken + 1]
    IN  /\ pc \in {"poll", "wait"}
        /\ taken < Len(spool)
        /\ taken' = taken + 1
        /\ IF ResolveError(Batches[n].pinned, Source) # None
           THEN pc' = "failed" /\ UNCHANGED candidate
           ELSE /\ pc' = "push"
                /\ candidate' = [n |-> n, records |-> RemoveCoveredPositions(Normalized[n].records,
                                                                             RecoveredCoverage[n])]
        /\ UNCHANGED <<spool, builders, published, checkpoint>>

\* push_batch as far as its capacity checks, and the batch that neither budget can ever hold.
RejectBatch ==
    LET plan == PlanBatchRows(candidate.records)
    IN  /\ pc = "push"
        /\ plan.resident > MaximumResident \/ plan.uncompressed > MaximumStaging
        /\ builders' = SealExpired(builders)
        /\ pc' = "failed"
        /\ UNCHANGED <<spool, taken, candidate, published, checkpoint>>

\* Mutant: the pressure is that of the batch with the open builders, not with what is queued.
CapacityPressure_OpenOnly(state, plan) ==
    LET Open(Of(_)) == MapThenSumSet(LAMBDA key : Of(state.open[key]), DOMAIN state.open)
    IN  \/ Open(LAMBDA builder : builder.resident) + plan.resident > MaximumResident
        \/ Open(LAMBDA builder : builder.uncompressed) + plan.uncompressed > MaximumStaging

CapacityPressure(state, plan) ==
    \/ state.resident + plan.resident > MaximumResident
    \/ state.staging + plan.uncompressed > MaximumStaging

\* push_batch under pressure: every builder seals, and the batch waits for the drain.
DeferBatch ==
    LET plan == PlanBatchRows(candidate.records)
    IN  /\ pc = "push"
        /\ plan.resident <= MaximumResident /\ plan.uncompressed <= MaximumStaging
        /\ CapacityPressure(SealExpired(builders), plan)
        /\ builders' = SealAll(SealExpired(builders))
        /\ pc' = "drain"
        /\ UNCHANGED <<spool, taken, candidate, published, checkpoint>>

DeadLetterOccurrences(batch) ==
    Occurrences(batch.n, SelectSeq(batch.records, LAMBDA record : record.code # None))

\* push_batch that accepts the batch, and stage_dead_letter with its publication.
AcceptBatch ==
    LET plan == PlanBatchRows(candidate.records)
    IN  /\ pc = "push"
        /\ plan.resident <= MaximumResident /\ plan.uncompressed <= MaximumStaging
        /\ ~CapacityPressure(SealExpired(builders), plan)
        /\ builders' = PushRows(SealExpired(builders), candidate.n, AcceptedRows(candidate.records))
        /\ published' = published \cup DeadLetterOccurrences(candidate)
        /\ candidate' = None
        /\ pc' = "drain"
        /\ UNCHANGED <<spool, taken, checkpoint>>

SegmentOccurrences(segment) == {<<row.batch, row.row.position>> : row \in ToSet(segment.rows)}

\* One round of drain_sealed_segments: materialisation, staging and publication.
DrainSegment ==
    LET segment == Head(builders.sealed)
        rows    == {row.row : row \in ToSet(segment.rows)}
    IN  /\ pc = "drain"
        /\ builders.sealed # <<>>
        /\ builders' = TakeNextSealed(builders)
        /\ IF MaterializationErrors(rows, Source.schemas[segment.key[2]]) # {}
           THEN pc' = "failed" /\ UNCHANGED published
           ELSE /\ published' = published \cup SegmentOccurrences(segment)
                /\ UNCHANGED pc
        /\ UNCHANGED <<spool, taken, candidate, checkpoint>>

\* The queue is empty: back to the deferred batch, or to the spool.
Drained ==
    /\ pc = "drain"
    /\ builders.sealed = <<>>
    /\ pc' = IF candidate # None THEN "push" ELSE "poll"
    /\ UNCHANGED <<spool, taken, candidate, builders, published, checkpoint>>

\* The longest run of batches after the checkpoint whose every record has its output.
CompletePrefix(from, upTo, covered) ==
    Max({last \in from .. upTo : \A i \in from + 1 .. last : Required(spool[i]) \subseteq covered})

\* The spool has no batch to read: advance_checkpoint, then wait_for_work.
AdvanceCheckpoint ==
    /\ pc = "poll"
    /\ taken = Len(spool)
    /\ checkpoint' = CompletePrefix(checkpoint, taken, published)
    /\ pc' = "wait"
    /\ UNCHANGED <<spool, taken, candidate, builders, published>>

\* wait_for_work: the oldest builder is due, and seal_expired seals it.
SegmentExpiration ==
    /\ pc = "wait"
    /\ \E key \in DOMAIN builders.open : builders.open[key].age >= OpenDuration
    /\ builders' = SealExpired(builders)
    /\ pc' = "drain"
    /\ UNCHANGED <<spool, taken, candidate, published, checkpoint>>

Worker ==
    \/ ReadBatch
    \/ RejectBatch
    \/ DeferBatch
    \/ AcceptBatch
    \/ DrainSegment
    \/ Drained
    \/ AdvanceCheckpoint
    \/ SegmentExpiration

Next == Arrive \/ Tick \/ Worker

Spec == Init /\ [][Next]_vars

\* When some step of the worker is enabled.
WorkerReady ==
    \/ pc \in {"push", "drain", "poll"}
    \/ pc = "wait" /\ taken < Len(spool)
    \/ pc = "wait" /\ \E key \in DOMAIN builders.open : builders.open[key].age >= OpenDuration

\* The worker task is scheduled, and time passes.  The first conjunct is WF_vars(Worker) with
\* ENABLED spelled out.
LiveSpec ==
    /\ Spec
    /\ []<>~WorkerReady \/ []<><<Worker>>_vars
    /\ WF_vars(Tick)

---------------------------------------------------------------------------
(* Properties.                                                             *)

Segments == ToSet(builders.sealed)

Held == UNION {{<<row.batch, row.row.position>> : row \in ToSet(builders.open[key].rows)} :
               key \in DOMAIN builders.open}
        \cup UNION {SegmentOccurrences(segment) : segment \in Segments}

HeldRows == MapThenSumSet(LAMBDA key : Len(builders.open[key].rows), DOMAIN builders.open)
            + MapThenSumSet(LAMBDA i : Len(builders.sealed[i].rows), DOMAIN builders.sealed)

\* Every record of a batch the worker has taken in is in exactly one place: published, sealed, open
\* in a builder, or in the batch that waits for the drain (push_batch, push_row, seal and
\* take_next_sealed neither lose nor repeat a row, through deferral and expiry included).
RowsConserved ==
    LET waiting == IF candidate = None THEN {} ELSE Occurrences(candidate.n, candidate.records)
        read    == UNION {Required(spool[i]) : i \in 1 .. taken}
    IN  pc # "failed" =>
          /\ read \subseteq Held \cup waiting \cup published
          /\ Held \cap published = {} /\ Held \cap waiting = {}
          /\ Cardinality(Held) = HeldRows

\* The resident and staging estimates are at every moment the sums over the rows held, and neither
\* exceeds its budget: the check before a batch bounds the memory through all of its rows.
AccountingExact ==
    LET OpenSum(Of(_))   == MapThenSumSet(LAMBDA key : RowSum(builders.open[key].rows, Of), DOMAIN builders.open)
        SealedSum(Of(_)) == MapThenSumSet(LAMBDA i : RowSum(builders.sealed[i].rows, Of), DOMAIN builders.sealed)
        Sum(Of(_))       == OpenSum(Of) + SealedSum(Of)
    IN  /\ builders.resident = Sum(LAMBDA estimates : estimates.resident)
        /\ builders.staging = Sum(LAMBDA estimates : estimates.uncompressed)
        /\ builders.resident <= MaximumResident
        /\ builders.staging <= MaximumStaging

\* A sealed segment keeps its targets: at most TargetRows rows and, unless it is a single row, at
\* most TargetBytes estimated bytes; its rows are of one key, in event order, within exact bounds.
SegmentsWithinTargets ==
    \A segment \in Segments :
        LET rows  == segment.rows
            times == {row.row.time : row \in ToSet(rows)}
        IN  /\ Len(rows) \in 1 .. TargetRows
            /\ Len(rows) > 1 => segment.uncompressed <= TargetBytes
            /\ \A i \in DOMAIN rows : SegmentKey(Batches[rows[i].batch], rows[i].row) = segment.key
            /\ \A i \in 1 .. Len(rows) - 1 : EventLess(rows[i], rows[i + 1])
            /\ segment.bounds.minimumEventTime = Min(times)
            /\ segment.bounds.maximumEventTime = Max(times)

\* The limits are kept: the estimates that admission trusts are exact and within their budgets, and
\* what is sealed under them is a segment of its targets (segment.rs, push_batch and seal).
LimitsKept == AccountingExact /\ SegmentsWithinTargets

\* The worker stops for good only on a batch that, by itself, exceeds a budget: a batch that fits
\* is deferred and then accepted, its pinned identities resolve, and a row that normalisation
\* accepted never fails the checks of its segment's columns.
OnlyOversizedFails ==
    pc = "failed" =>
      /\ candidate # None
      /\ LET plan == PlanBatchRows(candidate.records)
         IN  plan.resident > MaximumResident \/ plan.uncompressed > MaximumStaging

\* Every batch in the spool is eventually before the checkpoint, unless the worker stops on an
\* oversized one: no row stays in a builder for want of later batches, and no deferral repeats.
BatchesCheckpointed ==
    checkpoint < Len(spool) ~> (checkpoint = Len(spool) \/ pc = "failed")
=============================================================================

--------------------------- MODULE CompactionMerge ---------------------------
(***************************************************************************)
(* The two pure halves of a compaction run: the choice of the segments a   *)
(* claim takes (elucid-metastore/src/compaction.rs) and the merge that the *)
(* worker makes of them (elucid-compaction/src/worker.rs).  The life of a  *)
(* run in the metastore is in ControlPlane, its place in the maintenance   *)
(* loop in Maintenance.                                                    *)
(*                                                                         *)
(* A row is <<event time, event identity, ingestion time>>.  A segment is  *)
(* a record of its identity, its group (source, schema and event day), the *)
(* registered row count, byte sizes and time bounds, its deadline, and the *)
(* rows of its object.  limits holds the configured bounds; both halves    *)
(* are configured from the same values.                                    *)
(***************************************************************************)
EXTENDS Integers, SequencesExt

Failure(kind) == [kind |-> kind, outputs |-> <<>>]

ceiling_dividend(value, divisor) ==
    value \div divisor + (IF value % divisor = 0 THEN 0 ELSE 1)

\* How many outputs a run over these totals is expected to make.
ExpectedOutputs(rows, bytes, limits) ==
    Max({ceiling_dividend(rows, limits.targetRows),
         ceiling_dividend(bytes, limits.targetBytes)})

-----------------------------------------------------------------------------
(* The claim. *)

PublishedBefore(a, b) ==
    \/ a.published < b.published
    \/ a.published = b.published /\ a.bytes < b.bytes
    \/ a.published = b.published /\ a.bytes = b.bytes /\ a.id < b.id

load_candidates(segments, now, limits) ==
    LET eligible == {s \in segments :
            /\ s.state = "ACTIVE" /\ ~s.claimed
            /\ s.rowCount < limits.targetRows
            /\ s.bytes < limits.targetBytes
            /\ s.expires > now + limits.minimumRetention
            /\ s.parquet <= limits.parquet}
        ordered == SetToSortSeq(eligible, PublishedBefore)
    IN SubSeq(ordered, 1, Min({Len(ordered), limits.candidates}))

NewGroup == [candidates |-> <<>>, rows |-> 0, parquet |-> 0, bytes |-> 0,
             beneficial |-> 0, stopped |-> FALSE]

\* Mutant: a group that only matches its expected output count is beneficial.
consider_Equal(limits, group, candidate) ==
    LET rows == group.rows + candidate.rowCount
        parquet == group.parquet + candidate.parquet
        bytes == group.bytes + candidate.bytes
        count == Len(group.candidates) + 1
    IN CASE group.stopped -> group
         [] ~group.stopped /\ (\/ count > limits.segments \/ rows > limits.rows
                               \/ parquet > limits.parquet \/ bytes > limits.bytes) ->
              [group EXCEPT !.stopped = TRUE]
         [] OTHER ->
              [group EXCEPT !.rows = rows, !.parquet = parquet, !.bytes = bytes,
                            !.candidates = Append(@, candidate),
                            !.beneficial = IF ExpectedOutputs(rows, bytes, limits) <= count
                                           THEN count ELSE @]

consider(limits, group, candidate) ==
    LET rows == group.rows + candidate.rowCount
        parquet == group.parquet + candidate.parquet
        bytes == group.bytes + candidate.bytes
        count == Len(group.candidates) + 1
    IN CASE group.stopped -> group
         [] ~group.stopped /\ (\/ count > limits.segments \/ rows > limits.rows
                               \/ parquet > limits.parquet \/ bytes > limits.bytes) ->
              [group EXCEPT !.stopped = TRUE]
         [] OTHER ->
              [group EXCEPT !.rows = rows, !.parquet = parquet, !.bytes = bytes,
                            !.candidates = Append(@, candidate),
                            !.beneficial = IF ExpectedOutputs(rows, bytes, limits) < count
                                           THEN count ELSE @]

\* The candidates of the first group, in candidate order, that is worth a run;
\* <<>> when none is.
choose_candidate_group(candidates, limits) ==
    LET Considered(key) ==
            LET Step(group, candidate) == consider(limits, group, candidate)
            IN FoldLeft(Step, NewGroup, SelectSeq(candidates, LAMBDA c : c.group = key))
        found == {i \in DOMAIN candidates : Considered(candidates[i].group).beneficial > 0}
    IN IF found = {} THEN <<>>
       ELSE LET group == Considered(candidates[Min(found)].group)
            IN SubSeq(group.candidates, 1, group.beneficial)

Total(inputs, Measure(_)) == FoldLeft(LAMBDA total, input : total + Measure(input), 0, inputs)

materialize_claim(selected) ==
    [inputs |-> selected,
     rows |-> Total(selected, LAMBDA s : s.rowCount),
     parquet |-> Total(selected, LAMBDA s : s.parquet),
     bytes |-> Total(selected, LAMBDA s : s.bytes),
     expires |-> Max({s.expires : s \in ToSet(selected)})]

-----------------------------------------------------------------------------
(* The worker. *)

\* "Accepted", or the kind of error a claim is refused with.
validate_claim(claim, limits) ==
    LET inputs == ToSet(claim.inputs)
        rows == Total(claim.inputs, LAMBDA s : s.rowCount)
        parquet == Total(claim.inputs, LAMBDA s : s.parquet)
        bytes == Total(claim.inputs, LAMBDA s : s.bytes)
        valid == /\ Len(claim.inputs) >= 2 /\ Len(claim.inputs) <= limits.segments
                 /\ \A s, t \in inputs : s.group = t.group
                 /\ \A s \in inputs : s.rowCount < limits.targetRows /\ s.bytes < limits.targetBytes
                 /\ <<rows, parquet, bytes>> = <<claim.rows, claim.parquet, claim.bytes>>
                 /\ rows <= limits.rows /\ parquet <= limits.parquet /\ bytes <= limits.bytes
                 /\ claim.expires = Max({s.expires : s \in inputs})
    IN CASE ~valid -> "Input"
         [] valid /\ ExpectedOutputs(rows, bytes, limits) >= Len(claim.inputs) -> "NotBeneficial"
         [] OTHER -> "Accepted"

KeyBefore(a, b) == a[1] < b[1] \/ (a[1] = b[1] /\ a[2] < b[2])

Bounds(rows) ==
    LET events == {r[1] : r \in ToSet(rows)}
        ingested == {r[3] : r \in ToSet(rows)}
    IN <<Min(events), Max(events), Min(ingested), Max(ingested)>>

\* What a cursor checks of the rows it has read so far.
validate_batch(input, rows) ==
    /\ \A r \in ToSet(rows) : r[1] >= input.group.dayStart /\ r[1] < input.group.dayEnd
    /\ \A i \in 1..(Len(rows) - 1) : ~KeyBefore(rows[i + 1], rows[i])
    /\ Len(rows) <= input.rowCount

\* What a cursor checks once its object is read to the end.
validate_complete(input) ==
    /\ Len(input.rows) = input.rowCount
    /\ Bounds(input.rows) = input.bounds

\* The registered size of a segment, spread over its rows; emitted rows precede
\* the one that is measured.
estimated_row_bytes(input, emitted) ==
    LET total == Max({input.bytes, input.rowCount})
    IN total \div input.rowCount + (IF emitted < total % input.rowCount THEN 1 ELSE 0)

NewOutput == [rows |-> <<>>, bytes |-> 0]

\* Mutant: the size of the row being offered is left out of the projection.
can_accept_Unprojected(output, bytes, limits) ==
    \/ output.rows = <<>>
    \/ Len(output.rows) < limits.targetRows /\ output.bytes <= limits.targetBytes

can_accept(output, bytes, limits) ==
    \/ output.rows = <<>>
    \/ Len(output.rows) < limits.targetRows /\ output.bytes + bytes <= limits.targetBytes

append(output, row, bytes) ==
    [rows |-> Append(output.rows, row), bytes |-> output.bytes + bytes]

\* The Parquet encoder's output size, which only the staging limit depends on.
ParquetBytes(rows) == Len(rows)

\* A finished output, described as the segment it will be registered as.
write_output(claim, output) ==
    [rows |-> output.rows, rowCount |-> Len(output.rows), bytes |-> output.bytes,
     bounds |-> Bounds(output.rows), parquet |-> ParquetBytes(output.rows),
     group |-> claim.inputs[1].group, expires |-> claim.expires]

\* cursors[i] is the number of rows of input i already taken; the heap's least
\* entry is the cursor with the least current key, the lower input on a tie.
HeapTop(inputs, cursors) ==
    LET open == {i \in DOMAIN inputs : cursors[i] < Len(inputs[i].rows)}
        Current(i) == inputs[i].rows[cursors[i] + 1]
    IN CHOOSE i \in open : \A j \in open \ {i} :
           \/ KeyBefore(Current(i), Current(j))
           \/ ~KeyBefore(Current(j), Current(i)) /\ i < j

Exhausted(inputs, cursors) == \A i \in DOMAIN inputs : cursors[i] = Len(inputs[i].rows)

\* An output is written: the outputs so far must fit the staging area and stay
\* fewer than the inputs.
OutputsVerdict(claim, outputs, limits) ==
    CASE Total(outputs, LAMBDA o : o.parquet) > limits.staging -> "Build"
      [] /\ Total(outputs, LAMBDA o : o.parquet) <= limits.staging
         /\ Len(outputs) >= Len(claim.inputs) -> "NotBeneficial"
      [] OTHER -> "Written"

\* The row is taken from its cursor, which validates what it has read so far.
ValidAdvance(input, emitted) ==
    /\ validate_batch(input, SubSeq(input.rows, 1, emitted))
    /\ emitted = Len(input.rows) => validate_complete(input)

\* deadline is the number of rows that can be merged before the time is up.
RECURSIVE merge(_, _, _, _, _, _)
merge(claim, limits, deadline, cursors, output, outputs) ==
    LET inputs == claim.inputs
        taken == Total(cursors, LAMBDA c : c)
        exhausted == Exhausted(inputs, cursors)
        next == HeapTop(inputs, cursors)
        bytes == estimated_row_bytes(inputs[next], cursors[next])
        after == [cursors EXCEPT ![next] = @ + 1]
        written == Append(outputs, write_output(claim, output))
        verdict == OutputsVerdict(claim, written, limits)
    IN IF ~exhausted /\ bytes > limits.targetBytes THEN Failure("Input")
       ELSE IF exhausted \/ ~can_accept(output, bytes, limits)
       THEN CASE verdict # "Written" -> Failure(verdict)
              [] verdict = "Written" /\ exhausted ->
                   IF taken = claim.rows THEN [kind |-> "Built", outputs |-> written]
                   ELSE Failure("Input")
              [] OTHER -> merge(claim, limits, deadline, cursors, NewOutput, written)
       ELSE CASE ~ValidAdvance(inputs[next], after[next]) -> Failure("Input")
              [] ValidAdvance(inputs[next], after[next]) /\ taken >= deadline -> Failure("Timeout")
              [] OTHER -> merge(claim, limits, deadline, after,
                                append(output, inputs[next].rows[cursors[next] + 1], bytes),
                                outputs)

build_outputs(claim, limits, deadline) ==
    LET verdict == validate_claim(claim, limits)
    IN IF verdict # "Accepted" THEN Failure(verdict)
       ELSE merge(claim, limits, deadline, [i \in DOMAIN claim.inputs |-> 0], NewOutput, <<>>)

=============================================================================

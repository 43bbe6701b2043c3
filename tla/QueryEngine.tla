---------------------------- MODULE QueryEngine ----------------------------
(***************************************************************************)
(* Execution of a typed pipeline (elucid-engine/src): the checked scalar   *)
(* functions, the aggregates, the lowering of each stage with the relation *)
(* it must produce, and the encoding of the result under its limits.       *)
(*                                                                         *)
(* A row is a function from field names to values <<type, value>> or       *)
(* nulls <<type>>.  A value of type Json holds what its text denotes:      *)
(* <<"null">>, <<"bool", b>>, <<"integer", n>>, <<"float", h>>,            *)
(* <<"string", text>>, <<"array">> or <<"object", members>>, a function    *)
(* from keys.  A failed evaluation is <<"failed", kind>>, with the kinds   *)
(* of RuntimeFailureKind.  What DataFusion itself does (three-valued       *)
(* connectives, comparison, min, max, sort, limit, grouping) is external.  *)
(***************************************************************************)
EXTENDS QueryAnalysis, SequencesExt

FailedWith(kind) == <<"failed", kind>>

IsFailure(v) == v[1] = "failed"

Null(t) == <<t>>

-----------------------------------------------------------------------------
(* Casts.  InvalidCast is the kind "Cast" until cast_udf decides.          *)

InvalidCast == FailedWith("Cast")

\* A float of type t in halves, or an integer, as a number of halves.
Halves(v) == IF v[1] \in FloatTypes THEN v[2] ELSE 2 * v[2]

\* `as i64`: a float beyond the type's range saturates.
Saturated(t, n) ==
    IF n > Greatest(t) THEN Greatest(t) ELSE IF n < Least(t) THEN Least(t) ELSE n

\* Mutant: an inclusive bound, 2^63 itself would pass and saturate to i64::MAX.
float_to_integer_Inclusive(h, t) ==
    IF h % 2 = 0 /\ 2 * Least(t) <= h /\ h <= 2 * (Greatest(t) + 1)
    THEN <<t, Saturated(t, h \div 2)>> ELSE InvalidCast

\* The 64-bit upper bounds are exclusive: the greatest i64 and u64 are no f64.
float_to_integer(h, t) ==
    IF /\ h % 2 = 0
       /\ 2 * Least(t) <= h
       /\ IF Bits(t) = Width32 THEN h <= 2 * Greatest(t) ELSE h < 2 * (Greatest(t) + 1)
    THEN <<t, Saturated(t, h \div 2)>> ELSE InvalidCast

to_integer(v, t) ==
    IF v[1] \in FloatTypes THEN float_to_integer(v[2], t)
    ELSE IF InRange(t, v[2]) THEN <<t, v[2]>> ELSE InvalidCast

to_float(v, t) ==
    IF v[1] \in FloatTypes
    THEN IF Rounded(t, v[2]) = v[2] /\ IsFinite(t, v[2]) THEN <<t, v[2]>> ELSE InvalidCast
    ELSE IF integer_is_exact(Magnitude(v[2]), Mantissa(t)) THEN <<t, 2 * v[2]>> ELSE InvalidCast

numeric_to_scalar(v, t) == IF is_integer(t) THEN to_integer(v, t) ELSE to_float(v, t)

\* An integer beyond u64 is read as a double.
json_number(json) ==
    IF json[1] = "float" THEN <<"Float64", json[2]>>
    ELSE IF InRange("Int64", json[2]) THEN <<"Int64", json[2]>>
    ELSE IF InRange("UInt64", json[2]) THEN <<"UInt64", json[2]>>
    ELSE <<"Float64", Rounded("Float64", 2 * json[2])>>

\* A text that spells a number is in halves when it has a fraction.
utf8_to_scalar(text, t) ==
    CASE t = "Bool" -> IF text[1] = "bool" THEN <<"Bool", text[2] = 1>> ELSE InvalidCast
      [] is_integer(t) -> IF text[1] = "integer" /\ InRange(t, text[2])
                          THEN <<t, text[2]>> ELSE InvalidCast
      [] t \in FloatTypes ->
           IF text[1] \notin {"integer", "number"} THEN InvalidCast
           ELSE LET wide  == Rounded("Float64", IF text[1] = "integer" THEN 2 * text[2] ELSE text[2])
                    value == Rounded(t, wide)
                IN  IF IsFinite("Float64", wide) /\ IsFinite(t, value)
                    THEN <<t, value>> ELSE InvalidCast
      [] t = "Datetime" -> IF text[1] = "datetime" THEN <<"Datetime", text[2]>> ELSE InvalidCast
      [] t = "Eid" -> IF text[1] = "eid" THEN <<"Eid", text[2]>> ELSE InvalidCast
      [] OTHER -> InvalidCast

scalar_to_utf8(v) ==
    CASE v[1] = "Bool" -> <<"bool", IF v[2] THEN 1 ELSE 0>>
      [] is_integer(v[1]) -> <<"integer", v[2]>>
      [] v[1] \in FloatTypes -> <<"number", v[2]>>
      [] v[1] = "Utf8" -> v[2]
      [] v[1] = "Datetime" -> <<"datetime", v[2]>>
      [] v[1] = "Eid" -> <<"eid", v[2]>>

scalar_to_json(v) ==
    CASE v[1] = "Bool" -> <<"bool", v[2]>>
      [] is_integer(v[1]) -> <<"integer", v[2]>>
      [] v[1] \in FloatTypes -> <<"float", v[2]>>
      [] OTHER -> <<"string", scalar_to_utf8(v)>>

convert_non_json(v, t) ==
    CASE v[1] = t -> v
      [] v[1] # t /\ t = "Json" -> <<"Json", scalar_to_json(v)>>
      [] v[1] # t /\ t = "Utf8" -> <<"Utf8", scalar_to_utf8(v)>>
      [] v[1] = "Utf8" /\ t \notin {"Utf8", "Json"} -> utf8_to_scalar(v[2], t)
      [] is_numeric(v[1]) /\ v[1] # t /\ is_numeric(t) -> numeric_to_scalar(v, t)
      [] OTHER -> InvalidCast

convert_json(json, t) ==
    CASE t = "Json" -> <<"Json", json>>
      [] t # "Json" /\ json[1] = "null" -> Null(t)
      [] t # "Json" /\ json[1] \in {"bool", "string"} ->
           convert_non_json(<<IF json[1] = "bool" THEN "Bool" ELSE "Utf8", json[2]>>, t)
      [] is_numeric(t) /\ json[1] \in {"integer", "float"} ->
           numeric_to_scalar(json_number(json), t)
      [] OTHER -> InvalidCast

convert_scalar(v, t) ==
    IF IsNullValue(v) THEN Null(t)
    ELSE IF v[1] = "Json" THEN convert_json(v[2], t)
    ELSE convert_non_json(v, t)

\* cast_udf: a lossless or strict cast aborts the query, try_cast gives null.
Decided(mode, t, converted) ==
    IF IsFailure(converted) /\ mode = "try" THEN Null(t) ELSE converted

CastValue(mode, v, t) == Decided(mode, t, convert_scalar(v, t))

-----------------------------------------------------------------------------
(* Checked scalar functions.                                               *)

\* Infinity, or not a number: what dividing by zero gives.
NonFinite == 4 * FloatLimit64

CheckedValue(t, value) == IF IsNumber(t, value) THEN <<t, value>> ELSE FailedWith("Evaluation")

checked_binary(op, l, r) ==
    LET t == l[1]
    IN  IF IsNullValue(l) \/ IsNullValue(r) THEN Null(t)
        ELSE IF t # r[1] THEN FailedWith("Execution")
        ELSE IF op = "/" /\ r[2] = 0
        THEN IF is_integer(t) THEN FailedWith("Evaluation") ELSE CheckedValue(t, NonFinite)
        ELSE CheckedValue(t, IF t \in FloatTypes THEN FloatResult(op, t, l[2], r[2])
                                                  ELSE IntegerResult(op, l[2], r[2]))

checked_negate(v) ==
    IF IsNullValue(v) THEN v
    ELSE IF v[1] \in FloatTypes \/ InRange(v[1], -v[2]) THEN <<v[1], -v[2]>>
    ELSE FailedWith("Evaluation")

\* Absence and SQL null give null; a JSON null that is present is a value.
evaluate_remainder(function, key, v) ==
    LET present == ~IsNullValue(v) /\ key \in DOMAIN v[2][2]
    IN  IF ~IsNullValue(v) /\ (v[1] # "Json" \/ v[2][1] # "object") THEN FailedWith("Execution")
        ELSE IF function = "exists" THEN <<"Bool", present>>
        ELSE IF present THEN <<"Json", v[2][2][key]>> ELSE Null("Json")

-----------------------------------------------------------------------------
(* Expressions.                                                            *)

\* DataFusion's connectives, on the values that are not null.
Connective(op, l, r) ==
    LET known == {v[2] : v \in {u \in {l, r} : ~IsNullValue(u)}}
    IN  IF (op = "or") \in known THEN <<"Bool", op = "or">>
        ELSE IF IsNullValue(l) \/ IsNullValue(r) THEN Null("Bool")
        ELSE <<"Bool", op = "and">>

ComparedAtRunTime(op, l, r) ==
    IF IsNullValue(l) \/ IsNullValue(r) THEN Null("Bool")
    ELSE IF l[1] # r[1] THEN FailedWith("Execution")
    ELSE <<"Bool", Compared(op, OrderKey(l), OrderKey(r))>>

\* What the plan that lower_expression builds computes for a row.
RECURSIVE Evaluate(_, _)
Evaluate(x, row) ==
    LET Strict1(F(_)) == LET v == Evaluate(x.operand, row)
                         IN  IF IsFailure(v) THEN v ELSE F(v)
        Strict2(F(_, _)) == LET l == Evaluate(x.left, row)
                                r == Evaluate(x.right, row)
                            IN  IF IsFailure(l) THEN l ELSE IF IsFailure(r) THEN r ELSE F(l, r)
    IN  CASE x.kind = "literal"   -> x.value
          [] x.kind = "field"     -> row[x.name]
          [] x.kind = "cast"      -> Strict1(LAMBDA v : CastValue(x.mode, v, x.t))
          [] x.kind = "remainder" -> evaluate_remainder(x.function, x.key, row["@rest"])
          [] x.kind = "predicate" ->
               Strict1(LAMBDA v : <<"Bool", IsNullValue(v) = (x.op = "==")>>)
          [] x.kind = "unary" ->
               Strict1(LAMBDA v : IF x.op = "-" THEN checked_negate(v)
                                  ELSE IF IsNullValue(v) THEN v ELSE <<"Bool", ~v[2]>>)
          [] x.kind = "binary" ->
               Strict2(LAMBDA l, r :
                   IF x.op \in LogicalOperators THEN Connective(x.op, l, r)
                   ELSE IF x.op \in ArithmeticOperators THEN checked_binary(x.op, l, r)
                   ELSE ComparedAtRunTime(x.op, l, r))

-----------------------------------------------------------------------------
(* Aggregates.  The state of count and sum is a value, that of an average  *)
(* a pair; a failure stays.                                                *)

add_checked(sum, v) ==
    IF IsFailure(sum) \/ IsNullValue(v) THEN sum
    ELSE IF IsNullValue(sum) THEN v ELSE checked_binary("+", sum, v)

SumType(t) ==
    IF t \in SignedTypes THEN "Int64" ELSE IF t \in UnsignedTypes THEN "UInt64" ELSE "Float64"

\* add_input: the input, or a partial sum, in the type of the sum.
SumInput(v) == IF IsNullValue(v) THEN Null(SumType(v[1])) ELSE <<SumType(v[1]), v[2]>>

\* CheckedSumAccumulator: merge_batch is update_batch on the states.
UpdateSum(state, values) ==
    FoldLeft(LAMBDA s, v : add_checked(s, SumInput(v)), state, values)

\* CheckedCountAccumulator, with the mode all_rows or non_null.
UpdateCount(state, values, mode) ==
    LET counted == SelectSeq(values, LAMBDA v : mode = "all_rows" \/ ~IsNullValue(v))
    IN  add_checked(state, <<"Int64", Len(counted)>>)

MergeCount(state, states) ==
    FoldLeft(LAMBDA s, v : IF v[2] >= 0 THEN add_checked(s, v) ELSE FailedWith("Execution"),
             state, states)

NoAverage == [sum |-> Null("Float64"), count |-> <<"UInt64", 0>>]

\* `value as f64` may round a 64-bit integer.
AverageInput(v) ==
    IF v[1] \in FloatTypes THEN <<"Float64", v[2]>> ELSE <<"Float64", Rounded("Float64", 2 * v[2])>>

AddToAverage(s, sum, count) ==
    [sum |-> add_checked(s.sum, sum), count |-> add_checked(s.count, count)]

UpdateAverage(state, values) ==
    FoldLeft(LAMBDA s, v : IF IsNullValue(v) THEN s
                           ELSE AddToAverage(s, AverageInput(v), <<"UInt64", 1>>),
             state, values)

\* Mutant: a merge that counts the states where it should add their counts.
MergeAverage_CountsStates(state, states) ==
    FoldLeft(LAMBDA s, p : IF IsNullValue(p.sum) THEN s
                           ELSE AddToAverage(s, p.sum, <<"UInt64", 1>>), state, states)

MergeAverage(state, states) ==
    FoldLeft(LAMBDA s, p :
                 CASE IsNullValue(p.sum) /\ p.count[2] = 0 -> s
                   [] ~IsNullValue(p.sum) /\ p.count[2] > 0 -> AddToAverage(s, p.sum, p.count)
                   [] OTHER -> [s EXCEPT !.sum = FailedWith("Execution")],
             state, states)

EvaluateAverage(s) ==
    IF IsFailure(s.sum) THEN s.sum
    ELSE IF IsFailure(s.count) THEN s.count
    ELSE IF IsNullValue(s.sum) THEN Null("Float64")
    ELSE IF s.count[2] = 0 THEN FailedWith("Execution")
    ELSE <<"Float64", Rounded("Float64", Ratio(s.sum[2], s.count[2]))>>

\* DataFusion's min and max: nulls are skipped.
Extreme(function, t, values) ==
    LET known == {v \in ToSet(values) : ~IsNullValue(v)}
    IN  IF known = {} THEN Null(t)
        ELSE CHOOSE v \in known : \A u \in known :
                 IF function = "min" THEN OrderKey(v) <= OrderKey(u) ELSE OrderKey(v) >= OrderKey(u)

\* aggregate_expression: t is the argument's type, "none" for count().
AggregateValue(function, t, values) ==
    CASE function = "count" -> UpdateCount(<<"Int64", 0>>, values,
                                           IF t = "none" THEN "all_rows" ELSE "non_null")
      [] function = "sum" -> UpdateSum(Null(SumType(t)), values)
      [] function = "avg" -> EvaluateAverage(UpdateAverage(NoAverage, values))
      [] function \in {"min", "max"} -> Extreme(function, t, values)

\* The type of the aggregate function that aggregate_expression calls.
AggregateType(function, t) ==
    CASE function = "count" -> "Int64"
      [] function = "sum" -> SumType(t)
      [] function = "avg" -> "Float64"
      [] function \in {"min", "max"} -> t

-----------------------------------------------------------------------------
(* Lowering: the schema of the plan after each stage, which must agree     *)
(* with the typed relation in names and Arrow types.                       *)

arrow_data_type(t) == IF t = "Json" THEN "Utf8" ELSE t

\* The type that DataFusion gives the lowered expression.
PlannedType(x, plan) ==
    CASE x.kind = "literal" -> arrow_data_type(x.value[1])
      [] x.kind = "field" -> FieldNamed(plan, x.name).t
      [] x.kind = "predicate" -> "Bool"
      [] x.kind = "remainder" -> IF x.function = "rest" THEN "Utf8" ELSE "Bool"
      [] x.kind = "unary" -> IF x.op = "not" THEN "Bool" ELSE arrow_data_type(x.t)
      [] x.kind = "binary" -> IF x.op \in ArithmeticOperators THEN arrow_data_type(x.t) ELSE "Bool"
      [] x.kind = "cast" -> arrow_data_type(x.t)

PlannedSource(relation) ==
    [i \in DOMAIN relation |-> [name |-> relation[i].name, t |-> arrow_data_type(relation[i].t)]]

ArgumentType(measure, input) ==
    IF measure.argument = "" THEN "none" ELSE FieldNamed(input, measure.argument).t

\* lower_stage, on the schema: groups precede measures.
lower_stage(stage, input, plan) ==
    CASE stage.kind = "project" ->
           [i \in DOMAIN stage.items |->
               [name |-> stage.items[i].output.name,
                t    |-> PlannedType(stage.items[i].expression, plan)]]
      [] stage.kind = "aggregate" ->
           [i \in DOMAIN stage.groups |-> FieldNamed(plan, stage.groups[i])]
           \o [i \in DOMAIN stage.measures |->
                  [name |-> stage.measures[i].output.name,
                   t    |-> arrow_data_type(AggregateType(stage.measures[i].function,
                                ArgumentType(stage.measures[i], input)))]]
      [] OTHER -> plan

\* DataFusion refuses a plan with two fields of one name.
validate_relation(plan, relation) ==
    /\ Len(plan) = Len(relation)
    /\ \A i \in DOMAIN plan : /\ plan[i].name = relation[i].name
                              /\ plan[i].t = arrow_data_type(relation[i].t)
    /\ Cardinality(Names(plan)) = Len(plan)

\* lower_pipeline: every stage is validated as it is lowered.
RECURSIVE lower_pipeline(_, _, _)
lower_pipeline(stages, input, plan) ==
    validate_relation(plan, input)
    /\ (stages # <<>> =>
            lower_pipeline(Tail(stages), Head(stages).output, lower_stage(Head(stages), input, plan)))

-----------------------------------------------------------------------------
(* Execution of the stages on a sequence of rows.                          *)

Rows(rows) == [failure |-> "none", rows |-> rows]

\* A failed evaluation of any row fails the query.
RowsUnless(values, rows) ==
    LET failed == {v \in values : IsFailure(v)}
    IN  IF failed = {} THEN Rows(rows)
        ELSE [failure |-> (CHOOSE v \in failed : TRUE)[2], rows |-> <<>>]

\* Nulls are last in both directions.
SortsBefore(items, a, b) ==
    \E i \in DOMAIN items :
        LET x == a[items[i][2]]  y == b[items[i][2]]
        IN  /\ \A j \in 1 .. i - 1 : a[items[j][2]] = b[items[j][2]]
            /\ \/ ~IsNullValue(x) /\ IsNullValue(y)
               \/ /\ ~IsNullValue(x) /\ ~IsNullValue(y)
                  /\ IF items[i][1] = "-" THEN OrderKey(x) > OrderKey(y)
                                          ELSE OrderKey(x) < OrderKey(y)

KeyOf(row, groups) == [i \in DOMAIN groups |-> row[groups[i]]]

AggregateRow(stage, input, key, rows) ==
    LET MeasureOf(name) == stage.measures[CHOOSE i \in DOMAIN stage.measures :
                                              stage.measures[i].output.name = name]
        GroupOf(name) == CHOOSE i \in DOMAIN stage.groups : stage.groups[i] = name
        Column(argument) == [i \in DOMAIN rows |-> IF argument = "" THEN <<"Int64", 1>>
                                                   ELSE rows[i][argument]]
    IN  [name \in Names(stage.output) |->
            IF name \in ToSet(stage.groups) THEN key[GroupOf(name)]
            ELSE AggregateValue(MeasureOf(name).function, ArgumentType(MeasureOf(name), input),
                                Column(MeasureOf(name).argument))]

RowsComputed(rows) == RowsUnless(UNION {Range(rows[i]) : i \in DOMAIN rows}, rows)

\* Without group keys there is one group, even of no rows.
GroupKeys(rows, groups) ==
    IF groups = <<>> THEN <<<<>>>> ELSE SetToSeq({KeyOf(rows[i], groups) : i \in DOMAIN rows})

AggregateRows(stage, input, rows, keys) ==
    [k \in DOMAIN keys |->
        AggregateRow(stage, input, keys[k],
                     SelectSeq(rows, LAMBDA row : KeyOf(row, stage.groups) = keys[k]))]

ExecuteStage(stage, input, rows) ==
    CASE stage.kind = "filter" ->
           RowsUnless({Evaluate(stage.predicate, rows[i]) : i \in DOMAIN rows},
                      SelectSeq(rows, LAMBDA row : Evaluate(stage.predicate, row) = <<"Bool", TRUE>>))
      [] stage.kind = "project" ->
           LET Value(i, name) == Evaluate((CHOOSE p \in ToSet(stage.items) :
                                              p.output.name = name).expression, rows[i])
           IN  RowsComputed([i \in DOMAIN rows |-> [name \in Names(stage.output) |-> Value(i, name)]])
      [] stage.kind = "sort" ->
           Rows(SortSeq(rows, LAMBDA a, b : SortsBefore(stage.items, a, b)))
      [] stage.kind = "take" -> Rows(SubSeq(rows, 1, Min({stage.count, Len(rows)})))
      [] stage.kind = "aggregate" ->
           RowsComputed(AggregateRows(stage, input, rows, GroupKeys(rows, stage.groups)))

RECURSIVE ExecuteStages(_, _, _)

\* The stages after one that gave next, unless it failed.
ExecuteRest(stages, next) ==
    IF next.failure # "none" THEN next
    ELSE ExecuteStages(Tail(stages), Head(stages).output, next.rows)

ExecuteStages(stages, input, rows) ==
    IF stages = <<>> THEN Rows(rows)
    ELSE ExecuteRest(stages, ExecuteStage(Head(stages), input, rows))

-----------------------------------------------------------------------------
(* The encoded result: sizes are the encoded sizes of the rows in order.   *)

NoResult == [rows |-> 0, bytes |-> 2, status |-> "open"]

\* Mutant: QueryResultBuilder::push without the comma between two rows.
push_NoSeparator(result, size, limits) ==
    IF result.status # "open" THEN result
    ELSE IF result.rows >= limits.rows THEN [result EXCEPT !.status = "OUTPUT_ROWS"]
    ELSE IF size > limits.row THEN [result EXCEPT !.status = "failed"]
    ELSE IF result.bytes + size > limits.bytes THEN [result EXCEPT !.status = "OUTPUT_BYTES"]
    ELSE [result EXCEPT !.rows = @ + 1, !.bytes = @ + size]

\* QueryResultBuilder::push; a row after the first costs a comma.
push(result, size, limits) ==
    LET candidate == result.bytes + size + (IF result.rows > 0 THEN 1 ELSE 0)
    IN  IF result.status # "open" THEN result
        ELSE IF result.rows >= limits.rows THEN [result EXCEPT !.status = "OUTPUT_ROWS"]
        ELSE IF size > limits.row THEN [result EXCEPT !.status = "failed"]
        ELSE IF candidate > limits.bytes THEN [result EXCEPT !.status = "OUTPUT_BYTES"]
        ELSE [result EXCEPT !.rows = @ + 1, !.bytes = candidate]

encode_query_result(sizes, limits) ==
    LET pushed == FoldLeft(LAMBDA result, size : push(result, size, limits), NoResult, sizes)
    IN  IF pushed.status = "open" THEN [pushed EXCEPT !.status = "COMPLETE"] ELSE pushed

=============================================================================

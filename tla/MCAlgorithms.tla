---------------------------- MODULE MCAlgorithms ----------------------------
(***************************************************************************)
(* The pure algorithms of the system, each run once on every input of a    *)
(* bounded set: parsing, analysis, evaluation and aggregation of queries,  *)
(* time ranges, result encoding, and the choice and merge of compaction    *)
(* inputs.  A behaviour takes one input and computes its answer; the       *)
(* invariants compare the answer with a reference definition.              *)
(***************************************************************************)
EXTENDS QueryEngine

Parser == INSTANCE QueryParser
Merge == INSTANCE CompactionMerge

VARIABLES
    kind,    \* the algorithm
    input,   \* its argument
    done,    \* whether it has run
    answer   \* its result

vars == <<kind, input, done, answer>>

MCUnitMilliseconds == [s |-> 2, m |-> 4, h |-> 8, d |-> 16]

UpTo(S, n) == UNION {[1 .. k -> S] : k \in 0 .. n}

-----------------------------------------------------------------------------
(* Queries to print and parse, with names that are keywords elsewhere.     *)

SystemNames == {"@event_time", "@rest"}

TreeAtoms == {<<"field", "a">>, <<"integer", 1>>}

TreeOperators == {"or", "and", "==", "<", "+", "-", "*"}

Trees1 ==
    TreeAtoms
    \cup {<<"unary", op, e>> : op \in {"not", "-"}, e \in TreeAtoms}
    \cup {<<"binary", op, l, r>> : op \in TreeOperators, l \in TreeAtoms, r \in TreeAtoms}

Trees2 ==
    Trees1
    \cup {<<"unary", op, e>> : op \in {"not", "-"}, e \in Trees1}
    \cup {<<"cast", mode, e, "Utf8">> : mode \in {"strict", "try"}, e \in Trees1}
    \cup {<<"binary", op, l, r>> : op \in TreeOperators, l \in Trees1, r \in Trees1}

Operands ==
    {<<"null">>, <<"boolean", FALSE>>, <<"floating", 3>>, <<"string", <<"word", 1>>>>,
     <<"field", "source">>, <<"field", "count">>, <<"field", "@rest">>,
     <<"numeric", "UInt64", FALSE, <<"integer", 2>>>>,
     <<"numeric", "Float32", TRUE, <<"floating", 3>>>>,
     <<"datetime", <<"datetime", 3>>>>, <<"eid", <<"eid", 1>>>>,
     <<"remainder", "rest", <<"word", 1>>>>, <<"remainder", "exists", <<"word", 1>>>>}

SampleStages ==
    {<<"filter", <<"binary", "==", <<"field", "h">>, e>>>> : e \in Operands}
    \cup {<<"project", ps>> : ps \in UpTo({<<"field", "take">>, <<"computed", "by", <<"field", "s">>>>}, 2) \ {<<>>}}
    \cup {<<"sort", <<<<"+", "sort">>, <<"-", "@event_time">>>>>>,
          <<"take", FALSE, 2>>, <<"take", TRUE, 1>>,
          <<"summarize", <<<<"", "count", "">>, <<"min", "min", "min">>>>, <<>>>>,
          <<"summarize", <<<<"n", "sum", "m">>>>, <<"@event_time", "d">>>>}

SampleBounds ==
    {<<>>, <<"now">>, <<"datetime", <<"datetime", 3>>>>}
    \cup {<<"relative", os>> : os \in UpTo({<<"truncate", "h">>, <<"shift", "-", 1, "d">>,
                                           <<"shift", "+", 2, "m">>}, 2) \ {<<>>}}

Query(name, start, end, stages) ==
    [source |-> name, start |-> start, end |-> end, stages |-> stages]

Queries ==
    {Query("a", <<>>, <<>>, <<<<"filter", e>>>>) : e \in Trees2}
    \cup {Query("filter", <<>>, <<>>, ss) : ss \in UpTo(SampleStages, 2)}
    \cup {Query("s", start, end, <<<<"take", FALSE, 1>>>>) : start \in SampleBounds, end \in SampleBounds}

\* A spelling: every name quoted, or only those that must be; a truncation as
\* one token or two, and the magnitude 1 of a shift left out.
Spellings == [quoted : BOOLEAN, compact : BOOLEAN]

\* The grammar's tokens for a query, with parentheses only where the levels of
\* precedence and associativity need them.
NameTokens(name, spelling) ==
    IF name \in SystemNames THEN <<<<"system", name>>>>
    ELSE IF \/ spelling.quoted
            \/ name \in Parser!Keywords \ (Parser!StageKeywords \cup Parser!UnitKeywords)
    THEN <<<<"quoted", name>>>> ELSE <<Parser!Word(name)>>

TypeToken(t) == <<CHOOSE n \in DOMAIN Parser!TypeNames : Parser!TypeNames[n] = t>>

Precedence(e) ==
    CASE e[1] = "binary" -> (CASE e[2] = "or" -> 1 [] e[2] = "and" -> 2
                               [] e[2] \in ComparisonOperators -> 3
                               [] e[2] \in {"+", "-"} -> 4 [] e[2] \in {"*", "/"} -> 5)
      [] e[1] = "unary" -> 6
      [] OTHER -> 7

InParentheses(tokens) == <<<<"(">>>> \o tokens \o <<<<")">>>>

RECURSIVE ExpressionTokens(_, _, _)
ExpressionTokens(e, level, spelling) ==
    LET Sub(x, l) == ExpressionTokens(x, l, spelling)
        own == Precedence(e)
        tokens ==
            CASE e[1] = "field" -> NameTokens(e[2], spelling)
              [] e[1] = "boolean" -> <<<<IF e[2] THEN "true" ELSE "false">>>>
              [] e[1] \in {"null", "integer", "floating", "string"} -> <<e>>
              [] e[1] = "numeric" ->
                   <<TypeToken(e[2])>>
                   \o InParentheses((IF e[3] THEN <<<<"-">>>> ELSE <<>>) \o <<e[4]>>)
              [] e[1] \in {"datetime", "eid"} -> <<<<e[1]>>>> \o InParentheses(<<<<"string", e[2]>>>>)
              [] e[1] = "remainder" ->
                   <<<<IF e[2] = "rest" THEN "rest" ELSE "rest_exists">>>>
                   \o InParentheses(<<<<"string", e[3]>>>>)
              [] e[1] = "cast" ->
                   <<<<IF e[2] = "strict" THEN "cast" ELSE "try_cast">>>>
                   \o InParentheses(Sub(e[3], 1) \o <<<<"as">>, TypeToken(e[4])>>)
              [] e[1] = "unary" -> <<<<e[2]>>>> \o Sub(e[3], 7)
              [] e[1] = "binary" ->
                   Sub(e[3], IF own = 3 THEN 4 ELSE own) \o <<<<e[2]>>>> \o Sub(e[4], own + 1)
    IN  IF own < level THEN InParentheses(tokens) ELSE tokens

Separated(parts, separator) ==
    FoldLeftDomain(LAMBDA tokens, i : tokens \o (IF i = 1 THEN <<>> ELSE separator) \o parts[i],
                   <<>>, parts)

OperationTokens(o, spelling) ==
    CASE o[1] = "truncate" -> IF spelling.compact THEN <<<<"system", Parser!CompactUnit[o[2]]>>>>
                              ELSE <<<<"@">>, <<o[2]>>>>
      [] o[1] = "shift" -> <<<<o[2]>>>>
                           \o (IF spelling.compact /\ o[3] = 1 THEN <<>> ELSE <<<<"integer", o[3]>>>>)
                           \o <<<<o[4]>>>>

BoundTokens(keyword, bound, spelling) ==
    IF bound = <<>> THEN <<>>
    ELSE <<<<keyword>>, <<"=">>>> \o
         (CASE bound[1] = "now" -> <<<<"now">>>>
            [] bound[1] = "datetime" -> <<<<"datetime">>>> \o InParentheses(<<<<"string", bound[2]>>>>)
            [] bound[1] = "relative" ->
                 Separated([i \in DOMAIN bound[2] |-> OperationTokens(bound[2][i], spelling)], <<>>))

StageTokens(stage, spelling) ==
    LET Name(n) == NameTokens(n, spelling)
        Listed(items, F(_)) == Separated([i \in DOMAIN items |-> F(items[i])], <<<<",">>>>)
        Assigned(alias) == IF alias = "" THEN <<>> ELSE Name(alias) \o <<<<"=">>>>
    IN  CASE stage[1] = "filter" -> <<<<"filter">>>> \o ExpressionTokens(stage[2], 1, spelling)
          [] stage[1] = "project" ->
               <<<<"project">>>> \o Listed(stage[2], LAMBDA p :
                   IF p[1] = "field" THEN Name(p[2])
                   ELSE Assigned(p[2]) \o ExpressionTokens(p[3], 1, spelling))
          [] stage[1] = "sort" ->
               <<<<"sort">>>> \o (IF spelling.compact THEN <<>> ELSE <<<<"by">>>>)
               \o Listed(stage[2], LAMBDA s :
                   (IF s[1] = "+" /\ spelling.compact THEN <<>> ELSE <<<<s[1]>>>>) \o Name(s[2]))
          [] stage[1] = "take" ->
               <<<<"take">>>> \o (IF stage[2] THEN <<<<"-">>>> ELSE <<>>) \o <<<<"integer", stage[3]>>>>
          [] stage[1] = "summarize" ->
               <<<<"summarize">>>> \o Listed(stage[2], LAMBDA m :
                   Assigned(m[1]) \o <<<<m[2]>>>>
                   \o InParentheses(IF m[3] = "" THEN <<>> ELSE Name(m[3])))
               \o (IF stage[3] = <<>> THEN <<>> ELSE <<<<"by">>>> \o Listed(stage[3], Name))

QueryTokens(q, spelling) ==
    <<<<"source">>>> \o NameTokens(q.source, spelling)
    \o BoundTokens("start_inclusive", q.start, spelling)
    \o BoundTokens("end_exclusive", q.end, spelling)
    \o Separated([i \in DOMAIN q.stages |-> <<<<"|">>>> \o StageTokens(q.stages[i], spelling)], <<>>)

-----------------------------------------------------------------------------
(* Expressions over a source's relation, and rows to evaluate them on.     *)

Relation ==
    <<Field("i32", "Int32", FALSE), Field("u32", "UInt32", TRUE), Field("i64", "Int64", TRUE),
      Field("u64", "UInt64", TRUE), Field("f32", "Float32", TRUE), Field("f64", "Float64", FALSE),
      Field("flag", "Bool", TRUE), Field("name", "Utf8", TRUE),
      Field("@event_time", "Datetime", FALSE), Field("@event_id", "Eid", FALSE),
      Field("@rest", "Json", TRUE)>>

\* <<>> is a null, for the fields that may hold one.
Row(i32, u32, i64, u64, f32, f64, flag, name, time, rest) ==
    LET cells == <<i32, u32, i64, u64, f32, f64, flag, name, time, <<1>>, rest>>
        At(n) == CHOOSE i \in DOMAIN Relation : Relation[i].name = n
    IN  [n \in Names(Relation) |-> <<Relation[At(n)].t>> \o cells[At(n)]]

Members(json) == <<<<"object", [a |-> json]>>>>

SampleRows ==
    <<Row(<<-8>>, <<0>>, <<-32>>, <<0>>, <<-192>>, <<-480>>, <<FALSE>>, <<<<"integer", 7>>>>, <<-3>>, <<>>),
      Row(<<7>>, <<15>>, <<31>>, <<63>>, <<192>>, <<480>>, <<TRUE>>, <<<<"number", 3>>>>, <<3>>,
          Members(<<"null">>)),
      Row(<<0>>, <<>>, <<>>, <<>>, <<>>, <<64>>, <<>>, <<>>, <<0>>, Members(<<"integer", 40>>)),
      Row(<<3>>, <<3>>, <<2>>, <<40>>, <<3>>, <<0>>, <<TRUE>>, <<<<"bool", 1>>>>, <<0>>,
          Members(<<"string", <<"datetime", 3>>>>)),
      Row(<<-1>>, <<1>>, <<0>>, <<2>>, <<0>>, <<-14>>, <<FALSE>>, <<<<"eid", 1>>>>, <<5>>,
          Members(<<"array">>))>>

ExpressionAtoms ==
    {<<"field", Relation[i].name>> : i \in DOMAIN Relation}
    \cup {<<"null">>, <<"boolean", TRUE>>, <<"integer", 0>>, <<"integer", 9>>, <<"integer", 40>>,
          <<"floating", 3>>, <<"string", <<"integer", 3>>>>,
          <<"numeric", "Int32", TRUE, <<"integer", 8>>>>,
          <<"numeric", "UInt64", FALSE, <<"integer", 63>>>>,
          <<"numeric", "Float32", FALSE, <<"integer", 5>>>>,
          <<"datetime", <<"datetime", 0>>>>, <<"remainder", "rest", "a">>,
          <<"remainder", "exists", "b">>}

NestedAtoms == {<<"null">>, <<"integer", 3>>, <<"field", "i32">>, <<"field", "u64">>,
                <<"field", "flag">>, <<"remainder", "rest", "a">>}

Operators == ArithmeticOperators \cup ComparisonOperators \cup LogicalOperators

Nested ==
    {<<"unary", op, e>> : op \in {"not", "-"}, e \in NestedAtoms}
    \cup {<<"cast", mode, e, t>> : mode \in {"strict", "try"}, e \in NestedAtoms,
                                  t \in {"Int32", "Float64", "Utf8"}}
    \cup {<<"binary", op, l, r>> : op \in {"-", "/", "==", "<", "or"},
                                  l \in NestedAtoms, r \in NestedAtoms}

Expressions ==
    ExpressionAtoms
    \cup {<<"unary", op, e>> : op \in {"not", "-"}, e \in ExpressionAtoms \cup Nested}
    \cup {<<"cast", mode, e, t>> : mode \in {"strict", "try"}, e \in ExpressionAtoms, t \in LogicalTypes}
    \cup {<<"cast", "strict", e, t>> : e \in Nested, t \in {"Int64", "Float32", "Json", "Bool"}}
    \cup {<<"binary", op, l, r>> : op \in Operators, l \in ExpressionAtoms, r \in ExpressionAtoms}
    \cup {<<"binary", op, l, r>> : op \in {"+", "==", "and"}, l \in Nested, r \in NestedAtoms}
    \cup {<<"binary", op, l, r>> : op \in {"*", "!=", "or"}, l \in NestedAtoms, r \in Nested}

Conforms(v, f) ==
    /\ v[1] = f.t
    /\ IF IsNullValue(v) THEN f.nullable
       ELSE /\ is_integer(f.t) => InRange(f.t, v[2])
            /\ f.t \in FloatTypes => Rounded(f.t, v[2]) = v[2] /\ IsFinite(f.t, v[2])

-----------------------------------------------------------------------------
(* Operations on two typed values, and casts of one.                       *)

Numbers ==
    {<<"Int32", n>> : n \in {-8, -1, 0, 3, 7}} \cup {<<"UInt32", n>> : n \in {0, 1, 15}}
    \cup {<<"Int64", n>> : n \in {-32, 0, 2, 31}} \cup {<<"UInt64", n>> : n \in {0, 3, 32, 63}}
    \cup {<<"Float32", h>> : h \in {-192, 0, 1, 3, 64}}
    \cup {<<"Float64", h>> : h \in {-64, -14, 0, 3, 64, 128, 480}}

Texts == {<<"integer", 7>>, <<"integer", -40>>, <<"number", 3>>, <<"bool", 1>>, <<"datetime", 3>>,
          <<"eid", 1>>, <<"word", 1>>}

Others ==
    {<<"Bool", b>> : b \in BOOLEAN} \cup {<<"Datetime", n>> : n \in {-3, 3}}
    \cup {<<"Eid", n>> : n \in {1, 2}} \cup {<<"Utf8", x>> : x \in Texts}

Nulls == {<<t>> : t \in LogicalTypes \ {"Json"}}

JsonValues ==
    {<<"Json", j>> : j \in {<<"null">>, <<"bool", TRUE>>, <<"integer", 3>>, <<"integer", 40>>,
                            <<"integer", 70>>, <<"float", 3>>, <<"float", 64>>, <<"array">>}
                           \cup {<<"string", x>> : x \in Texts}}

Alike(l, r) == l[1] = r[1] \/ (is_numeric(l[1]) /\ is_numeric(r[1]))

OperationInputs ==
    {<<op, l, r>> : op \in Operators, l \in Numbers \cup Others \cup Nulls,
                    r \in Numbers \cup Others \cup Nulls}

Typed(op, l, r) ==
    CASE op \in LogicalOperators -> TypeLogical(op, l, r)
      [] op \in ArithmeticOperators -> TypeArithmetic(op, l, r)
      [] op \in ComparisonOperators -> TypeComparison(op, l, r)

Operand(name, v) == [kind |-> "field", t |-> v[1], nullable |-> IsNullValue(v), name |-> name]

\* What a typed expression gives on a row: a constant that cannot be evaluated
\* is refused by the analysis, and fails at run time when it is not constant.
Outcome(x, row) ==
    IF ~Failed(x) THEN Evaluate(x, row)
    ELSE IF x.code = "ConstantEvaluationFailed" THEN FailedWith("Evaluation")
    ELSE <<"refused", x.code>>

Representable(t, h) ==
    IF is_integer(t) THEN h % 2 = 0 /\ InRange(t, h \div 2)
    ELSE Rounded(t, h) = h /\ IsFinite(t, h)

-----------------------------------------------------------------------------
(* Pipelines, aggregates, results and time ranges.                         *)

PipelineStages ==
    {<<"filter", e>> : e \in {<<"field", "flag">>, <<"boolean", FALSE>>,
                              <<"binary", ">", <<"field", "f64">>, <<"integer", 0>>>>,
                              <<"cast", "strict", <<"remainder", "rest", "a">>, "Bool">>}}
    \cup {<<"project", ps>> : ps \in
            {<<<<"field", "i32">>, <<"field", "@rest">>>>,
             <<<<"field", "f64">>, <<"computed", "i32", <<"field", "f64">>>>>>,
             <<<<"computed", "flag", <<"cast", "try", <<"field", "name">>, "Int32">>>>, <<"field", "name">>>>,
             <<<<"computed", "x", <<"binary", "/", <<"field", "i32">>, <<"field", "i32">>>>>>>>,
             <<<<"field", "i32">>, <<"computed", "i32", <<"null">>>>>>}}
    \cup {<<"sort", <<<<"-", "u64">>, <<"+", "f64">>>>>>, <<"sort", <<<<"+", "n">>>>>>,
          <<"sort", <<<<"+", "@rest">>>>>>, <<"take", FALSE, 1>>, <<"take", FALSE, 0>>, <<"take", TRUE, 1>>}
    \cup {<<"summarize", ms, gs>> :
            ms \in {<<<<"n", "count", "">>>>, <<<<"n", "count", "u64">>, <<"m", "min", "f64">>>>,
                    <<<<"n", "sum", "u64">>, <<"m", "avg", "i32">>>>, <<<<"flag", "max", "name">>>>,
                    <<<<"n", "min", "flag">>>>},
            gs \in {<<>>, <<"flag">>, <<"i32", "flag">>}}

PipelineInputs ==
    {<<ss, rs>> : ss \in UpTo(PipelineStages, 2), rs \in UpTo(DOMAIN SampleRows, 1) \cup {<<1, 3>>, <<2, 4>>, <<5, 1>>}}
    \cup {<<ss, <<1, 2, 3, 4, 5>>>> : ss \in UpTo(PipelineStages, 1)}

RowsAt(indexes) == [i \in DOMAIN indexes |-> SampleRows[indexes[i]]]

AggregateInputs ==
    {<<function, vs, n>> : function \in {"count", "sum", "avg"}, n \in 0 .. 3,
        vs \in UpTo({<<"Int32">>, <<"Int32", -8>>, <<"Int32", 1>>, <<"Int32", 4>>}, 3)
              \cup UpTo({<<"Int64">>, <<"Int64", -32>>, <<"Int64", 16>>, <<"Int64", 2>>}, 3)
              \cup UpTo({<<"UInt64">>, <<"UInt64", 48>>, <<"UInt64", 8>>}, 3)
              \cup UpTo({<<"Float64">>, <<"Float64", 480>>, <<"Float64", -3>>, <<"Float64", 2>>}, 3)}

ArgumentTypeOf(vs) == IF vs = <<>> THEN "Int32" ELSE vs[1][1]

\* The accumulators over one partition, and over two that are merged.
Aggregated(function, vs, n) ==
    LET t == ArgumentTypeOf(vs)
        cut == Min({n, Len(vs)})
        parts == <<SubSeq(vs, 1, cut), SubSeq(vs, cut + 1, Len(vs))>>
        Partial(F(_)) == [i \in 1 .. 2 |-> F(parts[i])]
        MergeSums(sums) == IF \E i \in 1 .. 2 : IsFailure(sums[i]) THEN FailedWith("Evaluation")
                           ELSE UpdateSum(Null(SumType(t)), sums)
        MergeAverages(states) ==
            IF \E i \in 1 .. 2 : IsFailure(states[i].sum) THEN FailedWith("Evaluation")
            ELSE EvaluateAverage(MergeAverage(NoAverage, states))
    IN  [whole |-> AggregateValue(function, t, vs),
         merged |->
            CASE function = "count" ->
                   MergeCount(<<"Int64", 0>>,
                              Partial(LAMBDA p : UpdateCount(<<"Int64", 0>>, p, "non_null")))
              [] function = "sum" -> MergeSums(Partial(LAMBDA p : UpdateSum(Null(SumType(t)), p)))
              [] function = "avg" -> MergeAverages(Partial(LAMBDA p : UpdateAverage(NoAverage, p)))]

ResultInputs ==
    {<<sizes, [rows |-> r, row |-> w, bytes |-> b]>> :
        sizes \in UpTo({2, 3, 5}, 4), r \in 1 .. 3, w \in {3, 5}, b \in {2, 7, 8, 9, 12, 30}}

TimeBounds ==
    {<<>>, <<"now">>, <<"datetime", <<"datetime", 3>>>>, <<"datetime", <<"word", 1>>>>}
    \cup {<<"relative", os>> : os \in UpTo({<<"truncate", "m">>, <<"truncate", "d">>,
                                           <<"shift", "-", 1, "h">>, <<"shift", "+", 3, "s">>}, 2) \ {<<>>}}

TimeInputs ==
    {<<start, end, [now |-> now, start |-> s, end |-> <<9>>]>> :
        start \in TimeBounds, end \in {<<>>, <<"now">>, <<"relative", <<<<"truncate", "h">>>>>>},
        now \in {-31, -9, -8, -1, 0, 7, 30}, s \in {<<>>, <<-5>>}}

-----------------------------------------------------------------------------
(* Segments to claim and to merge.                                         *)

Day(source) == [source |-> source, dayStart |-> 0, dayEnd |-> 10]

ClaimLimits ==
    LET wide == [targetRows |-> 4, targetBytes |-> 6, segments |-> 4, rows |-> 9, bytes |-> 15,
                 parquet |-> 9, candidates |-> 4, minimumRetention |-> 1, staging |-> 9]
    IN  {wide, [wide EXCEPT !.segments = 2], [wide EXCEPT !.bytes = 7, !.candidates = 3]}

\* <<source, rows, bytes, published, expires, claimed>>
SegmentShapes ==
    ({"A", "B"} \X {<<1, 2>>, <<3, 3>>, <<1, 5>>} \X {1} \X {9} \X {FALSE})
    \cup {<<"A", <<1, 2>>, 2, 9, FALSE>>, <<"A", <<1, 2>>, 1, 3, FALSE>>, <<"A", <<1, 2>>, 1, 9, TRUE>>}

Now == 2

Candidate(id, shape) ==
    [id |-> id, group |-> Day(shape[1]), rowCount |-> shape[2][1], bytes |-> shape[2][2],
     parquet |-> shape[2][1], published |-> shape[3], expires |-> shape[4], claimed |-> shape[5],
     state |-> "ACTIVE"]

ClaimInputs ==
    {<<{Candidate(id, shapes[id]) : id \in DOMAIN shapes}, limits>> :
        shapes \in [1 .. 4 -> SegmentShapes], limits \in ClaimLimits}

\* Two inputs may hold the same events: a replayed batch keeps its identities.
MergeSegment(index, times, bytes, replayed) ==
    LET rows == [j \in DOMAIN times |->
                    <<times[j], IF replayed THEN j ELSE 10 * (4 - index) + j, 20 + ((index * j) % 3)>>]
    IN  [id |-> index, group |-> Day("A"), rows |-> rows, rowCount |-> Len(rows), bytes |-> bytes,
         bounds |-> Merge!Bounds(rows), parquet |-> Len(rows), expires |-> 9 + index]

MergeLimits == CHOOSE limits \in ClaimLimits : limits.segments = 4 /\ limits.bytes = 15

MergeTimes == {<<1>>, <<2>>, <<1, 2>>, <<2, 2, 3>>}

MergeClaims ==
    LET Claim(shapes, replayed) ==
            Merge!materialize_claim([i \in DOMAIN shapes |->
                MergeSegment(i, shapes[i][1], shapes[i][2], replayed)])
    IN  {claim \in {Claim(shapes, replayed) : replayed \in BOOLEAN,
                                              shapes \in UpTo(MergeTimes \X {1, 3, 5}, 3) \ {<<>>}} :
            Merge!validate_claim(claim, MergeLimits) = "Accepted"}

MergeInputs == {<<claim, deadline>> : claim \in MergeClaims, deadline \in {3, 99}}

-----------------------------------------------------------------------------
(* The specification.                                                      *)

Init ==
    /\ done = FALSE
    /\ answer = <<>>
    /\ \/ /\ kind = "parse"
          /\ \/ input \in Queries \X {[quoted |-> FALSE, compact |-> FALSE]}
             \/ input \in {q \in Queries : q.source # "a"} \X Spellings
       \/ kind = "analyse" /\ input \in Expressions
       \/ kind = "operate" /\ input \in OperationInputs /\ Alike(input[2], input[3])
       \/ kind = "cast" /\ input \in (Numbers \cup Others \cup Nulls \cup JsonValues) \X LogicalTypes
       \/ kind = "pipeline" /\ input \in PipelineInputs
       \/ kind = "aggregate" /\ input \in AggregateInputs
       \/ kind = "encode" /\ input \in ResultInputs
       \/ kind = "resolve" /\ input \in TimeInputs
       \/ kind = "claim" /\ input \in ClaimInputs
       \/ kind = "merge" /\ input \in MergeInputs

Answer(k, value) ==
    /\ ~done /\ kind = k
    /\ done' = TRUE
    /\ answer' = value
    /\ UNCHANGED <<kind, input>>

ParseQuery == Answer("parse", Parser!parse(QueryTokens(input[1], input[2])))

Analysed(typed, rows) ==
    [typed |-> typed, values |-> IF Failed(typed) THEN <<>>
                                 ELSE [i \in DOMAIN rows |-> Evaluate(typed, rows[i])]]

AnalyseExpression == Answer("analyse", Analysed(convert_expression(input, Relation), SampleRows))

OperateOnValues ==
    Answer("operate",
           LET op == input[1]  l == input[2]  r == input[3]
           IN  [constant |-> Outcome(Typed(op, Literal(l), Literal(r)), <<>>),
                evaluated |-> Outcome(Typed(op, Operand("l", l), Operand("r", r)),
                                      [l |-> l, r |-> r])])

CastBack(there, t) ==
    [there |-> there, back |-> IF IsFailure(there) THEN there ELSE CastValue("strict", there, t)]

ConvertValue == Answer("cast", CastBack(CastValue("strict", input[1], input[2]), input[1][1]))

Executed(typed, rows) ==
    IF Failed(typed) THEN [accepted |-> FALSE]
    ELSE [accepted |-> TRUE,
          output |-> IF typed.stages = <<>> THEN Relation ELSE typed.stages[Len(typed.stages)].output,
          lowered |-> lower_pipeline(typed.stages, Relation, PlannedSource(Relation)),
          result |-> ExecuteStages(typed.stages, Relation, rows)]

RunPipeline ==
    Answer("pipeline", Executed(convert_stages(input[1], Relation, FALSE), RowsAt(input[2])))

AggregateValues == Answer("aggregate", Aggregated(input[1], input[2], input[3]))

EncodeResult == Answer("encode", encode_query_result(input[1], input[2]))

ResolveRange == Answer("resolve", resolve_time_range(input[1], input[2], input[3]))

ClaimSegments ==
    Answer("claim", Merge!choose_candidate_group(
                        Merge!load_candidates(input[1], Now, input[2]), input[2]))

MergeSegments == Answer("merge", Merge!build_outputs(input[1], MergeLimits, input[2]))

Next ==
    \/ ParseQuery \/ AnalyseExpression \/ OperateOnValues \/ ConvertValue \/ RunPipeline
    \/ AggregateValues \/ EncodeResult \/ ResolveRange \/ ClaimSegments \/ MergeSegments

Spec == Init /\ [][Next]_vars

-----------------------------------------------------------------------------
(* Properties.                                                             *)

Answered(k) == done /\ kind = k

\* Parsing what the grammar spells for a query gives the query back: precedence,
\* left association, the one comparison and the one unary operator of a level,
\* contextual keywords as names, optional signs and magnitudes, and compact
\* truncations lose nothing (parser/expression.rs, query.rs, command.rs).
ParserRoundTrip ==
    Answered("parse") => answer = {<<Len(QueryTokens(input[1], input[2])) + 1, input[1]>>}

\* An expression the analysis accepts gives, on every row, a value of the type
\* and the nullability it was given, or fails as a cast or an evaluation: the
\* engine never meets operands of other types than the plan promised
\* (semantic/expression.rs against engine/runtime.rs).
TypedEvaluation ==
    Answered("analyse") =>
        \A i \in DOMAIN answer.values :
            LET v == answer.values[i]
            IN  IF IsFailure(v) THEN v[2] \in {"Cast", "Evaluation"} ELSE Conforms(v, answer.typed)

\* Folding two constants at analysis gives what evaluating the same operation on
\* two columns gives, three-valued logic, overflow and division by zero included
\* (fold_binary against the checked functions of the engine).
FoldingAgrees == Answered("operate") => answer.constant = answer.evaluated

\* A comparison of two numbers of any types that is accepted has the truth value
\* of the comparison of the numbers themselves, and does not fail: widening to
\* the common type never rounds (can_widen, common_numeric_type).
ComparisonExact ==
    (Answered("operate") /\ input[1] \in ComparisonOperators
     /\ {input[2], input[3]} \subseteq Numbers /\ answer.evaluated[1] # "refused") =>
        answer.evaluated = <<"Bool", Compared(input[1], Halves(input[2]), Halves(input[3]))>>

\* A numeric cast keeps the number, and succeeds exactly when the target type
\* has it; any value that a cast accepts, other than a text or JSON, is
\* recovered by casting back (numeric_to_scalar, scalar_to_utf8, scalar_to_json).
CastExact ==
    Answered("cast") =>
        LET v == input[1]  t == input[2]
        IN  /\ (v \in Numbers /\ is_numeric(t)) =>
                  IF Representable(t, Halves(v)) THEN ~IsFailure(answer.there) /\ Halves(answer.there) = Halves(v)
                  ELSE answer.there = InvalidCast
            /\ (v[1] \notin {"Utf8", "Json"} /\ ~IsFailure(answer.there)) => answer.back = v

\* An accepted pipeline lowers to plans whose names and types are those of its
\* typed relations at every stage, and every row it returns conforms to the
\* output relation, an aggregate of no rows included (semantic/pipeline.rs
\* against engine/pipeline.rs).
PipelineWellTyped ==
    (Answered("pipeline") /\ answer.accepted) =>
        /\ answer.lowered
        /\ answer.result.failure \in {"none", "Cast", "Evaluation"}
        /\ \A i \in DOMAIN answer.result.rows :
              LET row == answer.result.rows[i]
              IN  /\ DOMAIN row = Names(answer.output)
                  /\ \A j \in DOMAIN answer.output :
                        Conforms(row[answer.output[j].name], answer.output[j])

\* What the analysis decides is what the engine does: the types and nullability
\* of expressions and of whole pipelines, and the values of folded constants
\* (elucid-language/src/semantic against elucid-engine/src).
AnalysisSound == TypedEvaluation /\ FoldingAgrees /\ PipelineWellTyped

\* No number changes on its way from one type to another, by an implicit
\* widening or by a cast (semantic/expression.rs, engine/runtime.rs).
NumbersExact == ComparisonExact /\ CastExact

\* However the rows of a group are split into partitions, merging the partial
\* states gives the aggregate of all of them, unless a checked addition fails,
\* and a failure is always the query's, never an inconsistent state
\* (engine/aggregate.rs).
AggregateSplit ==
    Answered("aggregate") =>
        LET results == {answer.whole, answer.merged}
        IN  /\ FailedWith("Execution") \notin results
            /\ (\A r \in results : ~IsFailure(r)) => answer.whole = answer.merged

EncodedBytes(sizes, n) ==
    2 + FoldLeft(LAMBDA a, b : a + b, 0, SubSeq(sizes, 1, n)) + Max({n - 1, 0})

\* A result holds the longest prefix of the rows that the row count and the
\* byte limit allow, its size is exact to the separators, and it is complete
\* exactly when no row was left out; a row above the row limit fails the query
\* only when it would have been the next one (engine/result.rs).
ResultPrefix ==
    Answered("encode") =>
        LET sizes == input[1]  limits == input[2]  n == answer.rows
            Fits(k) == /\ k <= limits.rows /\ EncodedBytes(sizes, k) <= limits.bytes
                       /\ \A i \in 1 .. k : sizes[i] <= limits.row
        IN  /\ n = Max({k \in 0 .. Len(sizes) : Fits(k)})
            /\ answer.bytes = EncodedBytes(sizes, n)
            /\ (answer.status = "COMPLETE") = (n = Len(sizes))
            /\ (answer.status = "OUTPUT_ROWS") = (n < Len(sizes) /\ n = limits.rows)
            /\ (answer.status = "failed") =
                  (n < Len(sizes) /\ n < limits.rows /\ sizes[n + 1] > limits.row)

\* The instants a bound denotes, <<>> when it denotes none: a truncation is the
\* latest multiple of its unit that is not later, before the epoch as well.
BoundDenotes(e, now, inherited) ==
    LET Instants == -InstantLimit .. InstantLimit - 1
        Unit(u) == UnitMilliseconds[u]
        Step(at, o) ==
            IF at = <<>> THEN <<>>
            ELSE LET next == IF o[1] = "truncate"
                             THEN Max({m \in at[1] - Unit(o[2]) + 1 .. at[1] : m % Unit(o[2]) = 0})
                             ELSE IF o[2] = "+" THEN at[1] + o[3] * Unit(o[4]) ELSE at[1] - o[3] * Unit(o[4])
                 IN  IF next \in Instants THEN <<next>> ELSE <<>>
    IN  CASE e = <<>> -> inherited
          [] e = <<"now">> -> <<now>>
          [] e # <<>> /\ e[1] = "datetime" -> IF e[2][1] = "datetime" THEN <<e[2][2]>> ELSE <<>>
          [] e # <<>> /\ e[1] = "relative" -> FoldLeft(Step, <<now>>, e[2])

\* A query's time range is the one its bounds denote, operation by operation
\* from the left, and is never empty; a bound that denotes no instant refuses
\* the query (semantic/command.rs, resolve_time_range).
TimeRangeResolved ==
    Answered("resolve") =>
        LET start == BoundDenotes(input[1], input[3].now, input[3].start)
            end   == BoundDenotes(input[2], input[3].now, input[3].end)
        IN  IF start # <<>> /\ end # <<>> /\ start[1] < end[1]
            THEN answer = [kind |-> "range", start |-> start[1], end |-> end[1]]
            ELSE Failed(answer)

\* A claim takes the longest beneficial prefix, within the limits, of the first
\* group of candidates that has one, no claim is made only when no group has
\* one, and the worker under the same limits accepts the claim (metastore
\* choose_candidate_group against the worker's validate_claim).
ClaimIsBestPrefix ==
    Answered("claim") =>
        LET limits == input[2]
            candidates == Merge!load_candidates(input[1], Now, limits)
            Group(i) == SelectSeq(candidates, LAMBDA c : c.group = candidates[i].group)
            Prefix(i, k) == SubSeq(Group(i), 1, k)
            Useful(i, k) ==
                LET claim == Merge!materialize_claim(Prefix(i, k))
                IN  /\ k <= Len(Group(i)) /\ k <= limits.segments
                    /\ claim.rows <= limits.rows /\ claim.bytes <= limits.bytes
                    /\ claim.parquet <= limits.parquet
                    /\ (k - 1) * limits.targetRows >= claim.rows
                    /\ (k - 1) * limits.targetBytes >= claim.bytes
            Groups == {i \in DOMAIN candidates : \E k \in 1 .. Len(candidates) : Useful(i, k)}
        IN  IF Groups = {} THEN answer = <<>>
            ELSE LET i == Min(Groups)
                 IN  /\ answer = Prefix(i, Max({k \in 1 .. Len(candidates) : Useful(i, k)}))
                     /\ Merge!validate_claim(Merge!materialize_claim(answer), limits) = "Accepted"

\* A build gives the rows of its inputs, every occurrence once and in key order,
\* in fewer outputs that each stay within the targets, carry all the bytes of
\* the inputs and would be valid inputs themselves.  It fails only at its
\* deadline or because the rows do not pack into fewer outputs, which never
\* happens when they fit in one (worker.rs, build_outputs_inner).
MergeConserves ==
    Answered("merge") =>
        LET claim == input[1]
            outputs == answer.outputs
            merged == FlattenSeq([i \in DOMAIN outputs |-> outputs[i].rows])
            given == FlattenSeq([i \in DOMAIN claim.inputs |-> claim.inputs[i].rows])
            Occurrences(rows, r) == Len(SelectSeq(rows, LAMBDA x : x = r))
            bytes == Merge!Total(claim.inputs, LAMBDA s : Max({s.bytes, s.rowCount}))
        IN  CASE answer.kind = "Built" ->
                   /\ Len(outputs) \in 1 .. Len(claim.inputs) - 1
                   /\ \A r \in ToSet(merged) \cup ToSet(given) :
                         Occurrences(merged, r) = Occurrences(given, r)
                   /\ \A i \in 1 .. Len(merged) - 1 : ~Merge!KeyBefore(merged[i + 1], merged[i])
                   /\ \A o \in ToSet(outputs) :
                         /\ o.rowCount <= MergeLimits.targetRows /\ o.bytes <= MergeLimits.targetBytes
                         /\ Merge!validate_batch(o, o.rows) /\ Merge!validate_complete(o)
                   /\ Merge!Total(outputs, LAMBDA o : o.bytes) = bytes
              [] answer.kind = "NotBeneficial" ->
                   claim.rows > MergeLimits.targetRows \/ bytes > MergeLimits.targetBytes
              [] OTHER -> answer.kind = "Timeout" /\ claim.rows > input[2]

=============================================================================

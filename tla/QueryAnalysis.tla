--------------------------- MODULE QueryAnalysis ---------------------------
(***************************************************************************)
(* Semantic analysis of a parsed query (elucid-language/src/semantic): the *)
(* typing of literals by their context, lossless widening, casts, constant *)
(* folding, the stages of a pipeline and the source's time range.          *)
(*                                                                         *)
(* An expression of the syntax tree is a tuple headed by its kind:         *)
(*   <<"null">>, <<"boolean", b>>, <<"integer", n>>, <<"floating", h>>,    *)
(*   <<"string", text>>, <<"field", name>>,                                *)
(*   <<"numeric", target, minus, literal>>, <<"datetime", text>>,          *)
(*   <<"eid", text>>, <<"cast", mode, e, target>>,                         *)
(*   <<"remainder", function, key>>, <<"unary", op, e>>,                   *)
(*   <<"binary", op, left, right>>.                                        *)
(* A typed value is <<type, value>>, and a typed null <<type>>.  Integers  *)
(* keep their widths, scaled down by constants that keep the order of the  *)
(* real ones (24 < 31 <= 53 < 63).  A floating-point number is an integer  *)
(* count of halves that its significand can hold; negative zero and        *)
(* subnormals are left out.  A text is <<kind, n>>: what it spells and     *)
(* which one of that kind it is.  An instant is a number of milliseconds.  *)
(***************************************************************************)
EXTENDS Integers, FiniteSets, FiniteSetsExt, Sequences

CONSTANTS
    Width32, Width64,           \* the bits of int32/uint32 and int64/uint64
    Mantissa32, Mantissa64,     \* f32::MANTISSA_DIGITS, f64::MANTISSA_DIGITS
    FloatLimit32, FloatLimit64, \* the largest finite numbers, in halves
    UnitMilliseconds,           \* the length of each time unit
    InstantLimit                \* instants are -InstantLimit .. InstantLimit-1

(* The order of the real widths: an i32 may need more digits than a float32 *)
(* has, an i32 and a u32 never need more than a float64 has, an i64 may.    *)
ASSUME WidthsOrdered ==
    /\ Mantissa32 < Width32 - 1
    /\ Width32 <= Mantissa64
    /\ Mantissa64 < Width64 - 1
    /\ FloatLimit64 > FloatLimit32
    /\ FloatLimit32 > 2^(Width64 + 1)

-----------------------------------------------------------------------------
SignedTypes   == {"Int32", "Int64"}
UnsignedTypes == {"UInt32", "UInt64"}
FloatTypes    == {"Float32", "Float64"}

is_integer(t) == t \in SignedTypes \cup UnsignedTypes

is_numeric(t) == is_integer(t) \/ t \in FloatTypes

NumericTypes == SignedTypes \cup UnsignedTypes \cup FloatTypes

LogicalTypes == NumericTypes \cup {"Bool", "Utf8", "Datetime", "Eid", "Json"}

Bits(t) == IF t \in {"Int32", "UInt32"} THEN Width32 ELSE Width64

Least(t) == IF t \in SignedTypes THEN -(2^(Bits(t) - 1)) ELSE 0

Greatest(t) == IF t \in SignedTypes THEN 2^(Bits(t) - 1) - 1 ELSE 2^Bits(t) - 1

InRange(t, n) == Least(t) <= n /\ n <= Greatest(t)

Mantissa(t) == IF t = "Float32" THEN Mantissa32 ELSE Mantissa64

FloatLimit(t) == IF t = "Float32" THEN FloatLimit32 ELSE FloatLimit64

Magnitude(n) == IF n < 0 THEN -n ELSE n

\* u64::BITS - leading_zeros, for the numbers of the scaled-down domains.
SignificantBits(n) == Min({b \in 0 .. 3 * Width64 : n < 2^b})

TrailingZeros(n) == Max({z \in 0 .. 3 * Width64 : n % (2^z) = 0})

integer_is_exact(n, digits) ==
    \/ SignificantBits(n) <= digits
    \/ TrailingZeros(n) >= SignificantBits(n) - digits

-----------------------------------------------------------------------------
(* IEEE 754 and Rust's integer division: the parts of the language the code *)
(* relies on.                                                               *)

Nearest(n, d) ==
    LET q == n \div d  r == n % d
    IN  IF 2 * r > d \/ (2 * r = d /\ q % 2 = 1) THEN q + 1 ELSE q

Sign(n) == IF n < 0 THEN -1 ELSE 1

\* A magnitude with its lowest shift bits rounded away.
DropBits(m, shift) == IF shift <= 0 THEN m ELSE Nearest(m, 2^shift) * 2^shift

\* The number of halves n, rounded to the significand of the float type t.
Rounded(t, n) ==
    Sign(n) * DropBits(Magnitude(n), SignificantBits(Magnitude(n)) - Mantissa(t))

IsFinite(t, h) == Magnitude(h) <= FloatLimit(t)

Quotient(a, b) == Sign(a) * Sign(b) * (Magnitude(a) \div Magnitude(b))

Ratio(n, d) == Sign(n) * Sign(d) * Nearest(Magnitude(n), Magnitude(d))

IntegerResult(op, a, b) ==
    CASE op = "+" -> a + b
      [] op = "-" -> a - b
      [] op = "*" -> a * b
      [] op = "/" -> Quotient(a, b)

\* Both operands are halves, so a product is in quarters and a quotient in units.
FloatResult(op, t, a, b) ==
    Rounded(t, CASE op = "+" -> a + b
                 [] op = "-" -> a - b
                 [] op = "*" -> Ratio(a * b, 2)
                 [] op = "/" -> Ratio(2 * a, b))

TextKinds == <<"integer", "number", "bool", "datetime", "precise", "eid", "word">>

\* A total order on texts, for the byte order of UTF-8 strings.
TextRank(text) ==
    1000 * (CHOOSE i \in DOMAIN TextKinds : TextKinds[i] = text[1]) + text[2]

-----------------------------------------------------------------------------
(* Typed expressions: every one carries its logical type and nullability.  *)

IsNullValue(value) == Len(value) = 1

Literal(value) ==
    [kind |-> "literal", t |-> value[1], nullable |-> IsNullValue(value), value |-> value]

Fault(code) == [kind |-> "error", code |-> code]

Failed(x) == x.kind = "error"

\* The `?` operator: a diagnostic ends the conversion.
Then(x, F(_)) == IF Failed(x) THEN x ELSE F(x)

IsLiteral(x) == x.kind = "literal"

IsNullLiteral(x) == IsLiteral(x) /\ IsNullValue(x.value)

\* A relation is a sequence of fields with distinct names.
Field(name, t, nullable) == [name |-> name, t |-> t, nullable |-> nullable]

Names(relation) == {relation[i].name : i \in DOMAIN relation}

FieldNamed(relation, name) ==
    relation[CHOOSE i \in DOMAIN relation : relation[i].name = name]

resolve_field(name, relation) ==
    IF name \notin Names(relation) THEN Fault("FieldNotFound")
    ELSE LET f == FieldNamed(relation, name)
         IN  [kind |-> "field", t |-> f.t, nullable |-> f.nullable, name |-> name]

-----------------------------------------------------------------------------
(* Literals and constructors.                                              *)

integer_literal(magnitude, minus, expected, site) ==
    LET target   == IF expected = "none" THEN "Int64" ELSE expected
        negative == minus /\ magnitude # 0
        value    == IF negative THEN -magnitude ELSE magnitude
        Ranged   == IF InRange(target, value) THEN Literal(<<target, value>>)
                                              ELSE Fault("LiteralInvalid")
    IN  CASE target \in SignedTypes -> Ranged
          [] target \in UnsignedTypes ->
               IF site = "constructor" /\ minus THEN Fault("LiteralInvalid")
               ELSE IF negative THEN Fault("TypeMismatch") ELSE Ranged
          [] target \in FloatTypes ->
               IF integer_is_exact(magnitude, Mantissa(target))
               THEN Literal(<<target, 2 * value>>) ELSE Fault("LiteralInvalid")
          [] OTHER -> Fault("TypeMismatch")

convert_literal(literal, expected) ==
    CASE literal[1] = "null"     -> IF expected = "none" THEN Fault("TypeMismatch")
                                    ELSE Literal(<<expected>>)
      [] literal[1] = "boolean"  -> Literal(<<"Bool", literal[2]>>)
      [] literal[1] = "integer"  -> integer_literal(literal[2], FALSE, expected, "expression")
      [] literal[1] = "floating" ->
           LET value == Rounded("Float64", literal[2])
           IN  IF IsFinite("Float64", value) THEN Literal(<<"Float64", value>>)
                                             ELSE Fault("LiteralInvalid")
      [] literal[1] = "string"   -> Literal(<<"Utf8", literal[2]>>)

\* floating_constructor and floating_constructor_from_integer.
floating_constructor(halves, minus, target) ==
    LET value == Rounded(target, halves)
    IN  IF IsFinite(target, value)
        THEN Literal(<<target, IF minus THEN -value ELSE value>>)
        ELSE Fault("LiteralInvalid")

parse_datetime_with_code(text, code) ==
    IF text[1] = "datetime" THEN Literal(<<"Datetime", text[2]>>) ELSE Fault(code)

convert_constructor(e) ==
    CASE e[1] = "datetime" -> parse_datetime_with_code(e[2], "LiteralInvalid")
      [] e[1] = "eid"      -> IF e[2][1] = "eid" THEN Literal(<<"Eid", e[2][2]>>)
                                                 ELSE Fault("LiteralInvalid")
      [] e[1] = "numeric"  ->
           LET target == e[2]  minus == e[3]  token == e[4]
           IN  IF token[1] = "integer"
               THEN IF is_integer(target)
                    THEN integer_literal(token[2], minus, target, "constructor")
                    ELSE floating_constructor(2 * token[2], minus, target)
               ELSE IF target \in FloatTypes
                    THEN floating_constructor(token[2], minus, target)
                    ELSE Fault("LiteralInvalid")

-----------------------------------------------------------------------------
(* Lossless widening and the casts that are defined.                       *)

can_widen(source, target) ==
    \/ source = target
    \/ <<source, target>> \in {<<"Int32", "Int64">>, <<"Int32", "Float64">>,
                               <<"UInt32", "UInt64">>, <<"UInt32", "Float64">>,
                               <<"Float32", "Float64">>}

WideningOrder == <<"Int32", "UInt32", "Int64", "UInt64", "Float32", "Float64">>

CommonTypes(left, right) ==
    {i \in DOMAIN WideningOrder : can_widen(left, WideningOrder[i])
                                  /\ can_widen(right, WideningOrder[i])}

common_numeric_type(left, right) ==
    IF CommonTypes(left, right) = {} THEN "none"
    ELSE WideningOrder[Min(CommonTypes(left, right))]

\* The literals that are widened at analysis; any other is cast at run time.
HasWiderLiteral(value, target) ==
    \/ IsNullValue(value)
    \/ <<value[1], target>> \in {<<"Int32", "Int64">>, <<"Int32", "Float64">>,
                                 <<"UInt32", "UInt64">>, <<"UInt32", "Float64">>,
                                 <<"Float32", "Float64">>}

widen_literal(value, target) ==
    IF IsNullValue(value) THEN <<target>>
    ELSE IF target \in FloatTypes /\ value[1] \notin FloatTypes THEN <<target, 2 * value[2]>>
    ELSE <<target, value[2]>>

CastOf(mode, e, target, nullable) ==
    [kind |-> "cast", t |-> target, nullable |-> nullable, mode |-> mode, operand |-> e]

coerce_losslessly(e, target) ==
    IF e.t = target THEN e
    ELSE IF IsLiteral(e) /\ HasWiderLiteral(e.value, target)
    THEN Literal(widen_literal(e.value, target))
    ELSE CastOf("lossless", e, target, e.nullable)

cast_is_defined(source, target) ==
    \/ source = target
    \/ is_numeric(source) /\ is_numeric(target)
    \/ "Json" \in {source, target}
    \/ target = "Utf8"
    \/ source = "Utf8"

-----------------------------------------------------------------------------
(* Constant folding.  Unfolded: the expression is evaluated at run time.   *)

Unfolded == [kind |-> "unfolded"]

Compared(op, l, r) ==
    CASE op = "==" -> l = r
      [] op = "!=" -> l # r
      [] op = ">"  -> l > r
      [] op = ">=" -> l >= r
      [] op = "<"  -> l < r
      [] op = "<=" -> l <= r

ArithmeticOperators == {"+", "-", "*", "/"}
EqualityOperators   == {"==", "!="}
ComparisonOperators == EqualityOperators \cup {">", ">=", "<", "<="}
LogicalOperators    == {"and", "or"}

fold_unary(op, e) ==
    IF ~IsLiteral(e) THEN Unfolded
    ELSE IF IsNullValue(e.value) THEN e
    ELSE CASE op = "not"         -> Literal(<<"Bool", ~e.value[2]>>)
           [] e.t \in FloatTypes -> Literal(<<e.t, -e.value[2]>>)
           [] OTHER              -> IF InRange(e.t, -e.value[2])
                                    THEN Literal(<<e.t, -e.value[2]>>)
                                    ELSE Fault("ConstantEvaluationFailed")

\* A finite float, or an integer within the range of its type.
IsNumber(t, value) == IF t \in FloatTypes THEN IsFinite(t, value) ELSE InRange(t, value)

CheckedLiteral(t, value) ==
    IF IsNumber(t, value) THEN Literal(<<t, value>>) ELSE Fault("ConstantEvaluationFailed")

\* fold_integer!, fold_f32 and fold_float on the operands' common type.
fold_number(op, t, l, r) ==
    IF op \in ComparisonOperators THEN Literal(<<"Bool", Compared(op, l, r)>>)
    ELSE IF op = "/" /\ r = 0 THEN Fault("ConstantEvaluationFailed")
    ELSE CheckedLiteral(t, IF t \in FloatTypes THEN FloatResult(op, t, l, r)
                                               ELSE IntegerResult(op, l, r))

\* Some(FALSE) decides an and, Some(TRUE) an or; otherwise a null keeps it open.
fold_three_valued_boolean(op, l, r) ==
    LET decisive == <<"Bool", op = "or">>
    IN  IF l = decisive \/ r = decisive THEN decisive
        ELSE IF IsNullValue(l) \/ IsNullValue(r) THEN <<"Bool">>
        ELSE <<"Bool", op = "and">>

OrderKey(value) ==
    IF value[1] = "Utf8" THEN TextRank(value[2]) ELSE value[2]

\* Mutant: the null checked before the connective: `false and null` would be null.
fold_binary_NullFirst(op, l, r, t) ==
    IF ~IsLiteral(l) \/ ~IsLiteral(r) THEN Unfolded
    ELSE IF IsNullValue(l.value) \/ IsNullValue(r.value) THEN Literal(<<t>>)
    ELSE IF op \in LogicalOperators
         THEN Literal(fold_three_valued_boolean(op, l.value, r.value))
    ELSE IF is_numeric(l.t) THEN fold_number(op, l.t, l.value[2], r.value[2])
    ELSE Literal(<<"Bool", Compared(op, OrderKey(l.value), OrderKey(r.value))>>)

fold_binary(op, l, r, t) ==
    IF ~IsLiteral(l) \/ ~IsLiteral(r) THEN Unfolded
    ELSE IF op \in LogicalOperators
         THEN Literal(fold_three_valued_boolean(op, l.value, r.value))
    ELSE IF IsNullValue(l.value) \/ IsNullValue(r.value) THEN Literal(<<t>>)
    ELSE IF is_numeric(l.t) THEN fold_number(op, l.t, l.value[2], r.value[2])
    ELSE Literal(<<"Bool", Compared(op, OrderKey(l.value), OrderKey(r.value))>>)

-----------------------------------------------------------------------------
(* Expressions.                                                            *)

IsNull(e) == e = <<"null">>

RECURSIVE needs_context(_)
needs_context(e) ==
    \/ e[1] \in {"integer", "null"}
    \/ e[1] = "unary" /\ e[2] = "-" /\ needs_context(e[3])
    \/ e[1] = "binary" /\ e[2] \in ArithmeticOperators
       /\ needs_context(e[3]) /\ needs_context(e[4])

UnaryOf(op, e) ==
    [kind |-> "unary", t |-> e.t, nullable |-> e.nullable, op |-> op, operand |-> e]

BinaryOf(op, l, r, t) ==
    [kind |-> "binary", t |-> t, nullable |-> l.nullable \/ r.nullable, op |-> op,
     left |-> l, right |-> r]

FoldedOr(folded, x) == IF folded = Unfolded THEN x ELSE folded

build_binary(op, l, r, t) == FoldedOr(fold_binary(op, l, r, t), BinaryOf(op, l, r, t))

\* try_cast is nullable, and so is a strict cast from json: JSON null becomes null.
CastNullable(mode, e) == mode = "try" \/ e.t = "Json" \/ e.nullable

TypeCast(mode, e, target) ==
    IF ~cast_is_defined(e.t, target) THEN Fault("CastInvalid")
    ELSE IF IsNullLiteral(e) THEN Literal(<<target>>)
    ELSE CastOf(mode, e, target, CastNullable(mode, e))

convert_remainder(function, key, relation) ==
    IF "@rest" \notin Names(relation) THEN Fault("FieldNotFound")
    ELSE [kind |-> "remainder", t |-> IF function = "rest" THEN "Json" ELSE "Bool",
          nullable |-> function = "rest", function |-> function, key |-> key]

TypeUnary(op, e) ==
    IF ~(IF op = "not" THEN e.t = "Bool" ELSE e.t \in SignedTypes \cup FloatTypes)
    THEN Fault("TypeMismatch")
    ELSE FoldedOr(fold_unary(op, e), UnaryOf(op, e))

TypeNullPredicate(op, e) ==
    IF IsLiteral(e) THEN Literal(<<"Bool", IsNullLiteral(e) = (op = "==")>>)
    ELSE [kind |-> "predicate", t |-> "Bool", nullable |-> FALSE, op |-> op, operand |-> e]

TypeLogical(op, l, r) ==
    IF l.t # "Bool" \/ r.t # "Bool" THEN Fault("TypeMismatch")
    ELSE build_binary(op, l, r, "Bool")

\* Both operands in their common type, unless there is none.
BuildCommon(op, l, r, common, t) ==
    IF common = "none" THEN Fault("TypeMismatch")
    ELSE build_binary(op, coerce_losslessly(l, common), coerce_losslessly(r, common), t)

\* convert_numeric_pair: both operands widened to their first common type.
NumericPair(l, r) == IF is_numeric(l) /\ is_numeric(r) THEN common_numeric_type(l, r) ELSE "none"

TypeArithmetic(op, l, r) == BuildCommon(op, l, r, NumericPair(l.t, r.t), NumericPair(l.t, r.t))

\* convert_comparison_pair: operands of one other type are compared as they are.
ComparisonPair(op, l, r) ==
    IF l = r /\ (l \in {"Utf8", "Datetime", "Eid"} \/ (l = "Bool" /\ op \in EqualityOperators))
    THEN l ELSE NumericPair(l, r)

TypeComparison(op, l, r) == BuildCommon(op, l, r, ComparisonPair(op, l.t, r.t), "Bool")

NumericOrNone(expected) == IF is_numeric(expected) THEN expected ELSE "none"

RECURSIVE convert_expression_with_expected(_, _, _)

\* A literal without a type of its own takes the other operand's type; of two
\* such operands the first that is not null is typed first.
convert_contextual_pair(l, r, expected, relation, F(_, _)) ==
    LET Conv(e, t)  == convert_expression_with_expected(e, relation, t)
        LeftFirst(t)  == Then(Conv(l, t), LAMBDA x : Then(Conv(r, x.t), LAMBDA y : F(x, y)))
        RightFirst(t) == Then(Conv(r, t), LAMBDA y : Then(Conv(l, y.t), LAMBDA x : F(x, y)))
        Alike(t)      == Then(Conv(l, t), LAMBDA x : Then(Conv(r, t), LAMBDA y : F(x, y)))
    IN  CASE needs_context(l) /\ ~needs_context(r) -> RightFirst(expected)
          [] ~needs_context(l) /\ needs_context(r) -> LeftFirst(expected)
          [] ~needs_context(l) /\ ~needs_context(r) -> Alike(expected)
          [] OTHER -> IF expected # "none" THEN Alike(expected)
                      ELSE IF IsNull(l) THEN RightFirst("none") ELSE LeftFirst("none")

convert_binary(op, l, r, relation, expected) ==
    LET Conv(e, t) == convert_expression_with_expected(e, relation, t)
    IN  CASE op \in EqualityOperators /\ (IsNull(l) \/ IsNull(r)) ->
               IF IsNull(l) /\ IsNull(r) THEN Fault("TypeMismatch")
               ELSE Then(Conv(IF IsNull(l) THEN r ELSE l, "none"),
                         LAMBDA x : TypeNullPredicate(op, x))
          [] op \in LogicalOperators ->
               Then(Conv(l, "Bool"), LAMBDA x : Then(Conv(r, "Bool"),
                                         LAMBDA y : TypeLogical(op, x, y)))
          [] op \in ArithmeticOperators ->
               convert_contextual_pair(l, r, NumericOrNone(expected), relation,
                                       LAMBDA x, y : TypeArithmetic(op, x, y))
          [] OTHER ->
               convert_contextual_pair(l, r, "none", relation,
                                       LAMBDA x, y : TypeComparison(op, x, y))

convert_unary(op, e, relation, expected) ==
    IF op = "-" /\ e[1] = "integer"
    THEN integer_literal(e[2], TRUE, expected, "expression")
    ELSE Then(convert_expression_with_expected(e, relation,
                  IF op = "not" THEN "Bool" ELSE NumericOrNone(expected)),
              LAMBDA x : TypeUnary(op, x))

convert_cast(mode, e, target, relation) ==
    Then(convert_expression_with_expected(e, relation,
             IF IsNull(e) \/ is_numeric(target) THEN target ELSE "none"),
         LAMBDA x : TypeCast(mode, x, target))

convert_expression_with_expected(e, relation, expected) ==
    CASE e[1] \in {"null", "boolean", "integer", "floating", "string"} ->
           convert_literal(e, expected)
      [] e[1] = "field" -> resolve_field(e[2], relation)
      [] e[1] \in {"numeric", "datetime", "eid"} -> convert_constructor(e)
      [] e[1] = "cast" -> convert_cast(e[2], e[3], e[4], relation)
      [] e[1] = "remainder" -> convert_remainder(e[2], e[3], relation)
      [] e[1] = "unary" -> convert_unary(e[2], e[3], relation, expected)
      [] e[1] = "binary" -> convert_binary(e[2], e[3], e[4], relation, expected)

convert_expression(e, relation) == convert_expression_with_expected(e, relation, "none")

-----------------------------------------------------------------------------
(* Stages: <<"filter", e>>, <<"project", projections>>, <<"sort", items>>, *)
(* <<"take", minus, n>>, <<"summarize", measures, groups>>.  A projection  *)
(* is <<"field", name>>, <<"computed", alias, e>> or <<"unaliased", e>>; a *)
(* measure is <<alias, function, argument>>, with "" for an absent alias   *)
(* or argument.  A typed stage carries the relation it outputs.            *)

\* ensure_unique_output: the first item that fails, or repeats an output name,
\* ends the conversion.
FirstFault(items) ==
    LET bad == {i \in DOMAIN items : \/ Failed(items[i])
                                     \/ \E j \in 1 .. i - 1 :
                                           /\ ~Failed(items[j])
                                           /\ items[j].output.name = items[i].output.name}
    IN  IF bad = {} THEN [kind |-> "none"]
        ELSE LET first == items[Min(bad)]
             IN  IF Failed(first) THEN first ELSE Fault("DuplicateOutputField")

Outputs(items) == [i \in DOMAIN items |-> items[i].output]

convert_projection(p, input) ==
    CASE p[1] = "field" ->
           Then(resolve_field(p[2], input),
                LAMBDA x : [kind |-> "projection", expression |-> x,
                            output |-> FieldNamed(input, p[2])])
      [] p[1] = "computed" ->
           Then(convert_expression(p[3], input),
                LAMBDA x : [kind |-> "projection", expression |-> x,
                            output |-> Field(p[2], x.t, x.nullable)])
      [] p[1] = "unaliased" -> Fault("ProjectionAliasRequired")

\* The stage, unless one of its items fails.
StageUnless(fault, stage) == IF Failed(fault) THEN fault ELSE stage

Projected(items) ==
    StageUnless(FirstFault(items), [kind |-> "project", items |-> items, output |-> Outputs(items)])

convert_project(projections, input) ==
    Projected([i \in DOMAIN projections |-> convert_projection(projections[i], input)])

aggregate_output(function, argument, input) ==
    LET t == IF argument = "" THEN "none" ELSE FieldNamed(input, argument).t
    IN  CASE function = "count" -> Field("", "Int64", FALSE)
          [] function # "count" /\ argument = "" -> Fault("FunctionArityInvalid")
          [] function = "sum" /\ t \in SignedTypes -> Field("", "Int64", TRUE)
          [] function = "sum" /\ t \in UnsignedTypes -> Field("", "UInt64", TRUE)
          [] function = "sum" /\ t \in FloatTypes -> Field("", "Float64", TRUE)
          [] function = "avg" /\ is_numeric(t) -> Field("", "Float64", TRUE)
          [] function \in {"min", "max"} /\ (is_numeric(t) \/ t \in {"Utf8", "Datetime", "Eid"}) ->
               Field("", t, TRUE)
          [] OTHER -> Fault("FunctionArgumentTypeInvalid")

convert_measure(measure, input) ==
    LET alias == measure[1]  function == measure[2]  argument == measure[3]
    IN  IF alias = "" THEN Fault("AggregateAliasRequired")
        ELSE IF argument # "" /\ argument \notin Names(input) THEN Fault("FieldNotFound")
        ELSE LET out == aggregate_output(function, argument, input)
             IN  IF "kind" \in DOMAIN out THEN out
                 ELSE [kind |-> "measure", function |-> function, argument |-> argument,
                       output |-> [out EXCEPT !.name = alias]]

convert_group(name, input) ==
    Then(resolve_field(name, input),
         LAMBDA x : IF x.t = "Json" THEN Fault("TypeMismatch")
                    ELSE [kind |-> "group", output |-> FieldNamed(input, name)])

\* Groups first, then measures, with one set of output names.
Summarized(groups, keys, values) ==
    StageUnless(FirstFault(keys \o values),
                [kind |-> "aggregate", groups |-> groups, measures |-> values,
                 output |-> Outputs(keys \o values)])

convert_summarize(measures, groups, input) ==
    Summarized(groups, [i \in DOMAIN groups |-> convert_group(groups[i], input)],
               [i \in DOMAIN measures |-> convert_measure(measures[i], input)])

convert_sort(items, input) ==
    LET bad == {i \in DOMAIN items : \/ items[i][2] \notin Names(input)
                                     \/ FieldNamed(input, items[i][2]).t = "Json"}
    IN  IF bad = {} THEN [kind |-> "sort", items |-> items, output |-> input]
        ELSE IF items[Min(bad)][2] \notin Names(input) THEN Fault("FieldNotFound")
        ELSE Fault("TypeMismatch")

convert_take(minus, n, input) ==
    IF (minus /\ n # 0) \/ n > Greatest("Int64") THEN Fault("TakeInvalid")
    ELSE [kind |-> "take", count |-> n, output |-> input]

convert_stage(stage, input) ==
    CASE stage[1] = "filter" ->
           Then(convert_expression(stage[2], input),
                LAMBDA x : IF x.t # "Bool" THEN Fault("TypeMismatch")
                           ELSE [kind |-> "filter", predicate |-> x, output |-> input])
      [] stage[1] = "project"   -> convert_project(stage[2], input)
      [] stage[1] = "sort"      -> convert_sort(stage[2], input)
      [] stage[1] = "take"      -> convert_take(stage[2], stage[3], input)
      [] stage[1] = "summarize" -> convert_summarize(stage[2], stage[3], input)

\* convert_query's loop: only sort and take may follow a summarize.
RECURSIVE convert_stages(_, _, _)
convert_stages(stages, relation, summarized) ==
    IF stages = <<>> THEN [kind |-> "pipeline", stages |-> <<>>]
    ELSE IF summarized /\ Head(stages)[1] \notin {"sort", "take"}
         THEN Fault("StageOrderInvalid")
    ELSE Then(convert_stage(Head(stages), relation),
              LAMBDA s : Then(convert_stages(Tail(stages), s.output,
                                             summarized \/ Head(stages)[1] = "summarize"),
                              LAMBDA rest : [rest EXCEPT !.stages = <<s>> \o @]))

-----------------------------------------------------------------------------
(* The source's time range: <<"datetime", text>>, <<"now">> or             *)
(* <<"relative", operations>> of <<"truncate", unit>> and                  *)
(* <<"shift", direction, magnitude, unit>>; <<>> is an absent bound.       *)

InstantOrFault(ms) ==
    IF -InstantLimit <= ms /\ ms < InstantLimit THEN Literal(<<"Datetime", ms>>)
    ELSE Fault("TimeExpressionInvalid")

\* Mutant: a truncating division would round an instant before the epoch upwards.
truncate_time_TowardsZero(ms, unit) ==
    InstantOrFault(Quotient(ms, UnitMilliseconds[unit]) * UnitMilliseconds[unit])

\* div_euclid: towards the past, before the epoch as well.
truncate_time(ms, unit) ==
    InstantOrFault((ms \div UnitMilliseconds[unit]) * UnitMilliseconds[unit])

shift_time(ms, direction, magnitude, unit) ==
    LET delta == magnitude * UnitMilliseconds[unit]
    IN  InstantOrFault(IF direction = "+" THEN ms + delta ELSE ms - delta)

RECURSIVE evaluate_operations(_, _)
evaluate_operations(operations, ms) ==
    IF operations = <<>> THEN Literal(<<"Datetime", ms>>)
    ELSE LET o == Head(operations)
         IN  Then(IF o[1] = "truncate" THEN truncate_time(ms, o[2])
                                       ELSE shift_time(ms, o[2], o[3], o[4]),
                  LAMBDA x : evaluate_operations(Tail(operations), x.value[2]))

evaluate_time_expression(e, now) ==
    CASE e[1] = "datetime" -> parse_datetime_with_code(e[2], "TimeExpressionInvalid")
      [] e[1] = "now"      -> Literal(<<"Datetime", now>>)
      [] e[1] = "relative" -> evaluate_operations(e[2], now)

\* A bound of the query, or the one inherited from the request.
BoundOf(e, now, inherited) ==
    IF e # <<>> THEN evaluate_time_expression(e, now)
    ELSE IF inherited = <<>> THEN Fault("TimeBoundUnresolved")
    ELSE Literal(<<"Datetime", inherited[1]>>)

resolve_time_range(start, end, context) ==
    Then(BoundOf(start, context.now, context.start),
         LAMBDA s : Then(BoundOf(end, context.now, context.end),
             LAMBDA e : IF s.value[2] < e.value[2]
                        THEN [kind |-> "range", start |-> s.value[2], end |-> e.value[2]]
                        ELSE Fault("TimeRangeInvalid")))

=============================================================================

---------------------------- MODULE QueryParser ----------------------------
(***************************************************************************)
(* The parser of the query language (elucid-language/src/parser).  A token *)
(* is a tuple headed by its kind: <<"filter">> and the other keywords and  *)
(* operators, <<"identifier", name>>, <<"quoted", name>>,                  *)
(* <<"system", name>>, <<"integer", n>>, <<"floating", h>>,                *)
(* <<"string", text>>.  A parser takes the tokens and a position and gives *)
(* the set of its one result <<next position, node>>, or NoParse; a choice *)
(* takes the first alternative that matches, and a repetition stops before *)
(* an item that does not (chumsky's rules, which rewind).  Nodes are the   *)
(* tuples of QueryAnalysis; a field in parentheses is                      *)
(* <<"field", name, "wide">>, for its span is wider than its reference's.  *)
(***************************************************************************)
EXTENDS Integers, Sequences

StageKeywords == {"source", "filter", "project", "sort", "take", "summarize"}
UnitKeywords  == {"s", "m", "h", "d"}

TypeNames == [bool |-> "Bool", int32 |-> "Int32", int64 |-> "Int64", uint32 |-> "UInt32",
              uint64 |-> "UInt64", float32 |-> "Float32", float64 |-> "Float64",
              utf8 |-> "Utf8", datetime |-> "Datetime", eid |-> "Eid", json |-> "Json"]

AggregateNames == {"count", "sum", "min", "max", "avg"}

Keywords ==
    StageKeywords \cup UnitKeywords \cup DOMAIN TypeNames \cup AggregateNames
    \cup {"and", "or", "not", "true", "false", "null", "now", "start_inclusive",
          "end_exclusive", "by", "as", "cast", "try_cast", "rest", "rest_exists"}

\* The lexer prefers a keyword to an identifier of the same spelling.
Word(name) == IF name \in Keywords THEN <<name>> ELSE <<"identifier", name>>

NoParse == {}

TokenAt(ts, i) == IF i <= Len(ts) THEN ts[i] ELSE <<"end">>

OneOf(kinds, ts, i) ==
    IF TokenAt(ts, i)[1] \in kinds THEN {<<i + 1, TokenAt(ts, i)[1]>>} ELSE NoParse

Payload(kind, ts, i) ==
    IF TokenAt(ts, i)[1] = kind THEN {<<i + 1, TokenAt(ts, i)[2]>>} ELSE NoParse

\* One of the tokens, and then what follows it.
After(kinds, ts, i, following) == IF TokenAt(ts, i)[1] \in kinds THEN following ELSE NoParse

FirstOf(a, b) == IF a = NoParse THEN b ELSE a

\* or_not: the default, and no progress, when the parser does not match.
Optional(result, i, default) == FirstOf(result, {<<i, default>>})

\* A parenthesis at i, what is inside it, and the closing one.
Delimited(ts, i, inside) ==
    After({"("}, ts, i, {<<r[1] + 1, r[2]>> : r \in {s \in inside : TokenAt(ts, s[1]) = <<")">>}})

\* The stage keywords and the units are also names.
identifier(ts, i) ==
    FirstOf(Payload("identifier", ts, i),
        FirstOf(Payload("quoted", ts, i), OneOf(StageKeywords \cup UnitKeywords, ts, i)))

field_reference(ts, i) == FirstOf(Payload("system", ts, i), identifier(ts, i))

-----------------------------------------------------------------------------
(* Expressions.                                                            *)

Minus(ts, i) == Optional({<<r[1], TRUE>> : r \in OneOf({"-"}, ts, i)}, i, FALSE)

\* signed_integer_literal: <<minus, magnitude>>.
signed_integer_literal(ts, i) ==
    UNION {{<<n[1], <<minus[2], n[2]>>>> : n \in Payload("integer", ts, minus[1])} : minus \in Minus(ts, i)}

NumericToken(ts, i) == After({"integer", "floating"}, ts, i, {<<i + 1, TokenAt(ts, i)>>})

SignedNumber(ts, i) ==
    UNION {{<<n[1], <<minus[2], n[2]>>>> : n \in NumericToken(ts, minus[1])} : minus \in Minus(ts, i)}

integer_constructor(ts, i) ==
    {<<n[1], <<"numeric", TypeNames[TokenAt(ts, i)[1]], n[2][1], <<"integer", n[2][2]>>>>>> :
        n \in After({"int32", "int64", "uint32", "uint64"}, ts, i,
                    Delimited(ts, i + 1, signed_integer_literal(ts, i + 2)))}

floating_constructor(ts, i) ==
    {<<n[1], <<"numeric", TypeNames[TokenAt(ts, i)[1]], n[2][1], n[2][2]>>>> :
        n \in After({"float32", "float64"}, ts, i, Delimited(ts, i + 1, SignedNumber(ts, i + 2)))}

StringArgument(ts, i) == Delimited(ts, i, Payload("string", ts, i + 1))

\* datetime("...") and eid("...").
TextConstructor(kind, ts, i) ==
    {<<text[1], <<kind, text[2]>>>> : text \in After({kind}, ts, i, StringArgument(ts, i + 1))}

remainder(ts, i) ==
    {<<key[1], <<"remainder", IF TokenAt(ts, i) = <<"rest">> THEN "rest" ELSE "exists", key[2]>>>> :
        key \in After({"rest", "rest_exists"}, ts, i, StringArgument(ts, i + 1))}

literal(ts, i) ==
    LET t == TokenAt(ts, i)
    IN  CASE t[1] \in {"integer", "floating", "string", "null"} -> {<<i + 1, t>>}
          [] t[1] \in {"true", "false"} -> {<<i + 1, <<"boolean", t[1] = "true">>>>}
          [] OTHER -> NoParse

Parenthesized(node) == IF node[1] = "field" THEN <<"field", node[2], "wide">> ELSE node

RECURSIVE expression(_, _)

\* e as t: <<e, t>>.
CastArgument(ts, i) ==
    UNION {{<<t[1], <<e[2], TypeNames[t[2]]>>>> :
               t \in After({"as"}, ts, e[1], OneOf(DOMAIN TypeNames, ts, e[1] + 1))} :
           e \in expression(ts, i)}

cast(ts, i) ==
    {<<c[1], <<"cast", IF TokenAt(ts, i) = <<"cast">> THEN "strict" ELSE "try", c[2][1], c[2][2]>>>> :
        c \in After({"cast", "try_cast"}, ts, i, Delimited(ts, i + 1, CastArgument(ts, i + 2)))}

\* The alternatives in order; a parenthesised expression is the last.
primary(ts, i) ==
    FirstOf(integer_constructor(ts, i), FirstOf(floating_constructor(ts, i),
    FirstOf(TextConstructor("datetime", ts, i), FirstOf(TextConstructor("eid", ts, i),
    FirstOf(cast(ts, i), FirstOf(remainder(ts, i), FirstOf(literal(ts, i),
    FirstOf({<<name[1], <<"field", name[2]>>>> : name \in field_reference(ts, i)},
            {<<e[1], Parenthesized(e[2])>> : e \in Delimited(ts, i, expression(ts, i + 1))}))))))))

\* At most one operator: `not not a` needs parentheses.
unary(ts, i) ==
    IF TokenAt(ts, i)[1] \notin {"not", "-"} THEN primary(ts, i)
    ELSE {<<e[1], <<"unary", TokenAt(ts, i)[1], e[2]>>>> : e \in primary(ts, i + 1)}

\* From the loosest: or, and, comparison, additive, multiplicative.
OperatorLevels == <<{"or"}, {"and"}, {"==", "!=", ">=", ">", "<=", "<"}, {"+", "-"}, {"*", "/"}>>

ComparisonLevel == 3

RECURSIVE parse_level(_, _, _)
RECURSIVE chain(_, _, _, _)

\* Mutant: a right fold, `a - b - c` is a - (b - c).
chain_RightFold(ts, i, left, level) ==
    Optional({<<right[1], <<"binary", TokenAt(ts, i)[1], left, right[2]>>>> :
                 right \in After(OperatorLevels[level], ts, i, parse_level(ts, i + 1, level))}, i, left)

\* foldl_with: each further operand becomes the right one; a comparison has
\* at most one operator.
chain(ts, i, left, level) ==
    LET Node(right) == <<"binary", TokenAt(ts, i)[1], left, right>>
    IN  Optional(UNION {IF level = ComparisonLevel THEN {<<right[1], Node(right[2])>>}
                        ELSE chain(ts, right[1], Node(right[2]), level) :
                        right \in After(OperatorLevels[level], ts, i, parse_level(ts, i + 1, level + 1))},
                 i, left)

parse_level(ts, i, level) ==
    IF level > Len(OperatorLevels) THEN unary(ts, i)
    ELSE UNION {chain(ts, left[1], left[2], level) : left \in parse_level(ts, i, level + 1)}

expression(ts, i) == parse_level(ts, i, 1)

-----------------------------------------------------------------------------
(* Stages.                                                                 *)

\* alias =
Alias(ts, i) == UNION {After({"="}, ts, name[1], {<<name[1] + 1, name[2]>>}) : name \in identifier(ts, i)}

projection(ts, i) ==
    FirstOf(UNION {{<<e[1], <<"computed", alias[2], e[2]>>>> : e \in expression(ts, alias[1])} :
                   alias \in Alias(ts, i)},
            {<<e[1], IF e[2][1] = "field" /\ Len(e[2]) = 2 THEN e[2] ELSE <<"unaliased", e[2]>>>> :
                e \in expression(ts, i)})

sort_item(ts, i) ==
    UNION {{<<name[1], <<direction[2], name[2]>>>> : name \in field_reference(ts, direction[1])} :
           direction \in Optional(OneOf({"+", "-"}, ts, i), i, "+")}

aggregate_call(ts, i) ==
    {<<argument[1], <<TokenAt(ts, i)[1], argument[2]>>>> :
        argument \in After(AggregateNames, ts, i,
                           Delimited(ts, i + 1, Optional(field_reference(ts, i + 2), i + 2, "")))}

measure(ts, i) ==
    UNION {{<<call[1], <<alias[2], call[2][1], call[2][2]>>>> : call \in aggregate_call(ts, alias[1])} :
           alias \in Optional(Alias(ts, i), i, "")}

\* `@h` without a space is one token.
CompactUnit == [s |-> "@s", m |-> "@m", h |-> "@h", d |-> "@d"]

Truncation(ts, i) ==
    FirstOf({<<i + 1, <<"truncate", u>>>> :
                u \in {unit \in UnitKeywords : TokenAt(ts, i) = <<"system", CompactUnit[unit]>>}},
            {<<unit[1], <<"truncate", unit[2]>>>> :
                unit \in After({"@"}, ts, i, OneOf(UnitKeywords, ts, i + 1))})

\* A magnitude that is left out is 1, and one of 0 is refused.
Shift(ts, i) ==
    UNION {{<<unit[1], <<"shift", TokenAt(ts, i)[1], n[2], unit[2]>>>> : unit \in OneOf(UnitKeywords, ts, n[1])} :
           n \in {m \in After({"+", "-"}, ts, i, Optional(Payload("integer", ts, i + 1), i + 1, 1)) :
                    m[2] # 0}}

time_operation(ts, i) == FirstOf(Truncation(ts, i), Shift(ts, i))

ParseItem(kind, ts, i) ==
    CASE kind = "projection" -> projection(ts, i)
      [] kind = "sort item"  -> sort_item(ts, i)
      [] kind = "measure"    -> measure(ts, i)
      [] kind = "field"      -> field_reference(ts, i)
      [] kind = "operation"  -> time_operation(ts, i)

\* separated_by(...).at_least(1), or repeated().at_least(1) when the separator
\* is ""; a trailing separator is left unread.
RECURSIVE more_items(_, _, _, _, _)
more_items(kind, separator, ts, i, items) ==
    Optional(UNION {more_items(kind, separator, ts, item[1], Append(items, item[2])) :
                    item \in IF separator = "" THEN ParseItem(kind, ts, i)
                             ELSE After({separator}, ts, i, ParseItem(kind, ts, i + 1))},
             i, items)

Items(kind, separator, ts, i) ==
    UNION {more_items(kind, separator, ts, item[1], <<item[2]>>) : item \in ParseItem(kind, ts, i)}

group_by(ts, i) == Optional(After({"by"}, ts, i, Items("field", ",", ts, i + 1)), i, <<>>)

\* A sort stage may leave out its `by`.
stage(ts, i) ==
    LET j == i + 1
        by == IF TokenAt(ts, j) = <<"by">> THEN j + 1 ELSE j
    IN  CASE TokenAt(ts, i) = <<"filter">> ->
               {<<e[1], <<"filter", e[2]>>>> : e \in expression(ts, j)}
          [] TokenAt(ts, i) = <<"project">> ->
               {<<ps[1], <<"project", ps[2]>>>> : ps \in Items("projection", ",", ts, j)}
          [] TokenAt(ts, i) = <<"sort">> ->
               {<<ss[1], <<"sort", ss[2]>>>> : ss \in Items("sort item", ",", ts, by)}
          [] TokenAt(ts, i) = <<"take">> ->
               {<<n[1], <<"take", n[2][1], n[2][2]>>>> : n \in signed_integer_literal(ts, j)}
          [] TokenAt(ts, i) = <<"summarize">> ->
               UNION {{<<gs[1], <<"summarize", ms[2], gs[2]>>>> : gs \in group_by(ts, ms[1])} :
                      ms \in Items("measure", ",", ts, j)}
          [] OTHER -> NoParse

time_expression(ts, i) ==
    FirstOf(TextConstructor("datetime", ts, i),
        FirstOf({<<now[1], <<"now">>>> : now \in OneOf({"now"}, ts, i)},
                {<<os[1], <<"relative", os[2]>>>> : os \in Items("operation", "", ts, i)}))

\* start_inclusive = ..., or <<>>.
Bound(keyword, ts, i) ==
    Optional(After({keyword}, ts, i, After({"="}, ts, i + 1, time_expression(ts, i + 2))), i, <<>>)

TimeBounds(ts, i) ==
    UNION {{<<end[1], <<start[2], end[2]>>>> : end \in Bound("end_exclusive", ts, start[1])} :
           start \in Bound("start_inclusive", ts, i)}

source_expression(ts, i) ==
    UNION {{<<range[1], [source |-> name[2], start |-> range[2][1], end |-> range[2][2]]>> :
               range \in TimeBounds(ts, name[1])} :
           name \in After({"source"}, ts, i, identifier(ts, i + 1))}

RECURSIVE stages(_, _, _)
stages(ts, i, parsed) ==
    Optional(UNION {stages(ts, next[1], Append(parsed, next[2])) :
                    next \in After({"|"}, ts, i, stage(ts, i + 1))}, i, parsed)

\* A query is the whole input.
parse(ts) ==
    UNION {{<<r[1], [source |-> source[2].source, start |-> source[2].start, end |-> source[2].end,
                     stages |-> r[2]]>> :
               r \in {result \in stages(ts, source[1], <<>>) : result[1] = Len(ts) + 1}} :
           source \in source_expression(ts, 1)}

=============================================================================

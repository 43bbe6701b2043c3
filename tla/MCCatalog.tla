------------------------------ MODULE MCCatalog ------------------------------
(***************************************************************************)
(* Eight documents for two sources: a first version, additions, pointers   *)
(* moved back, a redefinition, an incompatible schema, an unresolved       *)
(* pointer and a version that fits no column.                              *)
(***************************************************************************)
EXTENDS Catalog

CONSTANTS p1, p2, r1, r2

MCSymmetry == Permutations({r1, r2})

MCNameOrder == <<"amount", "host", "http", "logs", "tcp", "web", "when">>

MCInstants == 0 .. 9

MCField(name, type, nullable, pointer) ==
    [name |-> name, type |-> type, nullable |-> nullable, pointer |-> pointer]

MCHost == MCField("host", "Utf8", FALSE, None)

MCSchema1 == [version |-> 1, fields |-> <<MCHost>>]

MCSchema2 ==
    [version |-> 3,
     fields  |-> <<MCHost, MCField("amount", "Int32", TRUE, <<"amount">>),
                   MCField("when", "Datetime", TRUE, <<"meta", "when">>)>>]

MCRevision(revision, target, format, mappings) ==
    [revision |-> revision, target |-> target,
     eventTime |-> [pointer |-> <<"time">>, format |-> format], mappings |-> mappings]

MCMapping(name, pointer) == [target |-> name, pointer |-> pointer]

MCRevision1(format) == MCRevision(1, 1, format, <<MCMapping("host", <<"host">>)>>)

MCRevision2 ==
    MCRevision(2, 3, "Rfc3339", <<MCMapping("when", <<"meta", "when">>), MCMapping("host", <<"host">>)>>)

MCInput(name, active, revisions) == [name |-> name, active |-> active, revisions |-> revisions]

MCManifest(name, active, schemas, inputs) ==
    [format |-> 1, name |-> name, display |-> name, active |-> active, schemas |-> schemas, inputs |-> inputs]

MCFirst(format) == MCManifest("logs", 1, <<MCSchema1>>, <<MCInput("http", 1, <<MCRevision1(format)>>)>>)

MCSecond == MCManifest("logs", 3, <<MCSchema1, MCSchema2>>,
                       <<MCInput("tcp", 1, <<MCRevision1("Rfc3339")>>),
                         MCInput("http", 2, <<MCRevision1("Rfc3339"), MCRevision2>>)>>)

\* Queries go back to the first schema, ingestion stays with the second.
MCBack == [MCSecond EXCEPT !.active = 1]

MCRedefined == MCManifest("logs", 1, <<[MCSchema1 EXCEPT !.fields = <<MCHost, MCField("when", "Utf8", TRUE, None)>>]>>,
                          <<MCInput("http", 1, <<MCRevision1("Rfc3339")>>)>>)

MCIncompatible ==
    LET field == MCField("amount", "Int32", FALSE, None)
    IN  MCManifest("logs", 2, <<MCSchema1, [version |-> 2, fields |-> <<MCHost, field>>]>>, <<>>)

MCUnresolved == [MCFirst("Rfc3339") EXCEPT !.active = 9]

MCOverflow == MCManifest("web", 4, <<[MCSchema1 EXCEPT !.version = 4]>>, <<>>)

MCWeb == MCManifest("web", 1, <<MCSchema1>>, <<>>)

MCWorkloads ==
    {[processes |-> {p1}, documents |-> {MCFirst("Rfc3339"), MCSecond, MCBack}],
     [processes |-> {p1}, documents |-> {MCFirst("Rfc3339"), MCRedefined, MCIncompatible, MCUnresolved}],
     [processes |-> {p1}, documents |-> {MCSecond, MCWeb, MCOverflow}],
     [processes |-> {p1, p2}, documents |-> {MCFirst("Rfc3339"), MCSecond}]}

MCText(at) == [type |-> "string", at |-> at, fraction |-> FALSE, len |-> 1]

MCInteger(n) == [type |-> "int", n |-> n, len |-> 1]

MCRecord(time, amount, when) ==
    [type |-> "object", members |->
       [time |-> time, host |-> MCText(None), amount |-> amount,
        meta |-> [type |-> "object", members |-> [when |-> when]]]]

MCRecords ==
    {MCRecord(MCText(1), MCInteger(3), MCText(2)), MCRecord(MCText(1), MCInteger(300), MCText(None)),
     MCRecord(MCText(2), [type |-> "null"], MCInteger(4)),
     [type |-> "object", members |-> [time |-> MCText(3), host |-> MCText(4)]]}
=============================================================================

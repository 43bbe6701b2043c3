-------------------------- MODULE MCSegmentBuilders --------------------------
(***************************************************************************)
(* A source with two schemas and two profile revisions, five batches that  *)
(* arrive in any order, and limits of a few rows and builders.             *)
(***************************************************************************)
EXTENDS SegmentBuilders

MCInstants == -100 .. 100

MCInt(n) == [type |-> "int", n |-> n, len |-> 1]

MCText(length) == [type |-> "string", at |-> None, fraction |-> FALSE, len |-> length]

MCObject(members) == [type |-> "object", members |-> members]

MCField(id, role, type, nullable) == [id |-> id, role |-> role, type |-> type, nullable |-> nullable]

MCSchemas ==
    <<[fields |-> <<MCField("@event_time", "EventTime", "Datetime", FALSE),
                    MCField("count", "Data", "Int32", FALSE)>>],
      [fields |-> <<MCField("@event_time", "EventTime", "Datetime", FALSE),
                    MCField("count", "Data", "UInt32", FALSE),
                    MCField("label", "Data", "Utf8", TRUE),
                    MCField("extra", "Data", "Float32", TRUE)>>]>>

MCProfile(schema, mappings) ==
    [target |-> schema, mappings |-> mappings,
     eventTime |-> [pointer |-> <<"t">>, format |-> "UnixMilliseconds"]]

MCSource ==
    [id |-> 1, schemas |-> MCSchemas,
     inputs |-> [http |->
       <<MCProfile(1, <<[target |-> "count", pointer |-> <<"c">>]>>),
         MCProfile(2, <<[target |-> "count", pointer |-> <<"c">>],
                        [target |-> "label", pointer |-> <<"o", "l">>]>>)>>]]

MCLine(kind, root) == [kind |-> kind, root |-> root, bytes |-> 10, ending |-> 1, width |-> 1]

MCRow(time, count) == MCLine("object", MCObject([t |-> MCInt(time), c |-> MCInt(count)]))

MCWide(time) ==
    MCLine("object", MCObject([t |-> MCInt(time), c |-> MCInt(1),
                               o |-> MCObject([l |-> MCText(4), m |-> MCText(8)])]))

MCBatch(revision, body) ==
    [pinned |-> [source |-> 1, input |-> "http", revision |-> revision, schema |-> revision],
     ingestion |-> 0, body |-> body]

\* Days 0 and 1 and a dead letter; the day limit; another schema with remainders; a full segment;
\* and a batch that fits the body limit and no builder budget.
MCBatches ==
    <<MCBatch(1, <<MCRow(1, 1), MCLine("blank", None), MCRow(12, 1), MCLine("object", MCObject([t |-> MCInt(3)]))>>),
      MCBatch(1, <<MCRow(25, 1), MCRow(13, 7), MCRow(5, 3), MCRow(11, 1), MCRow(22, 2)>>),
      MCBatch(2, <<MCWide(3), MCLine("text", None), MCRow(2, 1)>>),
      MCBatch(1, <<MCRow(4, 1), MCRow(4, 1), MCRow(3, 1)>>),
      MCBatch(2, <<MCWide(13), MCWide(14), MCWide(15), MCWide(16), MCWide(17)>>)>>

MCRecovered == <<{}, {11}, {}, {}, {}>>
=============================================================================
